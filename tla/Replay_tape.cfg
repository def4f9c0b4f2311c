SPECIFICATION RSpec
CONSTANTS
  Texts <- mcTexts
  Tools <- mcTools
  Configs = {cfg}
  Histories <- histories
  Answers <- mixed
  Summaries <- summaries
  Registered = {"read", "write"}
  Writers = {"write"}
  MaxSteps = 6
  HasPolicy = FALSE
  Asking = {"write"}
  Denied = {}
  ToolsMayFail = FALSE
  HasSnapshots = TRUE
  HasBudget = TRUE
  Oversized = {"read"}
  CompactAt = 8
  KeepRecent = 2
  MayCrash = TRUE
  Rewound = TRUE
CHECK_DEADLOCK FALSE
INVARIANT ReplayRepeats
INVARIANT ReplayIsFree
