SPECIFICATION RSpec
CONSTANTS
  Texts <- mcTexts
  Tools <- mcTools
  Configs = {cfg}
  Histories <- histories
  Answers <- mixed
  Summaries <- summaries
  Registered = {"read", "write"}
  Writers = {"write"}
  MaxSteps = 2
  HasPolicy = FALSE
  Asking = {"write"}
  Denied = {}
  ToolsMayFail = FALSE
  HasSnapshots = FALSE
  HasBudget = FALSE
  Oversized = {"read"}
  CompactAt = 100
  KeepRecent = 2
  MayCrash = FALSE
  Rewound = FALSE
CHECK_DEADLOCK FALSE
PROPERTY ReplayTouchesNothing
