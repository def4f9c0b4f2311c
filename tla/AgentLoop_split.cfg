SPECIFICATION Spec
CONSTANTS
  Texts <- mcTexts
  Tools <- mcTools
  Configs = {cfg}
  Histories <- justNudged
  Answers <- plain
  Summaries <- summaries
  Registered = {"read", "write", "rm"}
  Writers = {"write", "rm"}
  MaxSteps = 3
  HasPolicy = FALSE
  Asking = {"write"}
  Denied = {"rm"}
  ToolsMayFail = FALSE
  HasSnapshots = FALSE
  HasBudget = TRUE
  Oversized = {"read"}
  CompactAt = 11
  KeepRecent = 4
  MayCrash = FALSE
CHECK_DEADLOCK FALSE
PROPERTY CompactionKeepsTurns
