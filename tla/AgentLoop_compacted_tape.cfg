SPECIFICATION Spec
CONSTANTS
  Texts <- mcTexts
  Tools <- mcTools
  Configs = {cfg}
  Histories <- justRun
  Answers <- plain
  Summaries <- summaries
  Registered = {"read", "write", "rm"}
  Writers = {"write", "rm"}
  MaxSteps = 4
  HasPolicy = FALSE
  Asking = {"write"}
  Denied = {"rm"}
  ToolsMayFail = FALSE
  HasSnapshots = FALSE
  HasBudget = TRUE
  Oversized = {"read"}
  CompactAt = 8
  KeepRecent = 2
  MayCrash = FALSE
CHECK_DEADLOCK FALSE
INVARIANT TapeTellsHistory
