SPECIFICATION Spec
CONSTANTS
  Texts <- mcTexts
  Tools <- mcTools
  Configs = {cfg}
  Histories <- justRun
  Answers <- mixed
  Summaries <- summaries
  Registered = {"read", "write", "rm"}
  Writers = {"write", "rm"}
  MaxSteps = 3
  HasPolicy = FALSE
  Asking = {"write"}
  Denied = {"rm"}
  ToolsMayFail = FALSE
  HasSnapshots = FALSE
  HasBudget = FALSE
  Oversized = {"read"}
  CompactAt = 100
  KeepRecent = 2
  MayCrash = FALSE
CHECK_DEADLOCK FALSE
INVARIANT CeilingIsTold
