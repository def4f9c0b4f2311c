SPECIFICATION Spec
CONSTANTS
  Texts <- mcTexts
  Tools <- mcTools
  Configs = {cfg}
  Histories <- runOrResume
  Answers <- mixed
  Summaries <- summaries
  Registered = {"read", "write", "rm"}
  Writers = {"write", "rm"}
  MaxSteps = 3
  HasPolicy = TRUE
  Asking = {"write", "nosuch"}
  Denied = {"rm"}
  ToolsMayFail = TRUE
  HasSnapshots = TRUE
  HasBudget = TRUE
  Oversized = {"read"}
  CompactAt = 100
  KeepRecent = 2
  MayCrash = TRUE
CHECK_DEADLOCK FALSE
INVARIANT TypeOK
INVARIANT RequestsSendable
INVARIANT TapeTellsHistory
INVARIANT CancelLeavesWhole
INVARIANT WritesAreTold
INVARIANT SnapshotMatchesTape
INVARIANT TapeIsOneRun
INVARIANT StopIsTold
INVARIANT AtMostOneLateTurn
PROPERTY TellsConversation
PROPERTY NothingRunsUnlicensed
