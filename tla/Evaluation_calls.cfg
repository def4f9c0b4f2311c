SPECIFICATION Spec
CONSTANTS
  Suite <- MCShared
  Kind <- MCKind
  Repeats = 1
  K = 2
  Hundredths <- MCHundredths
  MaxAttempts = 4
INVARIANT PassIsEarned
INVARIANT JudgmentsAreOwn
CHECK_DEADLOCK FALSE
