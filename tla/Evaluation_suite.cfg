SPECIFICATION Spec
CONSTANTS
  Suite <- MCSuite
  Kind <- MCKind
  Repeats = 2
  K = 2
  Hundredths <- MCHundredths
  MaxAttempts = 4
INVARIANT PassIsEarned
INVARIANT JudgmentsAreOwn
CHECK_DEADLOCK FALSE
