SPECIFICATION Spec
CONSTANTS
  MaxAttempts = 2
  MaxChunks = 2
  Sites = {"stream"}
CHECK_DEADLOCK FALSE
INVARIANT PartialTurnNotReturned
