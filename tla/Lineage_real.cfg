SPECIFICATION Spec
CONSTANTS
  Sessions = {1, 2, 3}
  Commands <- commands
  MaxCrashes = 0
CHECK_DEADLOCK FALSE
INVARIANT RestoredWritesAreReal
