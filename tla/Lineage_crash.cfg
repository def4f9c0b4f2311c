SPECIFICATION Spec
CONSTANTS
  Sessions = {1, 2, 3}
  Commands <- commands
  MaxCrashes = 1
CHECK_DEADLOCK FALSE
INVARIANT CrashCostsNoStep
