SPECIFICATION Spec
CONSTANTS
  Setters = {t1, t2}
  MaxSigints = 3
CHECK_DEADLOCK FALSE
PROPERTY WaitIsWoken
PROPERTY FeltUnlessHeld
