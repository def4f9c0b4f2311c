SPECIFICATION Spec
CONSTANTS
  Setters = {}
  MaxSigints = 2
CHECK_DEADLOCK FALSE
PROPERTY NeverTrapped
