SPECIFICATION Spec
CONSTANTS
  Forms <- MCForms
  Responses <- Reasoned
  Targets <- MCTargets
  MaxTrailing = 2
INVARIANT PayloadsAreVerbatim
CHECK_DEADLOCK FALSE
