SPECIFICATION Spec
CONSTANTS
  Forms <- MCForms
  Responses <- MCResponses
  Targets <- MCTargets
  MaxTrailing = 2
INVARIANT StreamSaysTheSame
INVARIANT TapeCarriesTheTurn
INVARIANT BatteryTells
CHECK_DEADLOCK FALSE
