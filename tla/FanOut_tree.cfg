SPECIFICATION Spec
CONSTANTS
  Plans <- MCPlans
  Nested <- MCNested
  AutoName <- MCAutoName
  ParentTape = "parent"
  MaxSteps = 2
  MaxNested = 1
  MaxDepth = 3
INVARIANT TokensCountOnce
INVARIANT FailureIsLocal
CHECK_DEADLOCK FALSE
