SPECIFICATION PromptSpec
CONSTANTS
  MaxAttempts = 3
  MaxChunks = 2
  Sites = {"stream", "complete", "summary"}
INVARIANT TypeOK
INVARIANT ShownIsReturned
INVARIANT AtMostOneLate
PROPERTY KeepsPromise
PROPERTY CancelFelt
PROPERTY TurnEnds
CHECK_DEADLOCK FALSE
