SPECIFICATION Spec
CONSTANTS
  Files <- MCFiles
  LocalTools <- MCLocalTools
  ServerTools <- MCServerTools
  Namings <- MCNamings
  Calls <- MCCalls
  MaxRequests = 4
  MaxChatter = 1
INVARIANT DeniedNeverRuns
INVARIANT AskedRunsAgreed
INVARIANT AnswersLagByChatter
CHECK_DEADLOCK FALSE
