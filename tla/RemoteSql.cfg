SPECIFICATION FairSpec
CONSTANTS
  MaxCalls = 2
  Programs <- MCPrograms
  Statements = 2
  Codes <- MCCodes
  MaxRestarts = 1
  MaxPolls = 1
INVARIANTS ReportsAreTrue
PROPERTIES CancelledStaysCancelled ImplementsAtMostOnce CallsReturn
CHECK_DEADLOCK FALSE
