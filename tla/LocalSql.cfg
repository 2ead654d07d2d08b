SPECIFICATION FairSpec
CONSTANTS
  Calls = {1, 2}
  Brief = {2}
  Ids = {"a"}
  MaxSessions = 2
  MaxStatements = 1
  Capacity = 1
  Failures = {"Conflict"}
  Outputs <- SmallOutputs
INVARIANTS CommitsAreReported AcceptedCancelNeverSucceeds RunningQueriesAreFound OutputIsWholeOrRefused
PROPERTIES StopsEnd
CHECK_DEADLOCK FALSE
