SPECIFICATION FairSpec
CONSTANTS
  c1 = c1
  c2 = c2
  Clients = {c1, c2}
  Timeouts = {2}
  TablesOf <- Schemas2
  Existing <- Directories0
  Wanted <- Functions2
  MaxFailures = 1
INVARIANTS OpenDatabasesAreWhole DatabasesStayOpenable HeldWhileUsed
PROPERTIES WaitsItsTimeoutOut CallsReturn
