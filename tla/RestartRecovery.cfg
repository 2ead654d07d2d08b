SPECIFICATION FairSpec
CONSTANTS
  MaxCalls = 1
  Programs <- MCPlain
  Statements = 1
  Codes <- MCCodes
  MaxRestarts = 1
  MaxPolls = 1
PROPERTIES NoMeansNo
CHECK_DEADLOCK FALSE
