SPECIFICATION Spec
CONSTANTS
  MinInt <- MCMinInt
  MaxInt = 7
  Exact = 4
  MinNarrow <- MCMinNarrow
  MaxNarrow = 1
  Defs <- MCDefs
  Contents <- MCContents
  StagedOps <- MCStagedOps
  Asks <- MCAsks
  MaxCommits = 1
  MaxStaged = 1
PROPERTIES SelectsWhatAScanWould EngineAggregatesAgree GroupsPartitionTheRows JoinsWhatALoopWould IncrementalIsExact
