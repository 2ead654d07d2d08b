SPECIFICATION Spec
CONSTANTS
  MinInt <- MCMinInt
  MaxInt = 7
  Exact = 4
  MinNarrow <- MCMinNarrow
  MaxNarrow = 1
  Defs <- MCDefs
  Contents <- MCContents
  StagedOps <- MCStagedOps
  Asks <- MCNarrowAsks
  MaxCommits = 1
  MaxStaged = 1
PROPERTIES NativeIsIdentical
