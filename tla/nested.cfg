CONSTANTS
  MAX_SWITCHES = 2
  GBT_DATA_WIDTH = 4
  GBT_SWTABLE <- MCTable
  MaxDepth = 3
  MaxNested = 3
SPECIFICATION FairSpec
INVARIANTS
  TypeOK
  OverrunBounded
PROPERTIES
  UninterruptedSweeps
  RecoversWhenHeard
