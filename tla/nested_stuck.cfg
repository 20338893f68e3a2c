CONSTANTS
  MAX_SWITCHES = 2
  GBT_DATA_WIDTH = 4
  GBT_SWTABLE <- MCTable
  MaxDepth = 2
  MaxNested = 1
SPECIFICATION FairSpec
PROPERTY SweepsGoOn
