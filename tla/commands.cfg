CONSTANTS
  MAX_SWITCHES = 36
  MAX_PROBES = 30
  GBT_DATA_WIDTH = 66
  WantedTable <- MCTable
  Tokens <- MCTokens
  MaxArgs = 3
SPECIFICATION Spec
INVARIANTS
  ReadsAgreeWithReceive
  WritesAreAsked
\* The program stops when it is left.
CHECK_DEADLOCK FALSE
