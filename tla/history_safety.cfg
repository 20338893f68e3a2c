CONSTANTS
  MAX_SWITCHES = 2
  MAX_PROBES = 1
  GBT_DATA_WIDTH = 3
  GBT_SWTABLE <- MCTable
  PollSize = 2
  Volatile <- MCVolatile
  Glitches <- MCGlitch
  MaxInFlight = 2
  MaxGlitch = 1
  MaxChanges = 2
SPECIFICATION HSpec
INVARIANTS
  TypeOK
  CursorCoherent
  LineInOrder
  WritesCarryTable
  BacklogBounded
  DisplayGenuine
PROPERTY
  DisplayNeverGoesBack
