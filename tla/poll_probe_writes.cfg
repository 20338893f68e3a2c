CONSTANTS
  MAX_SWITCHES = 2
  MAX_PROBES = 2
  GBT_DATA_WIDTH = 4
  GBT_SWTABLE <- MCTable
  PollSize = 2
  Volatile <- MCVolatile
  Glitches <- MCGlitch
  MaxInFlight = 2
  MaxGlitch = 1
SPECIFICATION Spec
INVARIANT WritesOnlySwitches
