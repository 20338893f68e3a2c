CONSTANTS
  MAX_SWITCHES = 2
  MAX_PROBES = 1
  GBT_DATA_WIDTH = 3
  GBT_SWTABLE <- MCTable
  PollSize = 2
  Volatile <- MCVolatile
  Glitches <- MCGlitch
  MaxInFlight = 1
  MaxGlitch = 1
SPECIFICATION FairSpec
PROPERTIES
  SwitchesRestored
  DisplayConverges
  SweepsForever
