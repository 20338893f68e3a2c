CONSTANTS
  MAX_SWITCHES = 2
  MAX_PROBES = 1
  GBT_DATA_WIDTH = 3
  GBT_SWTABLE <- MCTable
  PollSize = 2
  Volatile <- MCVolatile
  Glitches = {}
  MaxInFlight = 2
  MaxGlitch = 0
  MaxChanges = 2
SPECIFICATION HSpec
INVARIANT ReadAnswered
