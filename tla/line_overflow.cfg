CONSTANTS
  MAX_SWITCHES = 36
  MAX_PROBES = 30
  GBT_DATA_WIDTH = 66
  Missing = Missing
  WantedTable <- MCTable
  ProbeFiles <- MCProbeFiles
  SwitchFiles <- MCSwitchFiles
  CMD_WIDTH = 100
  CMD_SIZE = 30
  ARGS_SIZE = 100
SPECIFICATION MainSpec
INVARIANT OverflowPrevented
CHECK_DEADLOCK FALSE
