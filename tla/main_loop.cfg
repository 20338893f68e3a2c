CONSTANTS
  MAX_SWITCHES = 36
  MAX_PROBES = 30
  GBT_DATA_WIDTH = 66
  Missing = Missing
  WantedTable <- MCTable
  ProbeFiles <- MCProbeFiles
  SwitchFiles <- MCSwitchFiles
  CMD_WIDTH = 5
  CMD_SIZE = 2
  ARGS_SIZE = 5
SPECIFICATION MainSpec
INVARIANTS
  MainTypeOK
  NamesAtTheirAddresses
PROPERTY StartupEnds
CHECK_DEADLOCK FALSE
