CONSTANTS
  p1 = p1
  p2 = p2
  p3 = p3
  Program = {p1, p2, p3}
  Builds = {"linux", "windows"}
  cport_nr = 4
  bdrate <- MCBdrate
  cport_mode <- MCMode
  Faults = {"open", "flock", "getattr", "setattr", "mget", "mset", "cmset", "csetattr", "create", "dcb", "state", "timeouts"}
  MaxFd = 6
  Original = Original
SPECIFICATION FairSpec
INVARIANTS
  TypeOK
  UsableWhenOpen
  DescriptorsAccounted
  SettingsGivenBack
PROPERTY KeepsContract
