CONSTANTS
  me = me
  other = other
  Program = {me, other}
  Builds = {"linux"}
  cport_nr = 4
  bdrate <- MCBdrate
  cport_mode <- MCMode
  Faults = {"open", "mget"}
  TimerFaults = {"setitimer", "sigaction"}
  MaxFd = 5
  Original = Original
  MaxKeys = 1
  MaxDepth = 2
SPECIFICATION PFairSpec
INVARIANTS
  ProgramTypeOK
  RequestsOnOwnPort
  KeysLeftToMain
  AlarmIsHandled
PROPERTIES
  MainRunsAgain
  EngineGoesOn
