CONSTANTS
  p1 = p1
  p2 = p2
  p3 = p3
  Program = {p1, p2, p3}
  Builds = {"linux", "windows"}
  cport_nr = 4
  bdrate <- MCBdrate
  cport_mode <- MCMode
  Faults = {"open", "getattr", "setattr", "mget", "mset", "cmset", "csetattr"}
  MaxFd = 6
  Original = Original
SPECIFICATION Spec
INVARIANT LockedByAnother
