----------------------------- MODULE RS232Builds ----------------------------
(***************************************************************************)
(* The serial port in both builds, its properties, and what it implements. *)
(***************************************************************************)
EXTENDS RS232Linux, RS232Windows

\* The calls of p once it has begun to open or to close the port.
Step(p) == LinuxStep(p) \/ WindowsStep(p)

Next == \E p \in Program : DoOpenCom(p) \/ DoCloseCom(p) \/ Step(p) \/ Restart(p)

Spec == Init /\ [][Next]_vars

\* System calls return.
FairSpec == Spec /\ \A p \in Program : WF_vars(Step(p))
-----------------------------------------------------------------------------
(* Properties *)

Settings == {Original} \cup {new_port_settings(p) : p \in {q \in Program : Legal(q)}}

\* The type of every variable.
TypeOK ==
  /\ build \in Builds
  /\ pc \in [Program -> {"idle", "close", "cunlock", "handle"}
                          \cup LinuxCalls \cup WindowsCalls]
  /\ cport_status \in [Program -> {0, 1}]
  /\ Cport \in [Program -> {-1, 0} \cup Fd]
  /\ old_port_settings \in [Program -> Settings]
  /\ fds \in [Program -> SUBSET Fd]
  /\ lock \in {NoLock} \cup (Program \X Fd)
  /\ settings \in Settings
  /\ dtr_rts \in {"on", "off"}
  /\ spoiled \in BOOLEAN

\* While a program takes the port for open, its descriptor is open, it holds
\* the lock, and the device has the settings this program asked for and its
\* lines on: no other program, in the middle of opening or closing the port
\* or after a failure of its own, disturbs it (rs232.c: "lock access so that
\* another process can't also use the port").
UsableWhenOpen ==
  \A p \in Program : cport_status[p] = 1 /\ pc[p] = "idle" =>
    /\ Cport[p] \in fds[p]
    /\ lock = <<p, Cport[p]>>
    /\ settings = new_port_settings(p)
    /\ dtr_rts = "on"

\* Whatever failed, a program between two commands has at most one descriptor
\* on the device and that one holds the lock: failing again and again does
\* not use the descriptors up.  Under Windows it has none unless it takes the
\* port for open.
DescriptorsAccounted ==
  \A p \in Program : pc[p] = "idle" =>
    /\ Cardinality(fds[p]) <= 1
    /\ \A fd \in fds[p] : lock = <<p, fd>>
    /\ build = "windows" /\ cport_status[p] = 0 => fds[p] = {}

\* Under Linux, the device gets its settings back: a chain of programs that
\* save them, set their own and restore what they saved leaves none behind,
\* whatever else fails, as long as no program leaves with the port open and
\* restoring the settings does not fail.
SettingsGivenBack ==
  build = "linux" /\ lock = NoLock /\ ~ spoiled => settings = Original

\* The port of the contract: the owner is the program with the lock.
Owner == IF lock = NoLock THEN {} ELSE {lock[1]}
Phase ==
  IF lock = NoLock THEN "free"
  ELSE IF cport_status[lock[1]] = 0 THEN "opening"
  ELSE IF pc[lock[1]] = "idle" THEN "open" ELSE "closing"

Contract == INSTANCE PortContract WITH owner <- Owner, phase <- Phase

\* Both halves of rs232.c, with the failures and leaks they have, keep the
\* contract of a port: every step is one of the contract's or changes nothing
\* in it, and a port that is being closed is released.
KeepsContract == Contract!Spec

\* What the program says when flock() fails (rs232.c: "Another process has
\* locked the comport."): the lock is not its own.
LockedByAnother ==
  \A p \in Program : pc[p] = "flock" /\ lock # NoLock => lock[1] # p
=============================================================================
