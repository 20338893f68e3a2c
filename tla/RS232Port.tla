------------------------------ MODULE RS232Port -----------------------------
(***************************************************************************)
(* The serial port as the programs that contend for one device share it:   *)
(* what is common to both halves of rs232.c, and the commands of cmds.c    *)
(* that open and close the comport.  RS232Linux and RS232Windows have the  *)
(* system calls of RS232_OpenComport() and RS232_CloseComport(), one step  *)
(* each; RS232Builds puts them together.                                   *)
(*                                                                         *)
(* Any call may fail that Faults names, and a program may leave, by its    *)
(* exit command or because it is killed, and be started again.  Commands   *)
(* with an argument other than "comport" only print.                       *)
(***************************************************************************)
EXTENDS Integers, FiniteSets, FiniteSetsExt, Sequences

CONSTANTS
  Program,     \* the programs, each a copy of the one in main.c
  Builds,      \* the builds to consider: under #if at rs232.c:38, or not
  cport_nr,    \* the number of the comport they all use
  bdrate,      \* the baud rate each one asks for ...
  cport_mode,  \* ... and its mode, data bits, parity and stop bits
  Faults,      \* the calls that may fail
  MaxFd,       \* bound: the highest descriptor; 0, 1 and 2 are in use
  Original     \* the settings and lines of the device before any program ran

LinuxCalls == {"open", "flock", "getattr", "setattr", "mget", "mset", "cmset", "csetattr"}
WindowsCalls == {"create", "dcb", "state", "timeouts"}

ASSUME ProgramAssumption ==
  /\ Builds \subseteq {"linux", "windows"}
  /\ cport_nr \in Int
  /\ bdrate \in [Program -> Nat]
  /\ cport_mode \in [Program -> Seq(STRING)]
ASSUME DescriptorAssumption == MaxFd \in Nat /\ MaxFd > 3
ASSUME FaultAssumption == Faults \subseteq LinuxCalls \cup WindowsCalls

VARIABLES
  build,              \* the build of all the programs; never changes
  pc,                 \* what each program calls next; "idle" between commands
  cport_status,       \* 1 when the program takes the port for open
  Cport,              \* the descriptor last opened, 0 before, -1 on failure
  old_port_settings,  \* the settings each program saved
  fds,                \* the descriptors each program has open on the device
  lock,               \* the one that holds the lock, <<program, fd>>, or NoLock
  settings,           \* the device's settings
  dtr_rts,            \* its modem lines DTR and RTS
  spoiled             \* history: has a program left without closing the port, or
                      \* failed to restore the settings?

device == <<settings, dtr_rts, spoiled>>
vars == <<build, pc, cport_status, Cport, old_port_settings, fds, lock, device>>

Fd == 3 .. MaxFd
NoLock == << >>

-----------------------------------------------------------------------------
(* Parameters and settings *)

Numbers == IF build = "linux" THEN 0 .. 37 ELSE 0 .. 15

BothBauds == {110, 300, 600, 1200, 2400, 4800, 9600, 19200, 38400, 57600,
              115200, 500000, 1000000}
LinuxBauds == BothBauds \cup
  {50, 75, 134, 150, 200, 1800, 230400, 460800, 576000, 921600, 1152000, 1500000,
   2000000, 2500000, 3000000, 3500000, 4000000}
WindowsBauds == BothBauds \cup {128000, 256000}

\* A mode is a string of three characters, the same for both builds.
LegalMode(mode) ==
  /\ Len(mode) = 3
  /\ mode[1] \in {"8", "7", "6", "5"}
  /\ mode[2] \in {"N", "n", "E", "e", "O", "o"}
  /\ mode[3] \in {"1", "2"}

\* The checks before the port is opened.
Legal(p) ==
  /\ cport_nr \in Numbers
  /\ bdrate[p] \in IF build = "linux" THEN LinuxBauds ELSE WindowsBauds
  /\ LegalMode(cport_mode[p])

Parity(char) ==
  CASE char \in {"N", "n"} -> "none"
    [] char \in {"E", "e"} -> "even"
    [] char \in {"O", "o"} -> "odd"

new_port_settings(p) ==
  [speed |-> bdrate[p], bits |-> cport_mode[p][1],
   parity |-> Parity(cport_mode[p][2]), stop |-> cport_mode[p][3]]

-----------------------------------------------------------------------------
(* System calls *)

\* p's next call is the one named, and goes on to another.
At(p, here, next) == pc[p] = here /\ pc' = [pc EXCEPT ![p] = next]

\* The named call of p fails, and the program goes on to another.
Fails(p, here, next) == here \in Faults /\ At(p, here, next)

\* The system hands out the lowest free descriptor ...
NewFd(p) ==
  \E fd \in Fd \ fds[p] : /\ \A other \in Fd \ fds[p] : fd <= other
                          /\ Cport' = [Cport EXCEPT ![p] = fd]
                          /\ fds' = [fds EXCEPT ![p] = @ \cup {fd}]

\* Mutant: Cport is assigned only when there is a descriptor.
NoFdKept(p) == UNCHANGED <<Cport, fds>>

\* ... or none, which is kept in Cport all the same.
NoFd(p) == Cport' = [Cport EXCEPT ![p] = -1] /\ UNCHANGED fds

\* The descriptor is closed; the lock goes with the one that took it.
CloseFd(p) ==
  /\ fds' = [fds EXCEPT ![p] = @ \ {Cport[p]}]
  /\ lock' = IF lock = <<p, Cport[p]>> THEN NoLock ELSE lock

-----------------------------------------------------------------------------
(* do_openCom() and do_closeCom() *)

DoOpenCom(p) ==
  /\ cport_status[p] = 0 /\ Legal(p)
  /\ At(p, "idle", IF build = "linux" THEN "open" ELSE "create")
  /\ UNCHANGED <<build, cport_status, Cport, old_port_settings, fds, lock, device>>

\* Mutant: the lock is freed first.
DoCloseComUnlocking(p) ==
  /\ cport_status[p] = 1
  /\ At(p, "idle", IF build = "linux" THEN "cmset" ELSE "handle")
  /\ lock' = NoLock
  /\ UNCHANGED <<build, cport_status, Cport, old_port_settings, fds, device>>

DoCloseCom(p) ==
  /\ cport_status[p] = 1
  /\ At(p, "idle", IF build = "linux" THEN "cmset" ELSE "handle")
  /\ UNCHANGED <<build, cport_status, Cport, old_port_settings, fds, lock, device>>

\* The process ends, which do_exit() does without closing the port: the system
\* closes its descriptors.  It is started again.
Restart(p) ==
  /\ pc' = [pc EXCEPT ![p] = "idle"]
  /\ cport_status' = [cport_status EXCEPT ![p] = 0]
  /\ Cport' = [Cport EXCEPT ![p] = 0]
  /\ old_port_settings' = [old_port_settings EXCEPT ![p] = Original]
  /\ fds' = [fds EXCEPT ![p] = {}]
  /\ lock' = IF lock # NoLock /\ lock[1] = p THEN NoLock ELSE lock
  /\ spoiled' = (spoiled \/ (lock # NoLock /\ lock[1] = p))
  /\ UNCHANGED <<build, settings, dtr_rts>>

Init ==
  /\ build \in Builds
  /\ pc = [p \in Program |-> "idle"]
  /\ cport_status = [p \in Program |-> 0]
  /\ Cport = [p \in Program |-> 0]
  /\ old_port_settings = [p \in Program |-> Original]   \* never used as such
  /\ fds = [p \in Program |-> {}]
  /\ lock = NoLock
  /\ settings = Original
  /\ dtr_rts = "off"
  /\ spoiled = FALSE
=============================================================================
