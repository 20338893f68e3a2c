-------------------------- MODULE RS232BuildsProofs -------------------------
(***************************************************************************)
(* Proofs about the serial port in both builds, for any number of programs *)
(* and descriptors, whatever settings they ask for and whichever calls     *)
(* fail.                                                                   *)
(***************************************************************************)
EXTENDS RS232Builds, FiniteSetTheorems, TLAPS

-----------------------------------------------------------------------------
(* The invariant *)

LinuxPlaces == {"idle", "flock", "close", "cunlock"} \cup LinuxCalls
WindowsPlaces == {"idle", "handle"} \cup WindowsCalls
OpenCalls == {"open", "flock", "getattr", "setattr", "mget", "mset"} \cup WindowsCalls
CloseCalls == {"cmset", "csetattr", "close", "cunlock", "handle"}

\* p takes the port for open, between two commands.
IsOpen(p) == pc[p] = "idle" /\ cport_status[p] = 1

\* p has the port: it has locked it and not closed it yet.
Has(p) ==
  \/ IsOpen(p)
  \/ pc[p] \in {"getattr", "setattr", "mget", "mset", "cmset", "csetattr", "close",
                "dcb", "state", "timeouts", "handle"}

\* What p calls next fits the build, what was typed, and cport_status.
PlaceInv(p) ==
  /\ pc[p] \in IF build = "linux" THEN LinuxPlaces ELSE WindowsPlaces
  /\ pc[p] \in OpenCalls => Legal(p) /\ cport_status[p] = 0
  /\ pc[p] \in CloseCalls => cport_status[p] = 1

\* The descriptors p has, and the lock.
LockInv(p) ==
  /\ Has(p) => fds[p] = {Cport[p]} /\ lock = <<p, Cport[p]>>
  /\ pc[p] = "flock" => Cport[p] \in fds[p] /\ lock # <<p, Cport[p]>>
  /\ pc[p] = "cunlock" => fds[p] = {}
  /\ \A fd \in fds[p] : lock = <<p, fd>> \/ (pc[p] = "flock" /\ fd = Cport[p])
  /\ \A fd : lock = <<p, fd>> => fd \in fds[p]
  /\ build = "windows" /\ ~ Has(p) => fds[p] = {}

\* The device while p has it; under Linux its settings stay p's also after an
\* open that left the descriptor behind.
DeviceInv(p) ==
  /\ IsOpen(p) \/ pc[p] \in {"mget", "mset", "timeouts"} => settings = new_port_settings(p)
  /\ IsOpen(p) \/ pc[p] = "timeouts" => dtr_rts = "on"
  /\ build = "linux" /\ lock = <<p, Cport[p]>> /\ pc[p] \notin {"getattr", "setattr", "close"}
       => settings = new_port_settings(p)

\* What p has to give back.
SavedInv(p) ==
  build = "linux" /\ ~ spoiled =>
    /\ pc[p] \in {"getattr", "setattr", "close"} => settings = Original
    /\ IsOpen(p) \/ pc[p] \in {"setattr", "mget", "mset", "cmset", "csetattr"}
         => old_port_settings[p] = Original

PInv(p) == PlaceInv(p) /\ LockInv(p) /\ DeviceInv(p) /\ SavedInv(p)

PortInv == TypeOK /\ (\A p \in Program : PInv(p)) /\ SettingsGivenBack

LEMMA Pairs ==
  \A a, b, c, d : <<a, b>> # << >> /\ (<<a, b>> = <<c, d>> <=> a = c /\ b = d)
OBVIOUS

-----------------------------------------------------------------------------
(* The other programs *)

\* What a step of p may do to what the other programs rely on.
Apart(p) ==
  /\ build' = build
  /\ \A q \in Program \ {p} :
       /\ pc'[q] = pc[q] /\ cport_status'[q] = cport_status[q] /\ Cport'[q] = Cport[q]
       /\ old_port_settings'[q] = old_port_settings[q] /\ fds'[q] = fds[q]
       /\ \A fd : lock' = <<q, fd>> <=> lock = <<q, fd>>
  /\ settings' # settings \/ dtr_rts' # dtr_rts => \E fd : lock = <<p, fd>>
  /\ spoiled => spoiled'

LEMMA OthersKeep ==
  ASSUME NEW p \in Program, NEW q \in Program \ {p}, PInv(q), Apart(p)
  PROVE  PInv(q)'
<1>1. /\ pc'[q] = pc[q] /\ cport_status'[q] = cport_status[q] /\ Cport'[q] = Cport[q]
      /\ old_port_settings'[q] = old_port_settings[q] /\ fds'[q] = fds[q] /\ build' = build
      /\ \A fd : lock' = <<q, fd>> <=> lock = <<q, fd>>
  BY DEF Apart
<1>2. (Has(q)' <=> Has(q)) /\ (IsOpen(q)' <=> IsOpen(q)) /\ (Legal(q)' <=> Legal(q))
  BY <1>1 DEF Has, IsOpen, Legal, Numbers
<1>3. PlaceInv(q)'
  BY <1>1, <1>2 DEF PInv, PlaceInv
<1>4. LockInv(q)'
  BY <1>1, <1>2 DEF PInv, LockInv
<1>5. Has(q) \/ lock = <<q, Cport[q]>> => settings' = settings /\ dtr_rts' = dtr_rts
  <2>1. Has(q) => lock = <<q, Cport[q]>>
    BY DEF PInv, LockInv
  <2> QED BY <2>1, Pairs DEF Apart
<1>6. DeviceInv(q)'
  <2>1. IsOpen(q) \/ pc[q] \in {"mget", "mset", "timeouts"} => Has(q)
    BY DEF Has
  <2>2. new_port_settings(q)' = new_port_settings(q)
    BY DEF new_port_settings
  <2> QED BY <1>1, <1>2, <1>5, <2>1, <2>2 DEF PInv, DeviceInv
<1>7. SavedInv(q)'
  <2>1. pc[q] \in {"getattr", "setattr", "close"} => Has(q)
    BY DEF Has
  <2>2. spoiled => spoiled'
    BY DEF Apart
  <2> QED BY <1>1, <1>2, <1>5, <2>1, <2>2 DEF PInv, SavedInv
<1> QED BY <1>3, <1>4, <1>6, <1>7 DEF PInv

-----------------------------------------------------------------------------
(* The steps *)

\* What a step of p does to p's own variables, to the lock and to the device.
Moves(p, here, next) == pc[p] = here /\ pc'[p] = next
Opens(p) == Cport'[p] \in Fd /\ fds'[p] = fds[p] \cup {Cport'[p]} /\ Cport'[p] \notin fds[p]
OpensNot(p) == Cport'[p] = -1 /\ fds'[p] = fds[p]
Drops(p) ==
  /\ Cport'[p] = Cport[p] /\ fds'[p] = fds[p] \ {Cport[p]}
  /\ lock' = IF lock = <<p, Cport[p]>> THEN NoLock ELSE lock
KeepsPort(p) == Cport'[p] = Cport[p] /\ fds'[p] = fds[p] /\ lock' = lock
KeepsMemory(p) ==
  cport_status'[p] = cport_status[p] /\ old_port_settings'[p] = old_port_settings[p]
KeepsDevice == settings' = settings /\ dtr_rts' = dtr_rts /\ spoiled' = spoiled

\* It leaves the other programs' variables alone.
OwnOnly(p) ==
  /\ pc' = [pc EXCEPT ![p] = pc'[p]]
  /\ cport_status' = [cport_status EXCEPT ![p] = cport_status'[p]]
  /\ Cport' = [Cport EXCEPT ![p] = Cport'[p]]
  /\ old_port_settings' = [old_port_settings EXCEPT ![p] = old_port_settings'[p]]
  /\ fds' = [fds EXCEPT ![p] = fds'[p]]

LEMMA StepIsOwn ==
  ASSUME TypeOK, NEW p \in Program, DoOpenCom(p) \/ DoCloseCom(p) \/ Step(p) \/ Restart(p)
  PROVE  OwnOnly(p) /\ build' = build
<1> USE DEF TypeOK, OwnOnly, At, Fails, NewFd, NoFd, CloseFd, OrClose
<1>1. CASE DoOpenCom(p)
  BY <1>1 DEF DoOpenCom
<1>2. CASE DoCloseCom(p)
  BY <1>2 DEF DoCloseCom
<1>3. CASE Open(p)
  BY <1>3 DEF Open
<1>4. CASE Flock(p)
  BY <1>4 DEF Flock
<1>5. CASE GetAttr(p)
  BY <1>5 DEF GetAttr
<1>6. CASE SetAttr(p)
  BY <1>6 DEF SetAttr
<1>7. CASE ModemGet(p)
  BY <1>7 DEF ModemGet
<1>8. CASE ModemSet(p)
  BY <1>8 DEF ModemSet
<1>9. CASE CloseModem(p)
  BY <1>9 DEF CloseModem
<1>10. CASE CloseAttr(p)
  BY <1>10 DEF CloseAttr
<1>11. CASE Close(p)
  BY <1>11 DEF Close
<1>12. CASE CloseUnlock(p)
  BY <1>12 DEF CloseUnlock
<1>13. CASE CreateFile(p)
  BY <1>13 DEF CreateFile
<1>14. CASE BuildCommDCB(p)
  BY <1>14 DEF BuildCommDCB
<1>15. CASE SetCommState(p)
  BY <1>15 DEF SetCommState
<1>16. CASE SetCommTimeouts(p)
  BY <1>16 DEF SetCommTimeouts
<1>17. CASE CloseHandle(p)
  BY <1>17 DEF CloseHandle
<1>18. CASE Restart(p)
  BY <1>18 DEF Restart
<1> QED BY <1>1, <1>2, <1>3, <1>4, <1>5, <1>6, <1>7, <1>8, <1>9, <1>10,
          <1>11, <1>12, <1>13, <1>14, <1>15, <1>16, <1>17, <1>18
       DEF Step, LinuxStep, WindowsStep

\* Which parameters are accepted, and the settings they mean, do not change.
LEMMA SameBuild ==
  ASSUME build' = build
  PROVE  /\ \A p : (Legal(p)' <=> Legal(p)) /\ new_port_settings(p)' = new_port_settings(p)
         /\ Settings' = Settings
BY DEF Legal, Numbers, new_port_settings, Settings

\* The lock goes from nobody to p, from p to nobody, or stays.
LockOwn(p) ==
  lock' # lock => \A l \in {lock, lock'} : l = NoLock \/ \E fd : l = <<p, fd>>

LEMMA StepIsApart ==
  ASSUME TypeOK, NEW p \in Program, OwnOnly(p), build' = build, LockInv(p), LockOwn(p),
         settings' # settings \/ dtr_rts' # dtr_rts => Has(p), spoiled => spoiled'
  PROVE  Apart(p)
<1>1. ASSUME NEW q \in Program \ {p}, NEW fd PROVE lock' = <<q, fd>> <=> lock = <<q, fd>>
  <2>1. <<q, fd>> # NoLock /\ \A c : <<q, fd>> # <<p, c>>
    BY Pairs DEF NoLock
  <2> QED BY <2>1 DEF LockOwn
<1>2. settings' # settings \/ dtr_rts' # dtr_rts => \E fd : lock = <<p, fd>>
  BY DEF LockInv
<1> QED BY <1>1, <1>2 DEF TypeOK, OwnOnly, Apart

\* Nobody has the lock when nobody has a descriptor.
LEMMA NobodyLocks ==
  PortInv /\ (\A q \in Program : fds[q] = {}) => lock = NoLock
BY DEF PortInv, PInv, LockInv, TypeOK

\* The types of p's variables and of the device.
Types(p) ==
  /\ cport_status[p] \in {0, 1}
  /\ Cport[p] \in {-1, 0} \cup Fd
  /\ old_port_settings[p] \in Settings
  /\ fds[p] \in SUBSET Fd
  /\ lock \in {NoLock} \cup (Program \X Fd)
  /\ settings \in Settings /\ dtr_rts \in {"on", "off"} /\ spoiled \in BOOLEAN

LEMMA TypesKeep ==
  ASSUME TypeOK, NEW p \in Program, OwnOnly(p), build' = build, PlaceInv(p)', Types(p)'
  PROVE  TypeOK'
<1>1. Settings' = Settings
  BY SameBuild
<1>2. pc'[p] \in {"idle", "close", "cunlock", "handle"} \cup LinuxCalls \cup WindowsCalls
  BY DEF PlaceInv, LinuxPlaces, WindowsPlaces, LinuxCalls
<1> QED BY <1>1, <1>2 DEF TypeOK, OwnOnly, Types

\* How p's phase of the contract changes while the lock stays with p, and the
\* one it has when it gets the lock.
PhaseOwn(p) ==
  /\ lock = NoLock /\ lock' # NoLock => cport_status'[p] = 0
  /\ (\E fd : lock = <<p, fd>>) /\ lock' # NoLock =>
       \/ cport_status[p] = 0 /\ cport_status'[p] = 0
       \/ cport_status[p] = 0 /\ cport_status'[p] = 1 /\ pc'[p] = "idle"
       \/ cport_status[p] = 1 /\ cport_status'[p] = 1 /\ pc'[p] # "idle"

\* The effect of p's steps, action by action.
Effect(p) ==
  \/ /\ cport_status[p] = 0 /\ Legal(p)
     /\ Moves(p, "idle", IF build = "linux" THEN "open" ELSE "create")
     /\ KeepsPort(p) /\ KeepsMemory(p) /\ KeepsDevice
  \/ /\ cport_status[p] = 1
     /\ Moves(p, "idle", IF build = "linux" THEN "cmset" ELSE "handle")
     /\ KeepsPort(p) /\ KeepsMemory(p) /\ KeepsDevice
  \/ /\ \/ Moves(p, "open", "flock") /\ Opens(p)
        \/ Moves(p, "open", "idle") /\ OpensNot(p)
     /\ lock' = lock /\ KeepsMemory(p) /\ KeepsDevice
  \/ /\ \/ /\ lock = NoLock /\ Moves(p, "flock", "getattr")
           /\ Cport'[p] = Cport[p] /\ fds'[p] = fds[p] /\ lock' = <<p, Cport[p]>>
        \/ Moves(p, "flock", "idle") /\ Drops(p)
     /\ KeepsMemory(p) /\ KeepsDevice
  \/ /\ \/ /\ Moves(p, "getattr", "setattr") /\ KeepsPort(p)
           /\ old_port_settings'[p] = settings /\ cport_status'[p] = cport_status[p]
        \/ Moves(p, "getattr", "idle") /\ Drops(p) /\ KeepsMemory(p)
     /\ KeepsDevice
  \/ /\ \/ /\ Moves(p, "setattr", "mget") /\ KeepsPort(p)
           /\ settings' = new_port_settings(p) /\ dtr_rts' = dtr_rts /\ spoiled' = spoiled
        \/ Moves(p, "setattr", "idle") /\ Drops(p) /\ KeepsDevice
     /\ KeepsMemory(p)
  \/ /\ Moves(p, "mget", "mset") \/ Moves(p, "mget", "idle")
     /\ KeepsPort(p) /\ KeepsMemory(p) /\ KeepsDevice
  \/ /\ Moves(p, "mset", "idle") /\ KeepsPort(p)
     /\ \/ dtr_rts' = "on" /\ cport_status'[p] = 1
        \/ dtr_rts' = dtr_rts /\ cport_status'[p] = cport_status[p]
     /\ old_port_settings'[p] = old_port_settings[p]
     /\ settings' = settings /\ spoiled' = spoiled
  \/ /\ Moves(p, "cmset", "csetattr") /\ KeepsPort(p) /\ KeepsMemory(p)
     /\ dtr_rts' \in {dtr_rts, "off"} /\ settings' = settings /\ spoiled' = spoiled
  \/ /\ Moves(p, "csetattr", "close") /\ KeepsPort(p) /\ KeepsMemory(p)
     /\ \/ settings' = old_port_settings[p] /\ spoiled' = spoiled
        \/ settings' = settings /\ spoiled' = TRUE
     /\ dtr_rts' = dtr_rts
  \/ /\ Moves(p, "close", "cunlock") /\ Drops(p) /\ KeepsMemory(p) /\ KeepsDevice
  \/ /\ Moves(p, "cunlock", "idle")
     /\ Cport'[p] = Cport[p] /\ fds'[p] = fds[p]
     /\ lock' = IF Cport[p] \in fds[p] /\ lock = <<p, Cport[p]>> THEN NoLock ELSE lock
     /\ cport_status'[p] = 0 /\ old_port_settings'[p] = old_port_settings[p]
     /\ KeepsDevice
  \/ /\ \/ /\ \A q \in Program : fds[q] = {}
           /\ Moves(p, "create", "dcb") /\ Opens(p) /\ lock' = <<p, Cport'[p]>>
        \/ Moves(p, "create", "idle") /\ OpensNot(p) /\ lock' = lock
     /\ KeepsMemory(p) /\ KeepsDevice
  \/ /\ \/ Moves(p, "dcb", "state") /\ KeepsPort(p)
        \/ Moves(p, "dcb", "idle") /\ Drops(p)
     /\ KeepsMemory(p) /\ KeepsDevice
  \/ /\ \/ /\ Moves(p, "state", "timeouts") /\ KeepsPort(p)
           /\ settings' = new_port_settings(p) /\ dtr_rts' = "on"
        \/ /\ Moves(p, "state", "idle") /\ Drops(p)
           /\ settings' = settings /\ dtr_rts' = dtr_rts
     /\ KeepsMemory(p) /\ spoiled' = spoiled
  \/ /\ Moves(p, "timeouts", "idle")
     /\ \/ KeepsPort(p) /\ cport_status'[p] = 1
        \/ Drops(p) /\ cport_status'[p] = cport_status[p]
     /\ old_port_settings'[p] = old_port_settings[p] /\ KeepsDevice
  \/ /\ Moves(p, "handle", "idle") /\ Drops(p)
     /\ cport_status'[p] = 0 /\ old_port_settings'[p] = old_port_settings[p]
     /\ dtr_rts' \in {dtr_rts, "off"} /\ settings' = settings /\ spoiled' = spoiled
  \/ /\ pc'[p] = "idle" /\ Cport'[p] = 0 /\ fds'[p] = {}
     /\ lock' = IF lock # NoLock /\ lock[1] = p THEN NoLock ELSE lock
     /\ cport_status'[p] = 0 /\ old_port_settings'[p] = Original
     /\ settings' = settings /\ dtr_rts' = dtr_rts
     /\ spoiled' = (spoiled \/ (lock # NoLock /\ lock[1] = p))

LEMMA StepHasEffect ==
  ASSUME TypeOK, NEW p \in Program, DoOpenCom(p) \/ DoCloseCom(p) \/ Step(p) \/ Restart(p)
  PROVE  Effect(p)
<1> USE DEF TypeOK, Moves, Opens, OpensNot, Drops, KeepsPort, KeepsMemory, KeepsDevice,
            At, Fails, NewFd, NoFd, CloseFd, OrClose, device
<1>1. CASE DoOpenCom(p)
  BY <1>1 DEF DoOpenCom, Effect
<1>2. CASE DoCloseCom(p)
  BY <1>2 DEF DoCloseCom, Effect
<1>3. CASE Open(p)
  BY <1>3 DEF Open, Effect
<1>4. CASE Flock(p)
  BY <1>4 DEF Flock, Effect
<1>5. CASE GetAttr(p)
  BY <1>5 DEF GetAttr, Effect
<1>6. CASE SetAttr(p)
  BY <1>6 DEF SetAttr, Effect
<1>7. CASE ModemGet(p)
  BY <1>7 DEF ModemGet, Effect
<1>8. CASE ModemSet(p)
  BY <1>8 DEF ModemSet, Effect
<1>9. CASE CloseModem(p)
  BY <1>9 DEF CloseModem, Effect
<1>10. CASE CloseAttr(p)
  BY <1>10 DEF CloseAttr, Effect
<1>11. CASE Close(p)
  BY <1>11 DEF Close, Effect
<1>12. CASE CloseUnlock(p)
  BY <1>12 DEF CloseUnlock, Effect
<1>13. CASE CreateFile(p)
  BY <1>13 DEF CreateFile, Effect
<1>14. CASE BuildCommDCB(p)
  BY <1>14 DEF BuildCommDCB, Effect
<1>15. CASE SetCommState(p)
  BY <1>15 DEF SetCommState, Effect
<1>16. CASE SetCommTimeouts(p)
  BY <1>16 DEF SetCommTimeouts, Effect
<1>17. CASE CloseHandle(p)
  BY <1>17 DEF CloseHandle, Effect
<1>18. CASE Restart(p)
  BY <1>18 DEF Restart, Effect
<1> QED BY <1>1, <1>2, <1>3, <1>4, <1>5, <1>6, <1>7, <1>8, <1>9, <1>10,
          <1>11, <1>12, <1>13, <1>14, <1>15, <1>16, <1>17, <1>18
       DEF Step, LinuxStep, WindowsStep

LEMMA StepKeeps ==
  ASSUME PortInv, NEW p \in Program, DoOpenCom(p) \/ DoCloseCom(p) \/ Step(p) \/ Restart(p)
  PROVE  /\ PInv(p)' /\ SettingsGivenBack'
         /\ Apart(p) /\ TypeOK' /\ PhaseOwn(p)
<1> USE DEF LinuxPlaces, WindowsPlaces, LinuxCalls, WindowsCalls, OpenCalls, CloseCalls,
            Moves, Opens, OpensNot, Drops, KeepsPort, KeepsMemory, KeepsDevice
<1>1. /\ TypeOK /\ SettingsGivenBack
      /\ PlaceInv(p) /\ LockInv(p) /\ DeviceInv(p) /\ SavedInv(p)
  BY DEF PortInv, PInv
<1>2. OwnOnly(p) /\ build' = build
  BY <1>1, StepIsOwn
<1>3. /\ Legal(p)' <=> Legal(p)
      /\ new_port_settings(p)' = new_port_settings(p) /\ Settings' = Settings
  BY <1>2, SameBuild
<1>4. /\ (\A q \in Program : fds[q] = {}) => lock = NoLock
      /\ lock = NoLock \/ \E q \in Program, fd \in Fd : lock = <<q, fd>> /\ lock[1] = q
      /\ \A a, b, c : <<a, b>> # NoLock /\ (<<a, b>> = <<a, c>> <=> b = c)
  BY <1>1, NobodyLocks, Pairs DEF TypeOK, NoLock
<1>5. Effect(p)
  BY <1>1, StepHasEffect
<1>6. PlaceInv(p)'
  BY <1>1, <1>2, <1>3, <1>5 DEF Effect, PlaceInv
<1>7. LockInv(p)'
  BY <1>1, <1>2, <1>4, <1>5 DEF Effect, PlaceInv, LockInv, Has, IsOpen
<1>8. SavedInv(p)' /\ SettingsGivenBack'
  <2>1. SavedInv(p)'
    BY <1>1, <1>2, <1>5 DEF Effect, PlaceInv, IsOpen, SavedInv, SettingsGivenBack
  <2>2. /\ lock = NoLock => ~ Has(p)
        /\ pc[p] = "flock" => lock # <<p, Cport[p]>>
        /\ pc[p] = "cunlock" => Cport[p] \notin fds[p]
    BY <1>1, <1>4 DEF LockInv
  <2>3. SettingsGivenBack'
    BY <1>1, <1>2, <1>4, <1>5, <2>2 DEF Effect, PlaceInv, Has, SavedInv, SettingsGivenBack
  <2> QED BY <2>1, <2>3
<1>9. DeviceInv(p)'
  <2>1. /\ IsOpen(p)' \/ pc'[p] \in {"mget", "mset", "timeouts"} => settings' = new_port_settings(p)
        /\ IsOpen(p)' \/ pc'[p] = "timeouts" => dtr_rts' = "on"
    BY <1>1, <1>2, <1>5 DEF Effect, PlaceInv, DeviceInv, IsOpen
  <2>2. ASSUME build = "linux", lock' = <<p, Cport'[p]>>, pc'[p] \notin {"getattr", "setattr", "close"}
        PROVE  settings' = new_port_settings(p)
    <3>1. \A fd : lock = <<p, fd>> => fd \in fds[p] /\ fd \in Fd /\ fd # -1
      BY <1>1 DEF LockInv, TypeOK, Fd
    <3>2. pc[p] = "cunlock" => \A fd : lock # <<p, fd>>
      BY <1>1 DEF LockInv
    <3> QED BY <1>1, <1>4, <1>5, <2>2, <3>1, <3>2 DEF Effect, PlaceInv, DeviceInv, LockInv, Has, IsOpen
  <2> QED BY <1>2, <1>3, <2>1, <2>2 DEF DeviceInv
<1>10. Apart(p)
  <2>1. LockOwn(p)
    BY <1>1, <1>4, <1>5 DEF Effect, LockOwn
  <2>2. settings' # settings \/ dtr_rts' # dtr_rts => Has(p)
    BY <1>5 DEF Effect, Has
  <2>3. spoiled => spoiled'
    BY <1>5 DEF Effect
  <2> QED BY <1>1, <1>2, <2>1, <2>2, <2>3, StepIsApart
<1>11. TypeOK'
  <2>1. Original \in Settings /\ (pc[p] \in {"setattr", "state"} => new_port_settings(p) \in Settings)
    BY <1>1 DEF PlaceInv, Settings
  <2>2. pc[p] = "flock" => Cport[p] \in Fd
    BY <1>1 DEF TypeOK, LockInv
  <2>3. lock' \in {NoLock} \cup (Program \X Fd)
    BY <1>1, <1>5, <2>2 DEF Effect, TypeOK
  <2>4. Cport'[p] \in {-1, 0} \cup Fd /\ fds'[p] \in SUBSET Fd /\ cport_status'[p] \in {0, 1}
    BY <1>1, <1>5 DEF Effect, TypeOK
  <2>5. /\ old_port_settings'[p] \in Settings /\ settings' \in Settings
        /\ dtr_rts' \in {"on", "off"} /\ spoiled' \in BOOLEAN
    BY <1>1, <1>5, <2>1 DEF Effect, TypeOK
  <2>6. Types(p)'
    BY <1>3, <2>3, <2>4, <2>5 DEF Types
  <2> QED BY <1>1, <1>2, <1>6, <2>6, TypesKeep
<1>12. PhaseOwn(p)
  BY <1>1, <1>4, <1>5 DEF Effect, PlaceInv, LockInv, PhaseOwn, Has
<1> QED BY <1>6, <1>7, <1>8, <1>9, <1>10, <1>11, <1>12 DEF PInv

-----------------------------------------------------------------------------
(* The properties *)

LEMMA PortInvInit == Init => PortInv
<1> SUFFICES ASSUME Init PROVE PortInv
  OBVIOUS
<1>1. TypeOK
  BY ProgramAssumption DEF Init, TypeOK, Settings
<1>2. ASSUME NEW p \in Program PROVE PInv(p)
  BY <1>1, Pairs DEF TypeOK, Init, PInv, PlaceInv, LockInv, DeviceInv, SavedInv, Has, IsOpen,
     LinuxPlaces, WindowsPlaces, OpenCalls, CloseCalls, LinuxCalls, WindowsCalls, NoLock
<1>3. SettingsGivenBack
  BY DEF Init, SettingsGivenBack
<1> QED BY <1>1, <1>2, <1>3 DEF PortInv

LEMMA PortInvNext == PortInv /\ [Next]_vars => PortInv'
<1> SUFFICES ASSUME PortInv, [Next]_vars PROVE PortInv'
  OBVIOUS
<1>1. CASE UNCHANGED vars
  <2>1. /\ Settings' = Settings
        /\ \A p : (Legal(p)' <=> Legal(p)) /\ new_port_settings(p)' = new_port_settings(p)
    BY <1>1, SameBuild DEF vars
  <2>2. TypeOK' /\ SettingsGivenBack'
    BY <1>1, <2>1 DEF PortInv, vars, device, TypeOK, SettingsGivenBack
  <2>3. ASSUME NEW p \in Program PROVE PInv(p)'
    BY <1>1, <2>1 DEF PortInv, vars, device, PInv, PlaceInv, LockInv, DeviceInv, SavedInv, Has, IsOpen
  <2> QED BY <2>2, <2>3 DEF PortInv
<1>2. CASE Next
  <2>1. PICK p \in Program : DoOpenCom(p) \/ DoCloseCom(p) \/ Step(p) \/ Restart(p)
    BY <1>2 DEF Next
  <2>2. PInv(p)' /\ SettingsGivenBack' /\ Apart(p) /\ TypeOK'
    BY <2>1, StepKeeps
  <2>3. ASSUME NEW q \in Program \ {p} PROVE PInv(q)'
    BY <2>2, OthersKeep DEF PortInv
  <2> QED BY <2>2, <2>3 DEF PortInv
<1> QED BY <1>1, <1>2

\* Every variable keeps its type, in both builds.
THEOREM PortIsTyped == Spec => []TypeOK
<1>1. PortInv => TypeOK
  BY DEF PortInv
<1> QED BY PortInvInit, PortInvNext, <1>1, PTL DEF Spec

\* A program that takes the port for open has its descriptor, the lock and the
\* settings it asked for, whatever the other programs do and whatever fails.
THEOREM OpenPortIsUsable == Spec => []UsableWhenOpen
<1>1. PortInv => UsableWhenOpen
  BY DEF PortInv, PInv, LockInv, DeviceInv, Has, IsOpen, UsableWhenOpen
<1> QED BY PortInvInit, PortInvNext, <1>1, PTL DEF Spec

\* Between two commands a program has at most one descriptor on the device, and
\* that one has the lock.
THEOREM NoDescriptorIsLost == Spec => []DescriptorsAccounted
<1>1. PortInv => DescriptorsAccounted
  <2> SUFFICES ASSUME PortInv, NEW p \in Program, pc[p] = "idle"
               PROVE  /\ Cardinality(fds[p]) <= 1
                      /\ \A fd \in fds[p] : lock = <<p, fd>>
                      /\ build = "windows" /\ cport_status[p] = 0 => fds[p] = {}
    BY DEF DescriptorsAccounted
  <2>1. \A fd \in fds[p] : lock = <<p, fd>>
    BY DEF PortInv, PInv, LockInv
  <2>2. build = "windows" /\ cport_status[p] = 0 => fds[p] = {}
    BY DEF PortInv, PInv, LockInv, Has, IsOpen
  <2>3. CASE fds[p] = {}
    BY <2>1, <2>2, <2>3, FS_EmptySet
  <2>4. CASE fds[p] # {}
    <3>1. PICK fd \in fds[p] : TRUE
      BY <2>4
    <3>2. fds[p] = {fd}
      BY <2>1, <3>1, Pairs
    <3>3. Cardinality(fds[p]) = 1
      BY <3>2, FS_Singleton
    <3> QED BY <2>1, <2>2, <3>3
  <2> QED BY <2>3, <2>4
<1> QED BY PortInvInit, PortInvNext, <1>1, PTL DEF Spec

\* Under Linux the device has its own settings whenever nobody has the lock,
\* unless a program left with the port open or could not restore them.
THEOREM DeviceIsGivenBack == Spec => []SettingsGivenBack
<1>1. PortInv => SettingsGivenBack
  BY DEF PortInv
<1> QED BY PortInvInit, PortInvNext, <1>1, PTL DEF Spec

LEMMA StepIsContract ==
  ASSUME PortInv, PortInv', NEW p \in Program, Apart(p), PhaseOwn(p), OwnOnly(p)
  PROVE  Contract!Next \/ UNCHANGED Contract!port
<1> USE DEF Contract!Next, Contract!port, Contract!Acquire, Contract!Open, Contract!Close,
            Contract!Quit, Contract!Move, Owner, Phase
<1>1. /\ lock = NoLock \/ \E q \in Program, fd \in Fd : lock = <<q, fd>>
      /\ lock' = NoLock \/ \E q \in Program, fd \in Fd : lock' = <<q, fd>>
      /\ \A q, fd : <<q, fd>> # NoLock /\ <<q, fd>>[1] = q
  BY Pairs DEF PortInv, TypeOK, NoLock
<1>2. CASE lock = NoLock /\ lock' = NoLock
  BY <1>2
<1>3. ASSUME NEW q \in Program \ {p}, NEW fd, lock = <<q, fd>> \/ lock' = <<q, fd>>
      PROVE  UNCHANGED Contract!port
  <2>1. lock = <<q, fd>> /\ lock' = <<q, fd>> /\ pc'[q] = pc[q] /\ cport_status'[q] = cport_status[q]
    BY <1>3 DEF Apart
  <2> QED BY <1>1, <2>1
<1>4. CASE lock = NoLock /\ \E fd : lock' = <<p, fd>>
  BY <1>1, <1>4 DEF PhaseOwn
<1>5. CASE lock' = NoLock /\ \E fd : lock = <<p, fd>>
  BY <1>1, <1>5
<1>6. CASE (\E fd : lock = <<p, fd>>) /\ (\E fd : lock' = <<p, fd>>)
  <2>1. /\ lock # NoLock /\ lock' # NoLock /\ lock[1] = p /\ lock'[1] = p
        /\ Owner = {p} /\ Owner' = {p}
    BY <1>1, <1>6
  <2>2. CASE cport_status[p] = 0 /\ cport_status'[p] = 0
    BY <2>1, <2>2
  <2>3. CASE cport_status[p] = 0 /\ cport_status'[p] = 1 /\ pc'[p] = "idle"
    <3>1. Contract!Open(p)
      BY <2>1, <2>3
    <3> QED BY <3>1
  <2>4. CASE cport_status[p] = 1 /\ cport_status'[p] = 1 /\ pc'[p] # "idle"
    <3>1. CASE pc[p] = "idle"
      <4>1. Contract!Close(p)
        BY <2>1, <2>4, <3>1
      <4> QED BY <4>1
    <3>2. CASE pc[p] # "idle"
      <4>1. Phase = "closing"
        BY <2>1, <2>4, <3>2
      <4>2. Phase' = "closing"
        BY <2>1, <2>4
      <4> QED BY <2>1, <4>1, <4>2
    <3> QED BY <3>1, <3>2
  <2> QED BY <1>6, <2>2, <2>3, <2>4 DEF PhaseOwn
<1> QED BY <1>1, <1>2, <1>3, <1>4, <1>5, <1>6

\* Both builds keep the contract of a port: one owner at a time, which gets the
\* port free and goes through its phases in order.  (That a port being closed is
\* released in the end is checked, not proved.)
THEOREM BuildsKeepContract == Spec => Contract!Safety
<1>1. Init => Contract!Init
  BY DEF Init, Contract!Init, Owner, Phase
<1>2. PortInv /\ PortInv' /\ [Next]_vars => [Contract!Next]_(Contract!port)
  <2> SUFFICES ASSUME PortInv, PortInv', [Next]_vars
               PROVE  Contract!Next \/ UNCHANGED Contract!port
    OBVIOUS
  <2>1. CASE UNCHANGED vars
    BY <2>1 DEF vars, Contract!port, Owner, Phase
  <2>2. CASE Next
    <3>1. PICK p \in Program : DoOpenCom(p) \/ DoCloseCom(p) \/ Step(p) \/ Restart(p)
      BY <2>2 DEF Next
    <3>2. Apart(p) /\ PhaseOwn(p) /\ OwnOnly(p)
      BY <3>1, StepKeeps, StepIsOwn DEF PortInv
    <3> QED BY <3>2, StepIsContract
  <2> QED BY <2>1, <2>2
<1> QED BY PortInvInit, PortInvNext, <1>1, <1>2, PTL DEF Spec, Contract!Safety
=============================================================================
