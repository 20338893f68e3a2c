------------------------------ MODULE RS232Linux ----------------------------
(***************************************************************************)
(* RS232_OpenComport() and RS232_CloseComport() under Linux, one step per  *)
(* system call.                                                            *)
(***************************************************************************)
EXTENDS RS232Port

-----------------------------------------------------------------------------
(* RS232_OpenComport() *)

\* Mutant: the result of open() is not looked at.
OpenUnchecked(p) ==
  /\ \/ /\ At(p, "open", "flock")
        /\ NewFd(p)
     \/ /\ Fails(p, "open", "flock")
        /\ NoFd(p)
  /\ UNCHANGED <<build, cport_status, old_port_settings, lock, device>>

Open(p) ==
  /\ \/ /\ At(p, "open", "flock")
        /\ NewFd(p)
     \/ /\ Fails(p, "open", "idle")
        /\ NoFd(p)
  /\ UNCHANGED <<build, cport_status, old_port_settings, lock, device>>

\* Mutant: the result of flock() is not looked at.
FlockUnchecked(p) ==
  /\ At(p, "flock", "getattr")
  /\ lock' = IF lock = NoLock THEN <<p, Cport[p]>> ELSE lock
  /\ UNCHANGED <<build, cport_status, Cport, old_port_settings, fds, device>>

\* It fails when somebody has the lock, and may fail when nobody has.
Flock(p) ==
  /\ \/ /\ lock = NoLock
        /\ At(p, "flock", "getattr")
        /\ lock' = <<p, Cport[p]>>
        /\ UNCHANGED fds
     \/ /\ lock # NoLock
        /\ At(p, "flock", "idle")
        /\ CloseFd(p)
     \/ /\ Fails(p, "flock", "idle")
        /\ CloseFd(p)
  /\ UNCHANGED <<build, cport_status, Cport, old_port_settings, device>>

GetAttr(p) ==
  /\ \/ /\ At(p, "getattr", "setattr")
        /\ old_port_settings' = [old_port_settings EXCEPT ![p] = settings]
        /\ UNCHANGED <<fds, lock>>
     \/ /\ Fails(p, "getattr", "idle")
        /\ CloseFd(p)
        /\ UNCHANGED old_port_settings
  /\ UNCHANGED <<build, cport_status, Cport, device>>

SetAttr(p) ==
  /\ \/ /\ At(p, "setattr", "mget")
        /\ settings' = new_port_settings(p)
        /\ UNCHANGED <<fds, lock>>
     \/ /\ Fails(p, "setattr", "idle")
        /\ CloseFd(p)
        /\ UNCHANGED settings
  /\ UNCHANGED <<build, cport_status, Cport, old_port_settings, dtr_rts, spoiled>>

\* The port is not closed when the modem lines cannot be read ...
ModemGet(p) ==
  /\ At(p, "mget", "mset") \/ Fails(p, "mget", "idle")
  /\ UNCHANGED <<build, cport_status, Cport, old_port_settings, fds, lock, device>>

\* ... or set; otherwise the port is open.
ModemSet(p) ==
  /\ \/ /\ At(p, "mset", "idle")
        /\ dtr_rts' = "on"
        /\ cport_status' = [cport_status EXCEPT ![p] = 1]
     \/ /\ Fails(p, "mset", "idle")
        /\ UNCHANGED <<dtr_rts, cport_status>>
  /\ UNCHANGED <<build, Cport, old_port_settings, fds, lock, settings, spoiled>>

-----------------------------------------------------------------------------
(* RS232_CloseComport() *)

\* When TIOCMGET fails, the lines are set all the same.
CloseModem(p) ==
  /\ \/ /\ At(p, "cmset", "csetattr")
        /\ dtr_rts' = "off"
     \/ /\ Fails(p, "cmset", "csetattr")
        /\ UNCHANGED dtr_rts
  /\ UNCHANGED <<build, cport_status, Cport, old_port_settings, fds, lock, settings, spoiled>>

\* Mutant: the old settings are not restored.
CloseAttrMissing(p) ==
  /\ At(p, "csetattr", "close")
  /\ UNCHANGED <<build, cport_status, Cport, old_port_settings, fds, lock, device>>

CloseAttr(p) ==
  /\ \/ /\ At(p, "csetattr", "close")
        /\ settings' = old_port_settings[p]
        /\ UNCHANGED spoiled
     \/ /\ Fails(p, "csetattr", "close")
        /\ spoiled' = TRUE
        /\ UNCHANGED settings
  /\ UNCHANGED <<build, cport_status, Cport, old_port_settings, fds, lock, dtr_rts>>

Close(p) ==
  /\ At(p, "close", "cunlock")
  /\ CloseFd(p)
  /\ UNCHANGED <<build, cport_status, Cport, old_port_settings, device>>

\* LOCK_UN comes after close(), on a descriptor that is no longer open.
CloseUnlock(p) ==
  /\ At(p, "cunlock", "idle")
  /\ lock' = IF Cport[p] \in fds[p] /\ lock = <<p, Cport[p]>> THEN NoLock ELSE lock
  /\ cport_status' = [cport_status EXCEPT ![p] = 0]
  /\ UNCHANGED <<build, Cport, old_port_settings, fds, device>>

LinuxStep(p) ==
  \/ Open(p) \/ Flock(p) \/ GetAttr(p) \/ SetAttr(p) \/ ModemGet(p) \/ ModemSet(p)
  \/ CloseModem(p) \/ CloseAttr(p) \/ Close(p) \/ CloseUnlock(p)
=============================================================================
