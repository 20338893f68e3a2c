----------------------------- MODULE RS232Windows ---------------------------
(***************************************************************************)
(* RS232_OpenComport() and RS232_CloseComport() under Windows, one step    *)
(* per system call.  A handle is a descriptor; the share mode 0 of         *)
(* CreateFileA makes it the lock as well.                                  *)
(***************************************************************************)
EXTENDS RS232Port

-----------------------------------------------------------------------------
(* RS232_OpenComport() *)

\* Mutant: the device is opened shared.
CreateFileShared(p) ==
  /\ \/ /\ At(p, "create", "dcb")
        /\ NewFd(p)
        /\ lock' = <<p, Cport'[p]>>
     \/ /\ Fails(p, "create", "idle")
        /\ NoFd(p)
        /\ UNCHANGED lock
  /\ UNCHANGED <<build, cport_status, old_port_settings, device>>

\* Refused while any program has the device open, this one included.
CreateFile(p) ==
  /\ \/ /\ \A q \in Program : fds[q] = {}
        /\ At(p, "create", "dcb")
        /\ NewFd(p)
        /\ lock' = <<p, Cport'[p]>>
     \/ /\ \/ \E q \in Program : fds[q] # {}
           \/ "create" \in Faults
        /\ At(p, "create", "idle")
        /\ NoFd(p)
        /\ UNCHANGED lock
  /\ UNCHANGED <<build, cport_status, old_port_settings, device>>

\* A call that goes on, or fails and closes the handle.
OrClose(p, here, next) ==
  \/ /\ At(p, here, next)
     /\ UNCHANGED <<fds, lock>>
  \/ /\ Fails(p, here, "idle")
     /\ CloseFd(p)

BuildCommDCB(p) ==
  /\ OrClose(p, "dcb", "state")
  /\ UNCHANGED <<build, cport_status, Cport, old_port_settings, device>>

\* The lines are part of the mode string: " dtr=on rts=on".
SetCommState(p) ==
  /\ OrClose(p, "state", "timeouts")
  /\ IF pc'[p] = "timeouts"
       THEN settings' = new_port_settings(p) /\ dtr_rts' = "on"
       ELSE UNCHANGED <<settings, dtr_rts>>
  /\ UNCHANGED <<build, cport_status, Cport, old_port_settings, spoiled>>

\* Mutant: the handle is kept when the time-outs cannot be set.
SetCommTimeoutsKeeping(p) ==
  /\ At(p, "timeouts", "idle")
  /\ \/ cport_status' = [cport_status EXCEPT ![p] = 1]
     \/ "timeouts" \in Faults /\ UNCHANGED cport_status
  /\ UNCHANGED <<build, Cport, old_port_settings, fds, lock, device>>

SetCommTimeouts(p) ==
  /\ \/ /\ At(p, "timeouts", "idle")
        /\ cport_status' = [cport_status EXCEPT ![p] = 1]
        /\ UNCHANGED <<fds, lock>>
     \/ /\ Fails(p, "timeouts", "idle")
        /\ CloseFd(p)
        /\ UNCHANGED cport_status
  /\ UNCHANGED <<build, Cport, old_port_settings, device>>

-----------------------------------------------------------------------------
(* RS232_CloseComport() *)

\* The settings are left as they are; the driver may drop the lines.
CloseHandle(p) ==
  /\ At(p, "handle", "idle")
  /\ CloseFd(p)
  /\ cport_status' = [cport_status EXCEPT ![p] = 0]
  /\ dtr_rts' \in {dtr_rts, "off"}
  /\ UNCHANGED <<build, Cport, old_port_settings, settings, spoiled>>

WindowsStep(p) ==
  \/ CreateFile(p) \/ BuildCommDCB(p) \/ SetCommState(p) \/ SetCommTimeouts(p)
  \/ CloseHandle(p)
=============================================================================
