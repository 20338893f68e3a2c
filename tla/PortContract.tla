----------------------------- MODULE PortContract ---------------------------
(***************************************************************************)
(* What the serial port promises, whatever the system: it belongs to one   *)
(* program at a time, which gets it free, opens it once or fails, and      *)
(* closes it before anybody gets it again.                                 *)
(***************************************************************************)
CONSTANT Program

VARIABLES
  owner,   \* {} or {p}: the program the port belongs to
  phase    \* "free", "opening", "open" or "closing"

port == <<owner, phase>>

\* p moves the port from one phase to another, and gives it up in "free".
Move(p, from, to) ==
  /\ phase = from /\ owner = {p}
  /\ phase' = to
  /\ owner' = IF to = "free" THEN {} ELSE owner

Acquire(p) ==
  /\ phase = "free"
  /\ phase' = "opening" /\ owner' = {p}

Open(p)    == Move(p, "opening", "open")
GiveUp(p)  == Move(p, "opening", "free")
Close(p)   == Move(p, "open", "closing")
Release(p) == Move(p, "closing", "free")

\* The owner's process ends.
Quit(p) == owner = {p} /\ phase' = "free" /\ owner' = {}

Init == owner = {} /\ phase = "free"

Next ==
  \E p \in Program :
    Acquire(p) \/ Open(p) \/ GiveUp(p) \/ Close(p) \/ Release(p) \/ Quit(p)

Safety == Init /\ [][Next]_port

\* A program that closes the port does release it.
Spec == Safety /\ \A p \in Program : WF_port(Release(p))
=============================================================================
