------------------------------ MODULE GbtSweep -----------------------------
(***************************************************************************)
(* What the polling engine promises, without wires, retries or contents:   *)
(* it goes round the addresses for ever, first reading every one of them   *)
(* in order, then writing every one of them in order, and it never leaves  *)
(* a read before some byte was received.                                   *)
(*                                                                         *)
(* Positions 0 .. Width-1 are the reads, Width .. 2*Width-1 the writes.    *)
(***************************************************************************)
EXTENDS Integers

CONSTANT Width      \* number of addresses, at least 1: GBT_DATA_WIDTH

VARIABLES
  last,     \* the position whose request was issued last
  waiting,  \* is that request a read that nothing has acknowledged?
  heard     \* are there bytes received and not yet taken?

vars == <<last, waiting, heard>>

Position == 0 .. 2 * Width - 1
IsRead(p) == p < Width
Succ(p) == IF p = 2 * Width - 1 THEN 0 ELSE p + 1

Init ==
  /\ last = 2 * Width - 1
  /\ waiting = FALSE
  /\ heard = FALSE

Issue ==
  /\ ~ waiting
  /\ last' = Succ(last)
  /\ waiting' = IsRead(last')
  /\ UNCHANGED heard

\* Something was received; bytes may be left over for the next read.
Acknowledge ==
  /\ waiting /\ heard
  /\ waiting' = FALSE
  /\ heard' \in BOOLEAN
  /\ UNCHANGED last

\* An answer, late or not, or noise.
Arrive ==
  /\ ~ heard
  /\ heard' = TRUE
  /\ UNCHANGED <<last, waiting>>

Next == Issue \/ Acknowledge \/ Arrive

Safety == Init /\ [][Next]_vars

\* No read stays unanswered for ever, and the engine always goes on.
Spec ==
  /\ Safety
  /\ WF_vars(Issue \/ Acknowledge)
  /\ WF_vars(waiting /\ Arrive)
=============================================================================
