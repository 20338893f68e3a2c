------------------------------ MODULE MCProgram -----------------------------
(***************************************************************************)
(* A small instance of GbtProgram: the program and another one that wants  *)
(* other settings.                                                         *)
(***************************************************************************)
EXTENDS GbtProgram

CONSTANT other

MCBdrate == [p \in Program |-> IF p = me THEN 57600 ELSE 115200]
MCMode == [p \in Program |-> <<"8", "N", "1">>]
=============================================================================
