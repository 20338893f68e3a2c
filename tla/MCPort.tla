------------------------------- MODULE MCPort -------------------------------
(***************************************************************************)
(* RS232Builds with programs that ask for different settings, the first   *)
(* for those of main.c, the third for a baud rate that only Windows has.   *)
(***************************************************************************)
EXTENDS RS232Builds

CONSTANTS p1, p2, p3

MCBdrate == [p \in Program |-> CASE p = p1 -> 57600 [] p = p2 -> 115200 [] p = p3 -> 128000]
MCMode == [p \in Program |-> IF p = p2 THEN <<"7", "e", "2">> ELSE <<"8", "N", "1">>]
=============================================================================
