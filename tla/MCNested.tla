------------------------------ MODULE MCNested ------------------------------
(***************************************************************************)
(* Small instances of GbtNested: two switches, wanted on and off, and two  *)
(* addresses of probes.                                                    *)
(***************************************************************************)
EXTENDS GbtNested

MCTable == [k \in 0 .. MAX_SWITCHES - 1 |-> (k + 1) % 2]
=============================================================================
