------------------------------- MODULE MCPoll -------------------------------
(***************************************************************************)
(* A small instance of GbtPoll: two switches, wanted on and off, and a     *)
(* probe.                                                                  *)
(***************************************************************************)
EXTENDS GbtPoll

MCTable == [k \in 0 .. MAX_SWITCHES - 1 |-> (k + 1) % 2]
MCVolatile == {0, GBT_DATA_WIDTH - 1}     \* a switch and a probe
MCGlitch == {255}                         \* the largest byte
=============================================================================
