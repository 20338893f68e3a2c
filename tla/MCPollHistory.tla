--------------------------- MODULE MCPollHistory ---------------------------
(***************************************************************************)
(* Small instances of GbtPollHistory: two switches, wanted on and off, and *)
(* a probe; the first switch and the probe change by themselves.           *)
(***************************************************************************)
EXTENDS GbtPollHistory

MCTable == [k \in 0 .. MAX_SWITCHES - 1 |-> (k + 1) % 2]
MCVolatile == {0, GBT_DATA_WIDTH - 1}
MCGlitch == {GBT_DATA_WIDTH}   \* the smallest address out of range
=============================================================================
