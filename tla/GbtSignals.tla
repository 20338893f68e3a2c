----------------------------- MODULE GbtSignals -----------------------------
(***************************************************************************)
(* The signals of the GBT link and their addresses: the switches come      *)
(* first, "0-35 = sSwitch, 36-65 sProbe" (main.c).                         *)
(***************************************************************************)
EXTENDS Integers

CONSTANTS
  MAX_SWITCHES,    \* number of switches, 36 in signals.h
  MAX_PROBES,      \* number of probes, 30 in signals.h
  GBT_DATA_WIDTH   \* number of addresses, 66 in signals.h

ASSUME SizesAssumption ==
  /\ MAX_SWITCHES \in Nat \ {0}
  /\ MAX_PROBES \in Nat \ {0}
  /\ GBT_DATA_WIDTH = MAX_SWITCHES + MAX_PROBES
  /\ GBT_DATA_WIDTH <= 128                \* addresses have seven bits

Adr == 0 .. GBT_DATA_WIDTH - 1
SwitchAdr == 0 .. MAX_SWITCHES - 1
ProbeIndex == 0 .. MAX_PROBES - 1

\* Mutant: the last signal is taken for an address out of range.
SignalAtWithoutLast(adr) ==
  IF adr >= GBT_DATA_WIDTH - 1 THEN <<"none", 0>>
  ELSE IF adr > MAX_SWITCHES - 1 THEN <<"probe", adr - MAX_SWITCHES>>
  ELSE <<"switch", adr>>

\* Mutant: the last switch is taken for the first probe.
SignalAtEarlyProbe(adr) ==
  IF adr >= GBT_DATA_WIDTH THEN <<"none", 0>>
  ELSE IF adr >= MAX_SWITCHES - 1 THEN <<"probe", adr - (MAX_SWITCHES - 1)>>
  ELSE <<"switch", adr>>

\* Where Receive stores what it received for an address: the index of a switch
\* or of a probe; nowhere beyond the last signal.
SignalAt(adr) ==
  IF adr >= GBT_DATA_WIDTH THEN <<"none", 0>>
  ELSE IF adr > MAX_SWITCHES - 1 THEN <<"probe", adr - MAX_SWITCHES>>
  ELSE <<"switch", adr>>

\* A name, as it is typed or stands in a signal file: <<"name", c, t, u>> has
\* the letter c and the characters t and u, less '0'.  Its number, as cmds.c
\* computes it in an unsigned char.
IndexOf(name) == (10 * name[3] + name[4]) % 256

\* Mutant: a probe's index is taken for its address.
ReadAddressFlat(name) == IndexOf(name)

\* A probe's address follows those of the 36 switches.
ReadAddress(name) ==
  IF name[2] = "P" THEN (IndexOf(name) + 36) % 256 ELSE IndexOf(name)
=============================================================================
