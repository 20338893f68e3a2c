------------------------------- MODULE MainLoop -----------------------------
(***************************************************************************)
(* main() of main.c: it reads the signal files and then serves the         *)
(* keyboard for ever.                                                      *)
(***************************************************************************)
EXTENDS SignalTable, LineEditor

mainVars == <<signals, lineVars>>

MainInit == TableInit /\ LineInit

Startup == TableNext /\ UNCHANGED lineVars
ServeKey == stage = "loop" /\ LineNext /\ UNCHANGED signals

MainNext == Startup \/ ServeKey

\* Reading a file ends: main() waits for nobody before its loop.
MainSpec == MainInit /\ [][MainNext]_mainVars /\ WF_mainVars(Startup)
-----------------------------------------------------------------------------
(* Properties *)

Entry == [index : Index,
          type : {PROBE, SWITCH}, i : Int, data : {0, 1, 85}]

\* The types; no array is filled beyond its length.
MainTypeOK ==
  /\ stage \in {"probes", "switches", "data", "loop", "exit", "crash"}
  /\ files.probe \in ProbeFiles /\ files.switch \in SwitchFiles
  /\ sProbe \in Seq(Entry) /\ Len(sProbe) <= MAX_PROBES
  /\ sSwitch \in Seq(Entry) /\ Len(sSwitch) <= MAX_SWITCHES

\* A file that lists its signals in order, one a line, as the two beside the
\* program do; what follows them is not looked at.
InOrder(file, letter, width) ==
  /\ file # Missing /\ Len(file) >= width
  /\ \A k \in 1 .. width :
       file[k].text /\ file[k].index = <<"name", letter, (k - 1) \div 10, (k - 1) % 10>>

FilesInOrder ==
  InOrder(files.probe, "P", MAX_PROBES) /\ InOrder(files.switch, "S", MAX_SWITCHES)

\* The signal that Receive stores an address under.
Stored(adr) ==
  CASE SignalAt(adr)[1] = "switch" -> sSwitch[SignalAt(adr)[2] + 1]
    [] SignalAt(adr)[1] = "probe"  -> sProbe[SignalAt(adr)[2] + 1]

\* With files in order the three ways to tell a signal agree: under the address
\* that the read command announces for a name, Receive stores the signal that
\* has this name, type and index.
NamesAtTheirAddresses ==
  stage = "loop" /\ FilesInOrder =>
    \A line \in {files.probe[k] : k \in 1 .. MAX_PROBES}
                  \cup {files.switch[k] : k \in 1 .. MAX_SWITCHES} :
      LET signal == Stored(ReadAddress(line.index))
      IN  /\ signal.index = line.index
          /\ signal.type = KindOf(line)
          /\ signal.i = IndexOf(line.index)

\* Startup ends: the program is in its loop, has refused a file or has crashed.
StartupEnds == <>(stage \in {"loop", "exit", "crash"})
=============================================================================
