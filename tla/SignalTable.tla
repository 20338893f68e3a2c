----------------------------- MODULE SignalTable ----------------------------
(***************************************************************************)
(* How main() fills sProbe and sSwitch before its loop: signals.c reads    *)
(* each signal's name from a file, one line per signal, main() then stores *)
(* the initial data.  From then on an array is used up to its full length  *)
(* and by position alone.                                                  *)
(*                                                                         *)
(* A line is what fgets() returns, at most 149 characters: the index, a    *)
(* name as in GbtSignals, and whether text follows it.                     *)
(***************************************************************************)
EXTENDS GbtSignals, Sequences

CONSTANTS
  ProbeFiles,    \* the contents signals_probe.txt may have ...
  SwitchFiles,   \* ... and signals_switch.txt: sequences of lines, or Missing
  Missing,
  WantedTable    \* GBT_SWTABLE as main.c initializes it

Index == {"name"} \X STRING \X Int \X Int

ASSUME FilesAssumption ==
  \A file \in ProbeFiles \cup SwitchFiles :
    file = Missing \/ file \in Seq([index : Index, text : BOOLEAN])
ASSUME WantedAssumption == WantedTable \in [SwitchAdr -> {0, 1}]

PROBE == 0
SWITCH == 1

VARIABLES
  stage,     \* "probes", "switches", "data", "loop", "exit" or "crash"
  files,     \* the contents of the two files
  sProbe,    \* the signals read so far, those after them are NULL
  sSwitch

signals == <<stage, files, sProbe, sSwitch>>

-----------------------------------------------------------------------------
(* Signal_Init() *)

KindOf(line) == IF line.index[2] = "P" THEN PROBE ELSE SWITCH
MaxIndex(line) == IF line.index[2] = "P" THEN MAX_PROBES ELSE MAX_SWITCHES

\* Computed in an int: characters before '0' make it negative.
SignalIndex(line) == 10 * line.index[3] + line.index[4]

Refused(line) ==
  line.index[2] \notin {"P", "S"} \/ SignalIndex(line) >= MaxIndex(line)

Signal(line) ==
  [index |-> line.index, type |-> KindOf(line), i |-> SignalIndex(line), data |-> 0]

-----------------------------------------------------------------------------
(* Signal_InitFromFile() *)

\* Mutant: one line too many is read.
MoreBeyond(s, width, file) == Len(s) <= width /\ Len(s) < Len(file)

More(s, width, file) == Len(s) < width /\ Len(s) < Len(file)

\* One line: without text strlen(NULL) crashes, a refused index is exit(1).
Line(s, width, file) ==
  /\ file # Missing /\ More(s, width, file)
  /\ LET line == file[Len(s) + 1]
     IN  IF ~ line.text THEN stage' = "crash" /\ s' = s
         ELSE IF Refused(line) THEN stage' = "exit" /\ s' = s
         ELSE s' = Append(s, Signal(line)) /\ UNCHANGED stage

\* Mutant: the array must be full, the end of the file is not looked at.
DoneWhenFull(s, width, file, next) ==
  /\ IF file = Missing THEN stage' = "exit" ELSE Len(s) = width /\ stage' = next
  /\ UNCHANGED s

Done(s, width, file, next) ==
  /\ IF file = Missing THEN stage' = "exit" ELSE ~ More(s, width, file) /\ stage' = next
  /\ UNCHANGED s

ReadProbes ==
  /\ stage = "probes"
  /\ \/ Line(sProbe, MAX_PROBES, files.probe)
     \/ Done(sProbe, MAX_PROBES, files.probe, "switches")
  /\ UNCHANGED <<files, sSwitch>>

ReadSwitches ==
  /\ stage = "switches"
  /\ \/ Line(sSwitch, MAX_SWITCHES, files.switch)
     \/ Done(sSwitch, MAX_SWITCHES, files.switch, "data")
  /\ UNCHANGED <<files, sProbe>>

-----------------------------------------------------------------------------
(* main() *)

\* Every entry is dereferenced; an entry that is missing is NULL.
InitialData ==
  /\ stage = "data"
  /\ IF Len(sSwitch) = MAX_SWITCHES /\ Len(sProbe) = MAX_PROBES
       THEN /\ stage' = "loop"
            /\ sSwitch' = [k \in DOMAIN sSwitch |-> [sSwitch[k] EXCEPT !.data = WantedTable[k - 1]]]
            /\ sProbe' = [k \in DOMAIN sProbe |-> [sProbe[k] EXCEPT !.data = 85]]
       ELSE stage' = "crash" /\ UNCHANGED <<sSwitch, sProbe>>
  /\ UNCHANGED files

TableInit ==
  /\ stage = "probes"
  /\ files \in [probe : ProbeFiles, switch : SwitchFiles]
  /\ sProbe = << >> /\ sSwitch = << >>

TableNext == ReadProbes \/ ReadSwitches \/ InitialData
=============================================================================
