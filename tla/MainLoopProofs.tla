--------------------------- MODULE MainLoopProofs ---------------------------
(***************************************************************************)
(* Proofs about main()'s startup and its loop, for arrays of any size and  *)
(* whatever lines the signal files hold.                                   *)
(***************************************************************************)
EXTENDS MainLoop, SequenceTheorems, TLAPS

-----------------------------------------------------------------------------
(* The command line *)

\* The line never has more than CMD_WIDTH characters, and outside its array only
\* the two cells after it and the one before it are ever written.
TypedBounded ==
  /\ size \in 0 .. CMD_WIDTH
  /\ print_toggle \in 0 .. 2
  /\ strays \subseteq {-1, CMD_WIDTH, CMD_WIDTH + 1}

\* How far the split can write: past sCmd by what the line is longer, past
\* sArgs by one cell, provided sArgs is no smaller than the line.
SplitBounded ==
  /\ sCmd_strays \subseteq CMD_SIZE .. (IF CMD_SIZE < CMD_WIDTH THEN CMD_WIDTH ELSE CMD_SIZE)
  /\ CMD_WIDTH <= ARGS_SIZE => sArgs_strays \subseteq {ARGS_SIZE}

\* A key leaves the line no longer than CMD_WIDTH, and writes no cell of the
\* three arrays but those named above.
LEMMA KeyStep ==
  ASSUME TypedBounded, SplitBounded, LineNext
  PROVE  TypedBounded' /\ SplitBounded'
<1> USE WidthAssumption DEF TypedBounded, SplitBounded, split, Write, Outside
<1>1. CASE KeyUp
  BY <1>1 DEF KeyUp
<1>2. CASE KeyDown
  BY <1>2 DEF KeyDown
<1>3. CASE Backspace
  BY <1>3 DEF Backspace
<1>4. CASE Type
  BY <1>4 DEF Type
<1>5. CASE TypeNul
  BY <1>5 DEF TypeNul
<1>6. CASE Enter
  <2>1. PICK w \in 0 .. size, a \in 0 .. size :
          /\ sCmd_strays' = sCmd_strays \cup Outside(CMD_SIZE, (0 .. w) \cup {CMD_SIZE})
          /\ sArgs_strays' = sArgs_strays \cup Outside(ARGS_SIZE, (0 .. a) \cup {ARGS_SIZE})
          /\ a > 0 => w > 0 /\ w + a + 1 <= size
    BY <1>6 DEF Enter
  <2>2. size \in 0 .. CMD_WIDTH /\ w \in 0 .. CMD_WIDTH /\ a \in 0 .. CMD_WIDTH
    BY <2>1
  <2>3. SplitBounded'
    BY <2>1, <2>2
  <2>4. TypedBounded'
    BY <1>6 DEF Enter
  <2> QED BY <2>3, <2>4
<1>7. CASE Resize
  BY <1>7 DEF Resize
<1> QED BY <1>1, <1>2, <1>3, <1>4, <1>5, <1>6, <1>7 DEF LineNext

LEMMA LineInv == MainSpec => [](TypedBounded /\ SplitBounded)
<1>1. MainInit => TypedBounded /\ SplitBounded
  BY WidthAssumption DEF MainInit, LineInit, TypedBounded, SplitBounded
<1>2. TypedBounded /\ SplitBounded /\ [MainNext]_mainVars => (TypedBounded /\ SplitBounded)'
  <2> SUFFICES ASSUME TypedBounded, SplitBounded, [MainNext]_mainVars
               PROVE  (TypedBounded /\ SplitBounded)'
    OBVIOUS
  <2>1. CASE UNCHANGED lineVars
    BY <2>1 DEF lineVars, split, TypedBounded, SplitBounded
  <2>2. CASE LineNext
    BY <2>2, KeyStep
  <2> QED BY <2>1, <2>2 DEF MainNext, Startup, ServeKey, mainVars
<1> QED BY <1>1, <1>2, PTL DEF MainSpec

\* How far the overflow of OverflowPrevented goes. However long somebody types,
\* the line stays within CMD_WIDTH characters and outside its array only three
\* cells are written.
THEOREM LineStaysBounded == MainSpec => []TypedBounded
BY LineInv, PTL

\* The split of any line that can be typed, for which the code has no limit,
\* writes past sCmd up to the cell CMD_WIDTH, 70 cells with the sizes of the
\* code, and past sArgs only the one cell behind it.
THEOREM SplitStaysBounded == MainSpec => []SplitBounded
BY LineInv, PTL

-----------------------------------------------------------------------------
(* The signal table *)

\* The loop is entered with full arrays only; what the types do not say.
Full == stage = "loop" => Len(sSwitch) = MAX_SWITCHES /\ Len(sProbe) = MAX_PROBES

\* Storing initial data in every entry keeps the number of entries.
LEMMA InitialEntries ==
  ASSUME NEW s \in Seq(Entry), NEW e \in [1 .. Len(s) -> {0, 1, 85}]
  PROVE  LET t == [k \in DOMAIN s |-> [s[k] EXCEPT !.data = e[k]]]
         IN  t \in Seq(Entry) /\ Len(t) = Len(s)
<1> DEFINE t == [k \in DOMAIN s |-> [s[k] EXCEPT !.data = e[k]]]
<1>1. Len(s) \in Nat /\ DOMAIN s = 1 .. Len(s)
  BY LenProperties
<1>2. \A k \in 1 .. Len(s) : [s[k] EXCEPT !.data = e[k]] \in Entry
  <2> TAKE k \in 1 .. Len(s)
  <2>1. s[k] \in Entry
    BY ElementOfSeq
  <2> QED BY <2>1 DEF Entry
<1>3. t \in [1 .. Len(s) -> Entry]
  BY <1>1, <1>2
<1>4. t \in Seq(Entry)
  BY <1>1, <1>3, SeqDef
<1>5. Len(t) = Len(s)
  BY <1>1, <1>3, <1>4, LenProperties
<1> QED BY <1>4, <1>5

\* A line of a file adds one entry, of the types, or none.
LEMMA LineAdds ==
  ASSUME NEW s \in Seq(Entry), NEW s1, NEW width \in Nat,
         NEW file \in ProbeFiles \cup SwitchFiles, Len(s) <= width,
         \/ /\ file # Missing /\ More(s, width, file)
            /\ \/ s1 = s
               \/ ~ Refused(file[Len(s) + 1]) /\ s1 = Append(s, Signal(file[Len(s) + 1]))
         \/ s1 = s
  PROVE  s1 \in Seq(Entry) /\ Len(s1) <= width
<1>1. CASE s1 = s
  BY <1>1
<1>2. CASE /\ file # Missing /\ More(s, width, file)
           /\ ~ Refused(file[Len(s) + 1]) /\ s1 = Append(s, Signal(file[Len(s) + 1]))
  <2> DEFINE line == file[Len(s) + 1]
  <2>1. file \in Seq([index : Index, text : BOOLEAN])
    BY <1>2, FilesAssumption
  <2>2. Len(s) \in Nat /\ Len(file) \in Nat
    BY <2>1, LenProperties
  <2>3. line \in [index : Index, text : BOOLEAN]
    <3>1. Len(s) + 1 \in 1 .. Len(file)
      BY <1>2, <2>2 DEF More
    <3> QED BY <2>1, <3>1, ElementOfSeq
  <2>4. line.index \in Index /\ SignalIndex(line) \in Int
    BY <2>3 DEF Index, SignalIndex
  <2>5. Signal(line) \in Entry
    BY <2>4 DEF Signal, Entry, KindOf, PROBE, SWITCH
  <2>6. s1 \in Seq(Entry) /\ Len(s1) = Len(s) + 1
    BY <1>2, <2>5, AppendProperties
  <2> QED BY <1>2, <2>2, <2>6 DEF More
<1> QED BY <1>1, <1>2

LEMMA StartupStep ==
  ASSUME MainTypeOK, Full, TableNext
  PROVE  MainTypeOK' /\ Full'
<1> USE SizesAssumption DEF MainTypeOK, Full
<1>1. CASE ReadProbes
  <2>1. /\ UNCHANGED <<files, sSwitch>>
        /\ stage' \in {"probes", "switches", "exit", "crash"}
    BY <1>1 DEF ReadProbes, Line, Done
  <2>2. sProbe' \in Seq(Entry) /\ Len(sProbe') <= MAX_PROBES
    <3>1. \/ /\ files.probe # Missing /\ More(sProbe, MAX_PROBES, files.probe)
             /\ \/ sProbe' = sProbe
                \/ /\ ~ Refused(files.probe[Len(sProbe) + 1])
                   /\ sProbe' = Append(sProbe, Signal(files.probe[Len(sProbe) + 1]))
          \/ sProbe' = sProbe
      BY <1>1 DEF ReadProbes, Line, Done
    <3> QED BY <3>1, LineAdds
  <2> QED BY <2>1, <2>2
<1>2. CASE ReadSwitches
  <2>1. /\ UNCHANGED <<files, sProbe>>
        /\ stage' \in {"switches", "data", "exit", "crash"}
    BY <1>2 DEF ReadSwitches, Line, Done
  <2>2. sSwitch' \in Seq(Entry) /\ Len(sSwitch') <= MAX_SWITCHES
    <3>1. \/ /\ files.switch # Missing /\ More(sSwitch, MAX_SWITCHES, files.switch)
             /\ \/ sSwitch' = sSwitch
                \/ /\ ~ Refused(files.switch[Len(sSwitch) + 1])
                   /\ sSwitch' = Append(sSwitch, Signal(files.switch[Len(sSwitch) + 1]))
          \/ sSwitch' = sSwitch
      BY <1>2 DEF ReadSwitches, Line, Done
    <3> QED BY <3>1, LineAdds
  <2> QED BY <2>1, <2>2
<1>3. CASE InitialData
  <2>1. CASE Len(sSwitch) = MAX_SWITCHES /\ Len(sProbe) = MAX_PROBES
    <3> DEFINE wanted == [k \in 1 .. Len(sSwitch) |-> WantedTable[k - 1]]
               unknown == [k \in 1 .. Len(sProbe) |-> 85]
    <3>1. /\ wanted \in [1 .. Len(sSwitch) -> {0, 1, 85}]
          /\ unknown \in [1 .. Len(sProbe) -> {0, 1, 85}]
      BY <2>1, WantedAssumption DEF SwitchAdr
    <3>2. /\ sSwitch' = [k \in DOMAIN sSwitch |-> [sSwitch[k] EXCEPT !.data = wanted[k]]]
          /\ sProbe' = [k \in DOMAIN sProbe |-> [sProbe[k] EXCEPT !.data = unknown[k]]]
          /\ stage' = "loop" /\ files' = files
      BY <1>3, <2>1, LenProperties DEF InitialData
    <3> HIDE DEF wanted, unknown
    <3>3. sSwitch' \in Seq(Entry) /\ Len(sSwitch') = Len(sSwitch)
      BY <3>1, <3>2, InitialEntries
    <3>4. sProbe' \in Seq(Entry) /\ Len(sProbe') = Len(sProbe)
      BY <3>1, <3>2, InitialEntries
    <3> QED BY <2>1, <3>2, <3>3, <3>4
  <2>2. CASE ~ (Len(sSwitch) = MAX_SWITCHES /\ Len(sProbe) = MAX_PROBES)
    BY <1>3, <2>2 DEF InitialData
  <2> QED BY <2>1, <2>2
<1> QED BY <1>1, <1>2, <1>3 DEF TableNext

LEMMA TableInv == MainSpec => [](MainTypeOK /\ Full)
<1>1. MainInit => MainTypeOK /\ Full
  BY SizesAssumption, EmptySeq DEF MainInit, TableInit, MainTypeOK, Full
<1>2. MainTypeOK /\ Full /\ [MainNext]_mainVars => (MainTypeOK /\ Full)'
  <2> SUFFICES ASSUME MainTypeOK, Full, [MainNext]_mainVars
               PROVE  (MainTypeOK /\ Full)'
    OBVIOUS
  <2>1. CASE UNCHANGED signals
    BY <2>1 DEF signals, MainTypeOK, Full
  <2>2. CASE TableNext
    BY <2>2, StartupStep
  <2> QED BY <2>1, <2>2 DEF MainNext, Startup, ServeKey, mainVars
<1> QED BY <1>1, <1>2, PTL DEF MainSpec

\* Whatever the signal files hold, no array is filled beyond its length and every
\* entry is a whole signal.
THEOREM TableIsTyped == MainSpec => []MainTypeOK
BY TableInv, PTL

-----------------------------------------------------------------------------
(* The signals and their lines *)

\* Entry k was made of line k, which Signal_Init() has not refused.
MadeOf(signal, line) ==
  /\ ~ Refused(line)
  /\ signal.index = line.index /\ signal.type = KindOf(line) /\ signal.i = SignalIndex(line)

OfLines(s, file) == \A k \in 1 .. Len(s) : k \in 1 .. Len(file) /\ MadeOf(s[k], file[k])

LineByLine == OfLines(sProbe, files.probe) /\ OfLines(sSwitch, files.switch)

\* The line that is read next makes the entry that is added.
LEMMA LineMakes ==
  ASSUME NEW s \in Seq(Entry), NEW s1, NEW width, NEW file \in ProbeFiles \cup SwitchFiles,
         OfLines(s, file),
         \/ /\ file # Missing /\ More(s, width, file)
            /\ \/ s1 = s
               \/ ~ Refused(file[Len(s) + 1]) /\ s1 = Append(s, Signal(file[Len(s) + 1]))
         \/ s1 = s
  PROVE  OfLines(s1, file)
<1>1. CASE s1 = s
  BY <1>1
<1>2. CASE /\ file # Missing /\ More(s, width, file)
           /\ ~ Refused(file[Len(s) + 1]) /\ s1 = Append(s, Signal(file[Len(s) + 1]))
  <2> DEFINE n == Len(s)
             line == file[n + 1]
  <2>1. n \in Nat /\ Len(file) \in Nat /\ n + 1 \in 1 .. Len(file)
    <3>1. file \in Seq([index : Index, text : BOOLEAN])
      BY <1>2, FilesAssumption
    <3> QED BY <1>2, <3>1, LenProperties DEF More
  <2>2. MadeOf(Signal(line), line)
    BY <1>2 DEF MadeOf, Signal
  <2> HIDE DEF line
  <2>3. /\ Len(s1) = n + 1 /\ s1[n + 1] = Signal(line)
        /\ \A k \in 1 .. n : s1[k] = s[k]
    <3> SUFFICES ASSUME s1 = Append(s, Signal(line))
                 PROVE  /\ Len(s1) = n + 1 /\ s1[n + 1] = Signal(line)
                        /\ \A k \in 1 .. n : s1[k] = s[k]
      BY <1>2 DEF line
    <3> QED OBVIOUS
  <2>4. \A k \in 1 .. n : k \in 1 .. Len(file) /\ MadeOf(s1[k], file[k])
    BY <2>3 DEF OfLines
  <2>5. MadeOf(s1[n + 1], file[n + 1])
    BY <2>2, <2>3 DEF line
  <2>6. \A k \in 1 .. n + 1 : k \in 1 .. n \/ k = n + 1
    BY <2>1
  <2> HIDE DEF n
  <2> QED BY <2>1, <2>3, <2>4, <2>5, <2>6, Zenon DEF OfLines
<1> QED BY <1>1, <1>2

\* Storing initial data changes nothing else.
LEMMA DataKeepsLines ==
  ASSUME NEW s \in Seq(Entry), NEW e, NEW file, OfLines(s, file)
  PROVE  OfLines([k \in DOMAIN s |-> [s[k] EXCEPT !.data = e[k]]], file)
<1> DEFINE t == [k \in DOMAIN s |-> [s[k] EXCEPT !.data = e[k]]]
<1>1. Len(s) \in Nat /\ DOMAIN s = 1 .. Len(s)
  BY LenProperties
<1>2. DOMAIN t = 1 .. Len(s) /\ Len(t) = Len(s)
  BY <1>1
<1>3. \A k \in 1 .. Len(s) : MadeOf(t[k], file[k])
  <2> TAKE k \in 1 .. Len(s)
  <2>1. s[k] \in Entry /\ t[k] = [s[k] EXCEPT !.data = e[k]]
    BY <1>1, ElementOfSeq
  <2>2. t[k].index = s[k].index /\ t[k].type = s[k].type /\ t[k].i = s[k].i
    BY <2>1 DEF Entry
  <2> QED BY <2>2 DEF OfLines, MadeOf
<1> QED BY <1>2, <1>3 DEF OfLines

LEMMA LinesStep ==
  ASSUME MainTypeOK, LineByLine, TableNext
  PROVE  LineByLine'
<1> USE DEF MainTypeOK, LineByLine
<1>1. CASE ReadProbes
  <2>1. \/ /\ files.probe # Missing /\ More(sProbe, MAX_PROBES, files.probe)
           /\ \/ sProbe' = sProbe
              \/ /\ ~ Refused(files.probe[Len(sProbe) + 1])
                 /\ sProbe' = Append(sProbe, Signal(files.probe[Len(sProbe) + 1]))
        \/ sProbe' = sProbe
    BY <1>1 DEF ReadProbes, Line, Done
  <2>2. OfLines(sProbe', files.probe)
    BY <2>1, LineMakes
  <2>3. UNCHANGED <<files, sSwitch>>
    BY <1>1 DEF ReadProbes
  <2> QED BY <2>2, <2>3 DEF OfLines, MadeOf, Refused, KindOf, MaxIndex, SignalIndex
<1>2. CASE ReadSwitches
  <2>1. \/ /\ files.switch # Missing /\ More(sSwitch, MAX_SWITCHES, files.switch)
           /\ \/ sSwitch' = sSwitch
              \/ /\ ~ Refused(files.switch[Len(sSwitch) + 1])
                 /\ sSwitch' = Append(sSwitch, Signal(files.switch[Len(sSwitch) + 1]))
        \/ sSwitch' = sSwitch
    BY <1>2 DEF ReadSwitches, Line, Done
  <2>2. OfLines(sSwitch', files.switch)
    BY <2>1, LineMakes
  <2>3. UNCHANGED <<files, sProbe>>
    BY <1>2 DEF ReadSwitches
  <2> QED BY <2>2, <2>3 DEF OfLines, MadeOf, Refused, KindOf, MaxIndex, SignalIndex
<1>3. CASE InitialData
  <2>1. CASE Len(sSwitch) = MAX_SWITCHES /\ Len(sProbe) = MAX_PROBES
    <3> DEFINE wanted == [k \in DOMAIN sSwitch |-> WantedTable[k - 1]]
               unknown == [k \in DOMAIN sProbe |-> 85]
    <3>1. /\ sSwitch' = [k \in DOMAIN sSwitch |-> [sSwitch[k] EXCEPT !.data = wanted[k]]]
          /\ sProbe' = [k \in DOMAIN sProbe |-> [sProbe[k] EXCEPT !.data = unknown[k]]]
          /\ files' = files
      BY <1>3, <2>1 DEF InitialData
    <3> HIDE DEF wanted, unknown
    <3>2. OfLines(sSwitch', files.switch) /\ OfLines(sProbe', files.probe)
      BY <3>1, DataKeepsLines
    <3> QED BY <3>1, <3>2 DEF OfLines, MadeOf, Refused, KindOf, MaxIndex, SignalIndex
  <2>2. CASE ~ (Len(sSwitch) = MAX_SWITCHES /\ Len(sProbe) = MAX_PROBES)
    BY <1>3, <2>2 DEF InitialData
  <2> QED BY <2>1, <2>2
<1> QED BY <1>1, <1>2, <1>3 DEF TableNext

LEMMA LinesInv == MainSpec => []LineByLine
<1>1. MainInit => LineByLine
  <2> SUFFICES ASSUME MainInit PROVE LineByLine
    OBVIOUS
  <2>1. Len(sProbe) = 0 /\ Len(sSwitch) = 0
    BY DEF MainInit, TableInit
  <2>2. \A k \in 1 .. 0 : FALSE
    OBVIOUS
  <2> QED BY <2>1, <2>2 DEF LineByLine, OfLines
<1>2. MainTypeOK /\ LineByLine /\ [MainNext]_mainVars => LineByLine'
  <2> SUFFICES ASSUME MainTypeOK, LineByLine, [MainNext]_mainVars PROVE LineByLine'
    OBVIOUS
  <2>1. CASE UNCHANGED signals
    BY <2>1 DEF signals, LineByLine, OfLines, MadeOf, Refused, KindOf, MaxIndex, SignalIndex
  <2>2. CASE TableNext
    BY <2>2, LinesStep
  <2> QED BY <2>1, <2>2 DEF MainNext, Startup, ServeKey, mainVars
<1> QED BY <1>1, <1>2, TableIsTyped, PTL DEF MainSpec

\* A number of two digits, as the files and the commands spell it.
LEMMA TwoDigits ==
  ASSUME NEW n \in 0 .. 127
  PROVE  10 * (n \div 10) + (n % 10) = n /\ n % 256 = n
OBVIOUS

\* Line k of a file in order has the k-th name, and so has its entry.
NamedBy(signal, line, letter, k) ==
  /\ line.index[2] = letter /\ IndexOf(line.index) = k - 1
  /\ signal.index = line.index /\ signal.type = KindOf(line) /\ signal.i = k - 1

LEMMA EntryOfName ==
  ASSUME NEW file, NEW s, NEW letter \in {"P", "S"}, NEW width \in 1 .. 127,
         InOrder(file, letter, width), OfLines(s, file), Len(s) = width,
         NEW k \in 1 .. width
  PROVE  NamedBy(s[k], file[k], letter, k)
<1>1. file[k].index = <<"name", letter, (k - 1) \div 10, (k - 1) % 10>>
  BY DEF InOrder
<1>2. k - 1 \in 0 .. 127
  OBVIOUS
<1>3. 10 * ((k - 1) \div 10) + ((k - 1) % 10) = k - 1 /\ (k - 1) % 256 = k - 1
  BY <1>2, TwoDigits
<1>4. 10 * file[k].index[3] + file[k].index[4] = k - 1
  BY <1>1, <1>3
<1>5. IndexOf(file[k].index) = k - 1 /\ SignalIndex(file[k]) = k - 1
  BY <1>3, <1>4 DEF IndexOf, SignalIndex
<1>6. MadeOf(s[k], file[k])
  BY DEF OfLines
<1> QED BY <1>1, <1>5, <1>6 DEF MadeOf, NamedBy

LEMMA EntriesInOrder ==
  ASSUME stage = "loop", Full, LineByLine, FilesInOrder
  PROVE  /\ \A k \in 1 .. MAX_PROBES : NamedBy(sProbe[k], files.probe[k], "P", k)
         /\ \A k \in 1 .. MAX_SWITCHES : NamedBy(sSwitch[k], files.switch[k], "S", k)
<1>1. MAX_PROBES \in 1 .. 127 /\ MAX_SWITCHES \in 1 .. 127
  BY SizesAssumption
<1>2. Len(sProbe) = MAX_PROBES /\ Len(sSwitch) = MAX_SWITCHES
  BY DEF Full
<1>3. /\ InOrder(files.probe, "P", MAX_PROBES) /\ OfLines(sProbe, files.probe)
      /\ InOrder(files.switch, "S", MAX_SWITCHES) /\ OfLines(sSwitch, files.switch)
  BY DEF FilesInOrder, LineByLine
<1>4. "P" \in {"P", "S"} /\ "S" \in {"P", "S"}
  OBVIOUS
<1> QED BY <1>1, <1>2, <1>3, <1>4, EntryOfName, Zenon

LEMMA LinesName ==
  ASSUME MAX_SWITCHES = 36, Full, LineByLine
  PROVE  NamesAtTheirAddresses
<1> SUFFICES ASSUME stage = "loop", FilesInOrder,
                    NEW line \in {files.probe[k] : k \in 1 .. MAX_PROBES}
                                   \cup {files.switch[k] : k \in 1 .. MAX_SWITCHES}
             PROVE  LET signal == Stored(ReadAddress(line.index))
                    IN  /\ signal.index = line.index
                        /\ signal.type = KindOf(line)
                        /\ signal.i = IndexOf(line.index)
  BY DEF NamesAtTheirAddresses
<1>1. MAX_PROBES \in 1 .. 127 /\ MAX_SWITCHES \in 1 .. 127
      /\ GBT_DATA_WIDTH = 36 + MAX_PROBES /\ GBT_DATA_WIDTH <= 128
  BY SizesAssumption
<1>2. /\ \A k \in 1 .. MAX_PROBES : NamedBy(sProbe[k], files.probe[k], "P", k)
      /\ \A k \in 1 .. MAX_SWITCHES : NamedBy(sSwitch[k], files.switch[k], "S", k)
  BY EntriesInOrder
<1>3. CASE line \in {files.probe[k] : k \in 1 .. MAX_PROBES}
  <2>1. PICK k \in 1 .. MAX_PROBES : line = files.probe[k]
    BY <1>3
  <2>2. /\ line.index[2] = "P" /\ IndexOf(line.index) = k - 1
        /\ sProbe[k].index = line.index /\ sProbe[k].type = KindOf(line) /\ sProbe[k].i = k - 1
    BY <1>2, <2>1, Zenon DEF NamedBy
  <2>3. ReadAddress(line.index) = k + 35
    BY <1>1, <2>2 DEF ReadAddress
  <2>4. SignalAt(k + 35) = <<"probe", k - 1>>
    BY <1>1 DEF SignalAt
  <2>5. Stored(k + 35) = sProbe[k]
    BY <2>4 DEF Stored
  <2> QED BY <2>2, <2>3, <2>5
<1>4. CASE line \in {files.switch[k] : k \in 1 .. MAX_SWITCHES}
  <2>1. PICK k \in 1 .. MAX_SWITCHES : line = files.switch[k]
    BY <1>4
  <2>2. /\ line.index[2] = "S" /\ IndexOf(line.index) = k - 1
        /\ sSwitch[k].index = line.index /\ sSwitch[k].type = KindOf(line) /\ sSwitch[k].i = k - 1
    BY <1>2, <2>1, Zenon DEF NamedBy
  <2>3. ReadAddress(line.index) = k - 1
    BY <2>2 DEF ReadAddress
  <2>4. SignalAt(k - 1) = <<"switch", k - 1>>
    BY <1>1 DEF SignalAt
  <2>5. Stored(k - 1) = sSwitch[k]
    BY <2>4 DEF Stored
  <2> QED BY <2>2, <2>3, <2>5
<1> QED BY <1>3, <1>4

\* With both files in order, whatever follows in them: the address that read
\* announces for a name is the one Receive stores that signal under, and the
\* entry there has the name, the type and the index.  The 36 that do_read adds
\* for a probe has to be the number of switches, as in signals.h.
THEOREM NamesReachTheirSignals ==
  ASSUME MAX_SWITCHES = 36
  PROVE  MainSpec => []NamesAtTheirAddresses
<1>1. Full /\ LineByLine => NamesAtTheirAddresses
  BY LinesName
<1> QED BY <1>1, TableInv, LinesInv, PTL

=============================================================================
