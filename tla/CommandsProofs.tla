--------------------------- MODULE CommandsProofs ---------------------------
(***************************************************************************)
(* Proofs about the commands, for command lines of any length and any      *)
(* arguments on them.                                                      *)
(***************************************************************************)
EXTENDS Commands, SequenceTheorems, TLAPS

Byte == 0 .. 255

\* What can be announced.
Saying ==
  {<<"mode">>, <<"error">>}
  \cup ({"ignored", "read"} \X Byte)
  \cup ({"write"} \X Byte \X {0, 1})

LEMMA ShortSequences ==
  ASSUME NEW S
  PROVE  << >> \in Seq(S) /\ \A a, b \in S : <<a>> \in Seq(S) /\ <<a, b>> \in Seq(S)
OBVIOUS

LEMMA NothingSaid ==
  /\ << >> \in Seq(Tokens) /\ << >> \in Seq(Saying)
  /\ Len(<< >>) = 0 /\ \A i \in 1 .. 0 : FALSE
BY ShortSequences

LEMMA NoneBefore == \A i \in 1 .. 0 - 1 : FALSE
OBVIOUS

LEMMA OneOrTwo == \A f \in {1, 2} : f \in Nat /\ f >= 1
OBVIOUS

-----------------------------------------------------------------------------
(* Arguments *)

\* The number of a name is a byte, and so is its address.
LEMMA NameHasIndex ==
  ASSUME NEW token \in Tokens, IsName(token)
  PROVE  IndexOf(token) \in Byte /\ ReadAddress(token) \in Byte
<1>1. token[3] \in 0 .. 255 /\ token[4] \in 0 .. 255
  BY TokensAssumption DEF IsName
<1>2. \A t, u \in 0 .. 255 : (10 * t + u) % 256 \in 0 .. 255
  OBVIOUS
<1>3. IndexOf(token) \in Byte
  BY <1>1, <1>2 DEF IndexOf, Byte
<1> QED BY <1>3 DEF ReadAddress, Byte

\* The address announced for a signal's name is the one Receive stores it
\* under, provided that the 36 of do_read is the number of switches.
LEMMA AddressesAgree ==
  ASSUME MAX_SWITCHES = 36, NEW token \in Tokens, IsName(token), Named(token)[1] # "unknown"
  PROVE  SignalAt(ReadAddress(token)) = Named(token)
<1> DEFINE i == IndexOf(token)
<1>1. i \in 0 .. 255
  BY NameHasIndex DEF Byte
<1>2. MAX_PROBES \in Nat /\ GBT_DATA_WIDTH = 36 + MAX_PROBES /\ GBT_DATA_WIDTH <= 128
  BY SizesAssumption
<1> HIDE DEF i
<1>3. CASE token[2] = "S" /\ i < MAX_SWITCHES
  <2>1. Named(token) = <<"switch", i>> /\ ReadAddress(token) = i
    BY <1>3 DEF Named, ReadAddress, i
  <2> QED BY <1>1, <1>2, <1>3, <2>1 DEF SignalAt
<1>4. CASE token[2] = "P" /\ i < MAX_PROBES
  <2>1. Named(token) = <<"probe", i>> /\ ReadAddress(token) = (i + 36) % 256
    BY <1>4 DEF Named, ReadAddress, i
  <2>2. (i + 36) % 256 = i + 36
    BY <1>1, <1>2, <1>4
  <2> QED BY <1>1, <1>2, <1>4, <2>1, <2>2 DEF SignalAt
<1>5. CASE ~ (token[2] = "S" /\ i < MAX_SWITCHES) /\ ~ (token[2] = "P" /\ i < MAX_PROBES)
  BY <1>5 DEF Named, i
<1> QED BY <1>3, <1>4, <1>5

\* What read says of an argument.
LEMMA ReadSaysOne ==
  ASSUME NEW token \in Tokens
  PROVE  ReadSays(token) \in Saying
BY NameHasIndex DEF ReadSays, Saying, OutOfScope

\* What write says of an argument: at most one write, of that name, and an error
\* only when it ends there, and then nothing else.
LEMMA WriteSaysOf ==
  ASSUME NEW token \in Tokens, data \in {0, 1}
  PROVE  /\ WriteSays(token) \in Seq(Saying)
         /\ \A i \in 1 .. Len(WriteSays(token)) :
              WriteSays(token)[i][1] = "write" =>
                /\ IsName(token) /\ token[2] = "S"
                /\ WriteSays(token)[i] = <<"write", IndexOf(token), data>>
         /\ ~ WriteEnds(token) =>
              \A i \in 1 .. Len(WriteSays(token)) : WriteSays(token)[i][1] # "error"
         /\ WriteEnds(token) => Len(WriteSays(token)) = 1
<1> DEFINE w == <<"write", IndexOf(token), data>>
           g == <<"ignored", IndexOf(token)>>
           e == <<"error">>
<1>1. e \in Saying /\ (IsName(token) => g \in Saying /\ w \in Saying)
  BY NameHasIndex DEF Saying
<1>2. w[1] = "write" /\ g[1] = "ignored" /\ e[1] = "error"
  OBVIOUS
<1>3. \/ WriteEnds(token) /\ WriteSays(token) = <<e>>
      \/ ~ WriteEnds(token) /\ IsName(token) /\ WriteSays(token) = <<g>>
      \/ /\ ~ WriteEnds(token) /\ IsName(token) /\ token[2] = "S"
         /\ WriteSays(token) \in {<<w>>, <<g, w>>}
  BY DEF WriteSays, WriteEnds
<1> HIDE DEF w, g, e
<1>4. WriteSays(token) \in Seq(Saying)
  BY <1>1, <1>3, ShortSequences
<1>5. \A i \in 1 .. Len(WriteSays(token)) :
        WriteSays(token)[i][1] = "write" =>
          IsName(token) /\ token[2] = "S" /\ WriteSays(token)[i] = w
  BY <1>2, <1>3
<1>6. ~ WriteEnds(token) =>
        \A i \in 1 .. Len(WriteSays(token)) : WriteSays(token)[i][1] # "error"
  BY <1>2, <1>3
<1>7. WriteEnds(token) => Len(WriteSays(token)) = 1
  BY <1>3
<1> QED BY <1>4, <1>5, <1>6, <1>7 DEF w

-----------------------------------------------------------------------------
(* The loops *)

LineType ==
  /\ args \in Seq(Tokens)
  /\ itok \in Nat /\ itok >= 1
  /\ data \in {0, 1}
  /\ said \in Seq(Saying)

\* read has said one thing for each argument it has been through.
ReadInv ==
  command = "read" =>
    /\ Len(said) <= Len(args)
    /\ ~ Over => Len(said) = itok - 1
    /\ \A i \in 1 .. Len(said) : said[i] = ReadSays(args[i])

\* write goes on past its first argument only with the bit of that argument, and
\* as long as it has reported no error.
WriteInv ==
  command = "write" =>
    /\ itok = 1 => said = << >>
    /\ itok > 1 /\ ~ Over => IsData(args[1]) /\ data = Leading(args[1])
    /\ ~ Over => \A i \in 1 .. Len(said) : said[i][1] # "error"

PromptInv == command = "" => args = << >> /\ itok = 1 /\ said = << >>

CInv == LineType /\ PromptInv /\ ReadInv /\ WriteInv /\ WritesAreAsked

LEMMA CInvInit == Init => CInv
<1> SUFFICES ASSUME Init PROVE CInv
  OBVIOUS
<1>1. args = << >> /\ said = << >> /\ itok = 1 /\ data = 0 /\ command = ""
  BY DEF Init
<1>2. LineType
  <2>1. args \in Seq(Tokens) /\ said \in Seq(Saying)
    BY <1>1, NothingSaid, Zenon
  <2>2. itok \in Nat /\ itok >= 1
    <3>1. itok = 1
      BY <1>1, Zenon
    <3> QED BY <3>1
  <2>3. data \in {0, 1}
    BY <1>1, Zenon
  <2> QED BY <2>1, <2>2, <2>3, Zenon DEF LineType
<1> QED BY <1>1, <1>2 DEF CInv, PromptInv, ReadInv, WriteInv, WritesAreAsked

\* A line is typed at the prompt, where nothing has been said.
LEMMA LineTyped ==
  ASSUME CInv, NEW name, name # "", NEW tokens \in Seq(Tokens), NEW first \in {1, 2},
         AtPrompt, Typed(name, tokens, first),
         name \in {"read", "write"} => first = 1
  PROVE  CInv'
<1>1. /\ command' = name /\ args' = tokens /\ itok' = first
      /\ data' = data /\ said' = << >> /\ Len(said') = 0
  BY NothingSaid DEF Typed, AtPrompt, CInv, PromptInv
<1>2. Len(tokens) \in Nat /\ DOMAIN tokens = 1 .. Len(tokens)
  BY LenProperties
<1>3. \A i \in 1 .. Len(said') : FALSE
  BY <1>1, NothingSaid
<1>4. LineType'
  <2>1. args' \in Seq(Tokens) /\ said' \in Seq(Saying)
    BY <1>1, NothingSaid DEF CInv, LineType
  <2>2. itok' \in Nat /\ itok' >= 1
    <3>1. itok' = first
      BY <1>1, Zenon
    <3> QED BY <3>1, OneOrTwo, Zenon
  <2>3. data' \in {0, 1}
    BY <1>1, Zenon DEF CInv, LineType
  <2> QED BY <2>1, <2>2, <2>3, Zenon DEF LineType
<1>5. PromptInv'
  BY <1>1 DEF PromptInv
<1>6. ReadInv'
  BY <1>1, <1>2, <1>3 DEF ReadInv, Over
<1>7. WriteInv'
  BY <1>1, <1>3 DEF WriteInv
<1>8. WritesAreAsked'
  <2>1. \A i \in 1 .. Len(said') - 1 : FALSE
    <3>1. Len(said') = 0
      BY <1>1, Zenon
    <3> QED BY <3>1, NoneBefore, Zenon
  <2> QED BY <1>3, <2>1, Zenon DEF WritesAreAsked
<1> QED BY <1>4, <1>5, <1>6, <1>7, <1>8 DEF CInv

\* The argument at hand is one of those typed.
LEMMA ArgumentAtHand ==
  ASSUME CInv, ~ Over
  PROVE  itok \in 1 .. Len(args) /\ args[itok] \in Tokens /\ Len(args) \in Nat
BY LenProperties, ElementOfSeq DEF CInv, LineType, Over

LEMMA ReadArgumentKeeps == CInv /\ ReadArgument => CInv'
<1> SUFFICES ASSUME CInv, ReadArgument PROVE CInv'
  OBVIOUS
<1> DEFINE n == Len(said)
<1>1. /\ command = "read" /\ command' = "read" /\ args' = args /\ data' = data
      /\ said' = Append(said, ReadSays(args[itok]))
      /\ itok' \in {itok + 1, Len(args) + 1}
      /\ itok \in 1 .. Len(args) /\ args[itok] \in Tokens /\ Len(args) \in Nat
      /\ said \in Seq(Saying)
  BY ArgumentAtHand DEF ReadArgument, Advance, CInv, LineType
<1>2. n = itok - 1 /\ \A i \in 1 .. n : said[i] = ReadSays(args[i])
  BY <1>1 DEF ReadArgument, CInv, ReadInv
<1>3. /\ said' \in Seq(Saying) /\ Len(said') = n + 1
      /\ \A i \in 1 .. n : said'[i] = said[i]
      /\ said'[n + 1] = ReadSays(args[itok])
  BY <1>1, ReadSaysOne, AppendProperties
<1>4. LineType'
  BY <1>1, <1>3 DEF CInv, LineType
<1>5. ReadInv'
  <2>1. DOMAIN args = 1 .. Len(args)
    BY LenProperties DEF CInv, LineType
  <2>2. \A i \in 1 .. n + 1 : said'[i] = ReadSays(args[i])
    BY <1>1, <1>2, <1>3
  <2>3. \A i : ReadSays(args[i])' = ReadSays(args[i])
    BY <1>1 DEF ReadSays, IsMode, IsName, OutOfScope, ReadAddress, IndexOf
  <2>4. ~ Over' => itok' = itok + 1
    BY <1>1, <2>1 DEF Over
  <2>5. Len(said') <= Len(args')
    BY <1>1, <1>2, <1>3
  <2>6. ~ Over' => Len(said') = itok' - 1
    BY <1>1, <1>2, <1>3, <2>4
  <2>7. \A i \in 1 .. Len(said') : said'[i] = ReadSays(args[i])'
    BY <1>3, <2>2, <2>3
  <2> QED BY <2>5, <2>6, <2>7 DEF ReadInv
<1>6. PromptInv' /\ WriteInv' /\ WritesAreAsked'
  BY <1>1 DEF PromptInv, WriteInv, WritesAreAsked
<1> QED BY <1>4, <1>5, <1>6 DEF CInv

LEMMA WriteDataKeeps == CInv /\ WriteData => CInv'
<1> SUFFICES ASSUME CInv, WriteData PROVE CInv'
  OBVIOUS
<1>1. /\ command = "write" /\ command' = "write" /\ args' = args
      /\ itok = 1 /\ 1 \in 1 .. Len(args) /\ args[1] \in Tokens /\ Len(args) \in Nat
      /\ itok' = IF IsData(args[1]) THEN 2 ELSE Len(args) + 1
      /\ data' = IF IsData(args[1]) THEN Leading(args[1]) ELSE data
  BY ArgumentAtHand DEF WriteData, Advance
<1>2. said' \in {<< <<"mode">> >>, << <<"error">> >>, << >>}
  BY DEF WriteData
<1>3. IsData(args[1]) => said' = << >>
  BY DEF WriteData, IsMode, IsData, Leading
<1>4. LineType'
  <2>1. said' \in Seq(Saying)
    <3>1. <<"mode">> \in Saying /\ <<"error">> \in Saying
      BY DEF Saying
    <3> QED BY <1>2, <3>1, ShortSequences
  <2>2. data' \in {0, 1}
    BY <1>1 DEF IsData, CInv, LineType
  <2> QED BY <1>1, <2>1, <2>2 DEF CInv, LineType
<1>5. WriteInv'
  <2>1. DOMAIN args = 1 .. Len(args)
    BY LenProperties DEF CInv, LineType
  <2>2. ~ Over' => IsData(args[1])
    BY <1>1, <2>1 DEF Over
  <2>3. ~ Over' => \A i \in 1 .. Len(said') : said'[i][1] # "error"
    BY <1>3, <2>2
  <2> QED BY <1>1, <2>2, <2>3 DEF WriteInv, IsData
<1>6. WritesAreAsked'
  <2>1. \A i \in 1 .. Len(said') : said'[i][1] # "write"
    BY <1>2
  <2>2. \A i \in 1 .. Len(said') - 1 : said'[i][1] # "error"
    <3>1. Len(said') \in {0, 1}
      BY <1>2
    <3>2. \A n \in {0, 1} : \A i \in 1 .. n - 1 : FALSE
      OBVIOUS
    <3> QED BY <3>1, <3>2, Zenon
  <2> QED BY <2>1, <2>2, Zenon DEF WritesAreAsked
<1>7. PromptInv' /\ ReadInv'
  BY <1>1 DEF PromptInv, ReadInv
<1> QED BY <1>4, <1>5, <1>6, <1>7 DEF CInv

LEMMA WriteNameKeeps == CInv /\ WriteName => CInv'
<1> SUFFICES ASSUME CInv, WriteName PROVE CInv'
  OBVIOUS
<1> DEFINE more == WriteSays(args[itok])
<1>1. /\ command = "write" /\ command' = "write" /\ args' = args /\ data' = data
      /\ said' = said \o more
      /\ itok' = IF WriteEnds(args[itok]) THEN Len(args) + 1 ELSE itok + 1
      /\ itok > 1
      /\ itok \in 1 .. Len(args) /\ args[itok] \in Tokens /\ Len(args) \in Nat
      /\ said \in Seq(Saying) /\ data \in {0, 1}
  BY ArgumentAtHand DEF WriteName, Advance, CInv, LineType
<1>2. IsData(args[1]) /\ data = Leading(args[1])
  BY DEF WriteName, CInv, WriteInv
<1>3. /\ more \in Seq(Saying)
      /\ \A i \in 1 .. Len(more) : more[i][1] = "write" =>
           /\ IsName(args[itok]) /\ args[itok][2] = "S"
           /\ more[i] = <<"write", IndexOf(args[itok]), data>>
      /\ ~ WriteEnds(args[itok]) => \A i \in 1 .. Len(more) : more[i][1] # "error"
      /\ WriteEnds(args[itok]) => Len(more) = 1
      /\ \A i \in 1 .. Len(said) : said[i][1] # "error"
  BY <1>1, WriteSaysOf DEF WriteName, CInv, WriteInv
<1> HIDE DEF more
<1>4. /\ said' \in Seq(Saying) /\ Len(said') = Len(said) + Len(more)
      /\ Len(said) \in Nat /\ Len(more) \in Nat
      /\ \A i \in 1 .. Len(said) + Len(more) :
           said'[i] = IF i <= Len(said) THEN said[i] ELSE more[i - Len(said)]
  BY <1>1, <1>3, ConcatProperties, LenProperties
<1>5. LineType'
  BY <1>1, <1>4 DEF CInv, LineType
<1>6. WriteInv'
  <2>1. DOMAIN args = 1 .. Len(args)
    BY LenProperties DEF CInv, LineType
  <2>2. ~ Over' => ~ WriteEnds(args[itok])
    BY <1>1, <2>1 DEF Over
  <2>3. ~ Over' => \A i \in 1 .. Len(said') : said'[i][1] # "error"
    BY <1>3, <1>4, <2>2
  <2> QED BY <1>1, <1>2, <2>3 DEF WriteInv, IsData
<1>7. \A i \in 1 .. Len(said') - 1 : said'[i][1] # "error"
  <2> TAKE i \in 1 .. Len(said') - 1
  <2>1. CASE i <= Len(said)
    BY <1>3, <1>4, <2>1
  <2>2. CASE i > Len(said)
    <3>1. Len(more) # 1 /\ i - Len(said) \in 1 .. Len(more) /\ said'[i] = more[i - Len(said)]
      BY <1>4, <2>2
    <3> QED BY <1>3, <3>1
  <2> QED BY <1>4, <2>1, <2>2
<1> DEFINE Asked(i) == /\ Leading(args[1]) = said'[i][3] /\ said'[i][3] \in {0, 1}
                       /\ \E j \in 2 .. Len(args) : IsName(args[j]) /\ args[j][2] = "S"
                                                     /\ IndexOf(args[j]) = said'[i][2]
<1>8. \A i \in 1 .. Len(said') : said'[i][1] = "write" => Asked(i)
  <2> TAKE i \in 1 .. Len(said')
  <2> HAVE said'[i][1] = "write"
  <2>1. CASE i <= Len(said)
    <3>1. i \in 1 .. Len(said) /\ said'[i] = said[i]
      BY <1>4, <2>1
    <3> QED BY <1>1, <3>1 DEF CInv, WritesAreAsked
  <2>2. CASE i > Len(said)
    <3>1. i - Len(said) \in 1 .. Len(more) /\ said'[i] = more[i - Len(said)]
      BY <1>4, <2>2
    <3>2. /\ IsName(args[itok]) /\ args[itok][2] = "S"
          /\ said'[i] = <<"write", IndexOf(args[itok]), data>>
      BY <1>3, <3>1
    <3>3. itok \in 2 .. Len(args)
      BY <1>1
    <3>4. said'[i][2] = IndexOf(args[itok]) /\ said'[i][3] = data
      BY <3>2
    <3> QED BY <1>1, <1>2, <3>2, <3>3, <3>4, Zenon
  <2> QED BY <1>4, <2>1, <2>2
<1>9. WritesAreAsked'
  BY <1>1, <1>7, <1>8 DEF WritesAreAsked, Leading, IsData, IsName, IndexOf
<1>10. PromptInv' /\ ReadInv'
  BY <1>1 DEF PromptInv, ReadInv
<1> QED BY <1>5, <1>6, <1>9, <1>10 DEF CInv

\* Only typing, the loops and the prompt change the line.
LEMMA CInvNext == CInv /\ [Next]_vars => CInv'
<1> SUFFICES ASSUME CInv, [Next]_vars PROVE CInv'
  OBVIOUS
<1>1. CASE ReadOrWrite
  <2>1. PICK name \in {"read", "write"}, n \in 1 .. MaxArgs :
          \E tokens \in [1 .. n -> Tokens] : Typed(name, tokens, 1)
    BY <1>1 DEF ReadOrWrite
  <2>2. PICK tokens \in [1 .. n -> Tokens] : Typed(name, tokens, 1)
    BY <2>1
  <2>3. tokens \in Seq(Tokens)
    BY CommandsAssumption, SeqDef
  <2>4. name # ""
    OBVIOUS
  <2> QED BY <1>1, <2>2, <2>3, <2>4, LineTyped DEF ReadOrWrite
<1>2. CASE Open \/ Close \/ Exit
  <2>1. PICK name \in {"open", "close", "exit"}, token \in Tokens : Typed(name, <<token>>, 2)
    BY <1>2 DEF Open, Close, Exit
  <2>2. <<token>> \in Seq(Tokens) /\ AtPrompt
    BY <1>2 DEF Open, Close, Exit
  <2>3. name # "" /\ name \notin {"read", "write"}
    OBVIOUS
  <2> QED BY <2>1, <2>2, <2>3, LineTyped
<1>3. CASE OnlyPrint
  <2>1. PICK name \in {"read", "write", "status", "open", "close", "exit", "other"} :
          Typed(name, << >>, 1)
    BY <1>3 DEF OnlyPrint
  <2>2. << >> \in Seq(Tokens) /\ AtPrompt
    BY <1>3, EmptySeq DEF OnlyPrint
  <2>3. name # ""
    OBVIOUS
  <2> QED BY <2>1, <2>2, <2>3, LineTyped
<1>4. CASE ReadArgument
  BY <1>4, ReadArgumentKeeps
<1>5. CASE WriteData \/ WriteName
  BY <1>5, WriteDataKeeps, WriteNameKeeps
<1>6. CASE Prompt
  <2>1. command' = "" /\ args' = << >> /\ itok' = 1 /\ data' = 0 /\ said' = << >>
    BY <1>6 DEF Prompt
  <2>2. args' \in Seq(Tokens) /\ said' \in Seq(Saying)
    BY <2>1, NothingSaid, Zenon
  <2>3. itok' \in Nat /\ itok' >= 1
    <3>1. itok' = 1
      BY <2>1, Zenon
    <3> QED BY <3>1
  <2>4. data' \in {0, 1}
    BY <2>1, Zenon
  <2>5. LineType'
    BY <2>2, <2>3, <2>4, Zenon DEF LineType
  <2>6. PromptInv' /\ command' \notin {"read", "write"}
    BY <2>1, Zenon DEF PromptInv
  <2>7. ReadInv' /\ WriteInv' /\ WritesAreAsked'
    BY <2>6 DEF ReadInv, WriteInv, WritesAreAsked
  <2> QED BY <2>5, <2>6, <2>7, Zenon DEF CInv
<1>7. CASE UNCHANGED vars
  <2>1. command' = command /\ args' = args /\ itok' = itok /\ data' = data /\ said' = said
    BY <1>7 DEF vars, line
  <2>2. LineType' /\ PromptInv'
    BY <2>1, Zenon DEF CInv, LineType, PromptInv
  <2>3. ReadInv'
    BY <2>1 DEF CInv, ReadInv, Over, ReadSays, IsMode, IsName, OutOfScope, ReadAddress, IndexOf
  <2>4. WriteInv'
    BY <2>1 DEF CInv, WriteInv, Over, IsData
  <2>5. WritesAreAsked'
    BY <2>1, Zenon DEF CInv, WritesAreAsked, IsName, IndexOf
  <2> QED BY <2>2, <2>3, <2>4, <2>5 DEF CInv
<1> QED BY <1>1, <1>2, <1>3, <1>4, <1>5, <1>6, <1>7 DEF Next

LEMMA CInvHolds == Spec => []CInv
BY CInvInit, CInvNext, PTL DEF Spec

-----------------------------------------------------------------------------
\* However many arguments a write has, and whatever they are: each write it
\* announces is one of its S arguments with the bit of the first, never a probe
\* and never a value that is no bit, and nothing is announced after an error.
THEOREM OnlyAskedWrites == Spec => []WritesAreAsked
<1>1. CInv => WritesAreAsked
  BY DEF CInv
<1> QED BY CInvHolds, <1>1, PTL

\* The address that read announces for a signal is the one Receive stores it
\* under, as long as MAX_SWITCHES is the 36 that do_read adds for a probe: the
\* number that signals.h defines and cmds.c repeats.
THEOREM ReadsAgree ==
  ASSUME MAX_SWITCHES = 36
  PROVE  Spec => []ReadsAgreeWithReceive
<1>1. CInv => ReadsAgreeWithReceive
  <2> SUFFICES ASSUME CInv, command = "read", NEW i \in 1 .. Len(said),
                      said[i][1] = "read", Named(args[i])[1] # "unknown"
               PROVE  SignalAt(said[i][2]) = Named(args[i])
    BY DEF ReadsAgreeWithReceive
  <2>1. said[i] = ReadSays(args[i]) /\ i \in 1 .. Len(args)
    BY LenProperties DEF CInv, ReadInv, LineType
  <2>2. args[i] \in Tokens
    BY <2>1, ElementOfSeq DEF CInv, LineType
  <2>3. IsName(args[i]) /\ said[i] = <<"read", ReadAddress(args[i])>>
    BY <2>1 DEF ReadSays
  <2> QED BY <2>2, <2>3, AddressesAgree
<1> QED BY CInvHolds, <1>1, PTL
=============================================================================
