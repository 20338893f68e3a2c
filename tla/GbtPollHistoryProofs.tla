------------------------ MODULE GbtPollHistoryProofs ------------------------
(***************************************************************************)
(* Proofs about what is displayed, for any number of switches and probes,  *)
(* any noise, and any number of repeated requests whose answers are under  *)
(* way.                                                                    *)
(***************************************************************************)
EXTENDS GbtPollHistory, GbtPollProofs

-----------------------------------------------------------------------------
(* The invariant *)

\* Every received byte is noise beyond the last address, or carries the value
\* of its register that rxver says.
BytesGenuine ==
  \A i \in 1 .. Len(rx) :
    \/ AdrOf(rx[i]) \notin Adr
    \/ /\ rxver[i] \in 1 .. Len(past[AdrOf(rx[i])])
       /\ DataOf(rx[i]) = past[AdrOf(rx[i])][rxver[i]]

\* The answers for one address arrive in the order of its values, none older
\* than what is displayed.
BytesInOrder ==
  \A i \in 1 .. Len(rx) : AdrOf(rx[i]) \in Adr =>
    /\ shown[AdrOf(rx[i])] <= rxver[i]
    /\ \A j \in i .. Len(rx) : AdrOf(rx[j]) = AdrOf(rx[i]) => rxver[i] <= rxver[j]

HInv == IInv /\ HistoryTypeOK /\ BytesGenuine /\ BytesInOrder /\ DisplayGenuine

-----------------------------------------------------------------------------
(* The history only watches *)

LEMMA HStep == [HNext]_hvars => [Next]_vars
BY DEF HNext, hvars, Next, HTransmitt, HReceive, HFpgaRead, HFpgaWrite, HLoseRequest,
       HGlitch, HRegisterChange

LEMMA HInvInit == HInit => HInv
<1> SUFFICES ASSUME HInit PROVE HInv
  OBVIOUS
<1>1. IInv
  BY IInvInit DEF HInit
<1>2. HistoryTypeOK
  <2>1. regs \in [Adr -> Bit] /\ rx = << >>
    BY DEF HInit, Init
  <2>2. past \in [Adr -> Seq(Bit)] /\ \A a \in Adr : past[a] = <<regs[a]>>
    BY <2>1 DEF HInit
  <2> QED BY <2>1, <2>2, EmptySeq DEF HInit, HistoryTypeOK
<1>3. BytesGenuine /\ BytesInOrder
  BY DEF HInit, Init, BytesGenuine, BytesInOrder
<1>4. DisplayGenuine
  BY Sizes DEF HInit, Init, DisplayGenuine, Displayed, Adr, SwitchAdr, ProbeIndex
<1> QED BY <1>1, <1>2, <1>3, <1>4 DEF HInv

-----------------------------------------------------------------------------
(* Receive *)

\* A byte is stored for address a exactly when a is its address.
LEMMA TargetIsAddress ==
  ASSUME NEW b \in Byte, NEW a \in Adr
  PROVE  Target(b) = TargetOf(a) <=> AdrOf(b) = a
<1>1. AdrOf(b) \in 0 .. 127
  BY ByteParts
<1> QED BY <1>1, Sizes DEF Target, TargetOf, SignalAt, Adr, SwitchAdr

\* What a poll does to the signal at address a: it shows the last of the
\* polled bytes for a, when there is one.
LEMMA PollShows ==
  ASSUME IInv, HistoryTypeOK, HReceive, TX_sentRequest = REQ_READ, NEW a \in Adr
  PROVE  \E i \in 0 .. PollCount :
           /\ i = 0 => Displayed(a)' = Displayed(a) /\ shown'[a] = shown[a]
           /\ i # 0 => /\ AdrOf(rx[i]) = a
                       /\ Displayed(a)' = DataOf(rx[i])
                       /\ shown'[a] = rxver[i]
           /\ \A j \in 1 .. PollCount : AdrOf(rx[j]) = a => j <= i
<1> DEFINE i == LastFor(Polled(rx), TargetOf(a))
<1>1. /\ rx \in Seq(Byte) /\ rxver \in Seq(Nat) /\ Len(rx) = Len(rxver)
      /\ Len(rx) \in Nat /\ PollCount \in 0 .. Len(rx)
  BY EnvAssumption DEF IInv, TypeOK, HistoryTypeOK, PollCount
<1>2. /\ Polled(rx) \in Seq(Byte) /\ Len(Polled(rx)) = PollCount
      /\ \A j \in 1 .. PollCount : Polled(rx)[j] = rx[j]
  BY <1>1, SubSeqProperties DEF Polled
<1>3. \A j \in 1 .. PollCount : Polled(rxver)[j] = rxver[j]
  BY <1>1, SubSeqProperties DEF Polled
<1>4. /\ i \in 0 .. PollCount
      /\ i # 0 => Target(Polled(rx)[i]) = TargetOf(a)
      /\ \A j \in DOMAIN Polled(rx) : Target(Polled(rx)[j]) = TargetOf(a) => i >= j /\ i # 0
  BY <1>2, LastForIs
<1>5. i # 0 => AdrOf(rx[i]) = a
  BY <1>1, <1>2, <1>4, TargetIsAddress
<1>6. \A j \in 1 .. PollCount : AdrOf(rx[j]) = a => j <= i
  <2> TAKE j \in 1 .. PollCount
  <2>1. rx[j] \in Byte /\ Polled(rx)[j] = rx[j] /\ j \in DOMAIN Polled(rx)
    BY <1>1, <1>2
  <2> QED BY <2>1, <1>4, TargetIsAddress
<1>7. shown'[a] = IF i = 0 THEN shown[a] ELSE rxver[i]
  BY <1>3, <1>4 DEF HReceive
<1>8. Displayed(a)' = IF i = 0 THEN Displayed(a) ELSE DataOf(rx[i])
  <2>1. Displayed(a)' = Stored(Polled(rx), TargetOf(a), Displayed(a))
    <3>1. CASE a \in SwitchAdr
      BY <3>1 DEF HReceive, Receive, Displayed, TargetOf
    <3>2. CASE a \notin SwitchAdr
      <4>1. a - MAX_SWITCHES \in ProbeIndex
        BY <3>2, Sizes DEF Adr, SwitchAdr, ProbeIndex
      <4> QED BY <3>2, <4>1 DEF HReceive, Receive, Displayed, TargetOf
    <3> QED BY <3>1, <3>2
  <2> QED BY <1>2, <1>4, <2>1 DEF Stored
<1> HIDE DEF i
<1> QED BY <1>4, <1>5, <1>6, <1>7, <1>8

\* What a poll leaves.
LEMMA PollRest ==
  ASSUME NEW S, NEW s, NEW n \in Nat, NEW m \in 0 .. n, \A j \in m + 1 .. n : s[j] \in S
  PROVE  /\ SubSeq(s, m + 1, n) \in Seq(S)
         /\ Len(SubSeq(s, m + 1, n)) = n - m
         /\ \A j \in 1 .. n - m : SubSeq(s, m + 1, n)[j] = s[m + j]
BY SubSeqProperties

LEMMA HInvReceive ==
  ASSUME HInv, HReceive
  PROVE  HInv' /\ \A a \in Adr : shown[a] <= shown'[a]
<1>1. IInv'
  BY IInvReceive DEF HInv, HReceive
<1>2. CASE TX_sentRequest = REQ_READ
  <2>1. /\ rx \in Seq(Byte) /\ rxver \in Seq(Nat) /\ Len(rx) = Len(rxver)
        /\ Len(rx) \in Nat /\ PollCount \in 0 .. Len(rx)
        /\ past' = past /\ regs' = regs /\ past \in [Adr -> Seq(Bit)]
        /\ shown \in [Adr -> Nat]
    BY EnvAssumption DEF HInv, IInv, TypeOK, HistoryTypeOK, PollCount, HReceive, Receive
  <2>2. /\ rx' \in Seq(Byte) /\ rxver' \in Seq(Nat)
        /\ Len(rx') = Len(rx) - PollCount /\ Len(rxver') = Len(rx) - PollCount
        /\ \A j \in 1 .. Len(rx) - PollCount : /\ rx'[j] = rx[PollCount + j]
                                               /\ rxver'[j] = rxver[PollCount + j]
    <3>1. rx' = SubSeq(rx, PollCount + 1, Len(rx)) /\ rxver' = SubSeq(rxver, PollCount + 1, Len(rx))
      BY <1>2, <2>1 DEF HReceive, Receive, Unpolled
    <3>2. \A j \in PollCount + 1 .. Len(rx) : rx[j] \in Byte /\ rxver[j] \in Nat
      BY <2>1
    <3>3. /\ rx' \in Seq(Byte) /\ Len(rx') = Len(rx) - PollCount
          /\ \A j \in 1 .. Len(rx) - PollCount : rx'[j] = rx[PollCount + j]
      BY <2>1, <3>1, <3>2, PollRest
    <3>4. /\ rxver' \in Seq(Nat) /\ Len(rxver') = Len(rx) - PollCount
          /\ \A j \in 1 .. Len(rx) - PollCount : rxver'[j] = rxver[PollCount + j]
      BY <2>1, <3>1, <3>2, PollRest
    <3> QED BY <3>3, <3>4
  <2>3. \A a \in Adr : shown'[a] \in Nat
    <3> TAKE a \in Adr
    <3>1. PICK i \in 0 .. PollCount : (i = 0 => shown'[a] = shown[a]) /\ (i # 0 => shown'[a] = rxver[i])
      BY <1>2, PollShows DEF HInv
    <3> QED BY <2>1, <3>1
  <2>4. HistoryTypeOK'
    <3>1. shown' \in [Adr -> Nat]
      BY <1>2, <2>3 DEF HReceive
    <3>2. answered' \in BOOLEAN
      BY <1>2 DEF HInv, HistoryTypeOK, HReceive
    <3> QED BY <2>1, <2>2, <3>1, <3>2 DEF HInv, HistoryTypeOK
  <2>5. BytesGenuine'
    BY <2>1, <2>2 DEF HInv, BytesGenuine
  <2>6. \A a \in Adr : /\ shown[a] <= shown'[a]
                       /\ \A j \in PollCount + 1 .. Len(rx) : AdrOf(rx[j]) = a => shown'[a] <= rxver[j]
    <3> TAKE a \in Adr
    <3>1. PICK i \in 0 .. PollCount :
            /\ i = 0 => shown'[a] = shown[a]
            /\ i # 0 => AdrOf(rx[i]) = a /\ shown'[a] = rxver[i]
      BY <1>2, PollShows DEF HInv
    <3>2. CASE i = 0
      BY <2>1, <3>1, <3>2 DEF HInv, BytesInOrder
    <3>3. CASE i # 0
      BY <2>1, <3>1, <3>3 DEF HInv, BytesInOrder
    <3> QED BY <3>2, <3>3
  <2>7. BytesInOrder'
    <3> SUFFICES ASSUME NEW m \in 1 .. Len(rx'), AdrOf(rx'[m]) \in Adr
                 PROVE  /\ shown'[AdrOf(rx'[m])] <= rxver'[m]
                        /\ \A j \in m .. Len(rx') : AdrOf(rx'[j]) = AdrOf(rx'[m]) => rxver'[m] <= rxver'[j]
      BY DEF BytesInOrder
    <3> DEFINE a == AdrOf(rx'[m])
    <3>0. /\ PollCount + m \in PollCount + 1 .. Len(rx)
          /\ rx'[m] = rx[PollCount + m] /\ rxver'[m] = rxver[PollCount + m]
      <4>1. m \in 1 .. Len(rx) - PollCount
        BY <2>2
      <4> QED BY <2>1, <2>2, <4>1
    <3>1. shown'[a] <= rxver'[m]
      BY <2>6, <3>0
    <3>2. ASSUME NEW j \in m .. Len(rx'), AdrOf(rx'[j]) = AdrOf(rx'[m])
          PROVE  rxver'[m] <= rxver'[j]
      <4>1. m \in 1 .. Len(rx) - PollCount /\ j \in m .. Len(rx) - PollCount
        BY <2>2
      <4>2. /\ PollCount + j \in PollCount + m .. Len(rx)
            /\ rx'[j] = rx[PollCount + j] /\ rxver'[j] = rxver[PollCount + j]
        BY <2>1, <2>2, <4>1
      <4>3. PollCount + m \in 1 .. Len(rx)
        BY <2>1, <4>1
      <4> QED BY <3>0, <3>2, <4>2, <4>3 DEF HInv, BytesInOrder
    <3> QED BY <3>1, <3>2
  <2>8. DisplayGenuine'
    <3> SUFFICES ASSUME NEW a \in Adr
                 PROVE  \/ shown'[a] \in 1 .. Len(past[a]) /\ Displayed(a)' = past[a][shown'[a]]
                        \/ /\ shown'[a] = 0
                           /\ Displayed(a)' = IF a \in SwitchAdr THEN GBT_SWTABLE[a] ELSE 85
      BY <2>1 DEF DisplayGenuine
    <3>1. PICK i \in 0 .. PollCount :
            /\ i = 0 => Displayed(a)' = Displayed(a) /\ shown'[a] = shown[a]
            /\ i # 0 => AdrOf(rx[i]) = a /\ Displayed(a)' = DataOf(rx[i]) /\ shown'[a] = rxver[i]
      BY <1>2, PollShows DEF HInv
    <3>2. CASE i = 0
      BY <3>1, <3>2 DEF HInv, DisplayGenuine
    <3>3. CASE i # 0
      BY <2>1, <3>1, <3>3 DEF HInv, BytesGenuine
    <3> QED BY <3>2, <3>3
  <2> QED BY <1>1, <2>4, <2>5, <2>6, <2>7, <2>8 DEF HInv
<1>3. CASE TX_sentRequest # REQ_READ
  <2>1. UNCHANGED <<rx, display, regs, past, rxver, shown, answered>>
    BY <1>3 DEF HReceive, Receive
  <2>2. HistoryTypeOK' /\ BytesGenuine' /\ BytesInOrder' /\ DisplayGenuine'
    BY <2>1 DEF HInv, HistoryTypeOK, BytesGenuine, BytesInOrder, DisplayGenuine, Displayed, display
  <2>3. \A a \in Adr : shown[a] <= shown'[a]
    BY <2>1 DEF HInv, HistoryTypeOK
  <2> QED BY <1>1, <2>2, <2>3 DEF HInv
<1> QED BY <1>2, <1>3

-----------------------------------------------------------------------------
(* The other steps *)

\* A byte is received: its value is the newest of its register.
LEMMA ByteArrives ==
  ASSUME HInv, NEW b \in Byte, NEW v \in Nat,
         rx' = Append(rx, b), rxver' = Append(rxver, v),
         UNCHANGED <<display, regs, past, shown, answered>>,
         AdrOf(b) \notin Adr \/ (v = Len(past[AdrOf(b)]) /\ DataOf(b) = regs[AdrOf(b)])
  PROVE  HistoryTypeOK' /\ BytesGenuine' /\ BytesInOrder' /\ DisplayGenuine'
<1>1. /\ rx \in Seq(Byte) /\ rxver \in Seq(Nat) /\ Len(rx) = Len(rxver)
      /\ past \in [Adr -> Seq(Bit)] /\ shown \in [Adr -> Nat]
      /\ \A a \in Adr : /\ Len(past[a]) \in Nat /\ Len(past[a]) >= 1
                        /\ regs[a] = past[a][Len(past[a])]
  BY EmptySeq DEF HInv, IInv, TypeOK, HistoryTypeOK
<1>2. /\ rx' \in Seq(Byte) /\ rxver' \in Seq(Nat)
      /\ Len(rx') = Len(rx) + 1 /\ Len(rxver') = Len(rx) + 1 /\ Len(rx) \in Nat
      /\ \A j \in 1 .. Len(rx) : rx'[j] = rx[j] /\ rxver'[j] = rxver[j]
      /\ rx'[Len(rx) + 1] = b /\ rxver'[Len(rx) + 1] = v
  BY <1>1, AppendProperties
<1>3. HistoryTypeOK'
  BY <1>1, <1>2 DEF HInv, HistoryTypeOK
<1>4. BytesGenuine'
  BY <1>1, <1>2 DEF HInv, BytesGenuine
<1>5. \A i \in 1 .. Len(rx) : AdrOf(rx[i]) \in Adr => rxver[i] <= Len(past[AdrOf(rx[i])])
  BY <1>1 DEF HInv, BytesGenuine
<1>6. \A a \in Adr : shown[a] <= Len(past[a])
  BY <1>1 DEF HInv, DisplayGenuine
<1>7. BytesInOrder'
  <2> SUFFICES ASSUME NEW i \in 1 .. Len(rx) + 1, AdrOf(rx'[i]) \in Adr
               PROVE  /\ shown[AdrOf(rx'[i])] <= rxver'[i]
                      /\ \A j \in i .. Len(rx) + 1 : AdrOf(rx'[j]) = AdrOf(rx'[i]) => rxver'[i] <= rxver'[j]
    BY <1>2 DEF BytesInOrder
  <2>1. CASE i = Len(rx) + 1
    <3>1. rx'[i] = b /\ rxver'[i] = Len(past[AdrOf(b)]) /\ AdrOf(b) \in Adr
      BY <1>2, <2>1
    <3>2. \A j \in i .. Len(rx) + 1 : j = i
      BY <1>2, <2>1
    <3>3. Len(past[AdrOf(b)]) \in Nat
      BY <1>1, <3>1
    <3>4. shown[AdrOf(rx'[i])] <= rxver'[i]
      BY <1>6, <3>1
    <3>5. ASSUME NEW j \in i .. Len(rx) + 1 PROVE rxver'[i] <= rxver'[j]
      <4>1. j = i
        BY <3>2
      <4>2. rxver'[i] <= rxver'[i]
        BY <3>1, <3>3
      <4> QED BY <4>1, <4>2
    <3> QED BY <3>4, <3>5
  <2>2. CASE i \in 1 .. Len(rx)
    <3>1. rx'[i] = rx[i] /\ rxver'[i] = rxver[i]
      BY <1>2, <2>2
    <3>2. shown[AdrOf(rx[i])] <= rxver[i]
      BY <2>2, <3>1 DEF HInv, BytesInOrder
    <3>3. ASSUME NEW j \in i .. Len(rx) + 1, AdrOf(rx'[j]) = AdrOf(rx[i])
          PROVE  rxver[i] <= rxver'[j]
      <4>1. CASE j = Len(rx) + 1
        <5>1. AdrOf(b) = AdrOf(rx[i]) /\ AdrOf(b) \in Adr
          BY <1>2, <3>1, <3>3, <4>1
        <5>2. rxver'[j] = Len(past[AdrOf(rx[i])])
          BY <1>2, <4>1, <5>1
        <5>3. AdrOf(rx[i]) \in Adr
          BY <5>1
        <5>4. rxver[i] <= Len(past[AdrOf(rx[i])])
          BY <1>5, <2>2, <5>3
        <5> QED BY <5>2, <5>4
      <4>2. CASE j \in i .. Len(rx)
        <5>1. rx'[j] = rx[j] /\ rxver'[j] = rxver[j] /\ j \in i .. Len(rx)
          BY <1>2, <2>2, <4>2
        <5>2. AdrOf(rx[i]) \in Adr /\ AdrOf(rx[j]) = AdrOf(rx[i])
          BY <3>1, <3>3, <5>1
        <5>3. rxver[i] <= rxver[j]
          BY <2>2, <5>1, <5>2 DEF HInv, BytesInOrder
        <5> QED BY <5>1, <5>3
      <4>3. j = Len(rx) + 1 \/ j \in i .. Len(rx)
        <5>1. j \in i .. Len(rx) + 1 /\ i \in Nat /\ Len(rx) \in Nat
          BY <1>2, <2>2
        <5> QED BY <5>1
      <4> QED BY <4>1, <4>2, <4>3
    <3> QED BY <3>1, <3>2, <3>3
  <2>3. i = Len(rx) + 1 \/ i \in 1 .. Len(rx)
    BY <1>2
  <2> QED BY <2>1, <2>2, <2>3
<1>8. DisplayGenuine'
  BY DEF HInv, DisplayGenuine, Displayed, display
<1> QED BY <1>3, <1>4, <1>7, <1>8

\* A register changes: its past grows, and what was true of it stays so.
LEMMA PastGrows ==
  ASSUME HInv, NEW a \in Adr, NEW v \in Bit,
         regs' = [regs EXCEPT ![a] = v],
         past' = [past EXCEPT ![a] = Append(@, v)],
         UNCHANGED <<display, rx, rxver, shown, answered>>
  PROVE  HistoryTypeOK' /\ BytesGenuine' /\ BytesInOrder' /\ DisplayGenuine'
<1>1. past \in [Adr -> Seq(Bit)] /\ regs \in [Adr -> Bit] /\ \A c \in Adr : past[c] \in Seq(Bit)
  BY DEF HInv, IInv, TypeOK, HistoryTypeOK
<1>2. /\ Append(past[a], v) \in Seq(Bit) /\ Append(past[a], v) # << >>
      /\ Len(Append(past[a], v)) = Len(past[a]) + 1 /\ Len(past[a]) \in Nat
      /\ \A n \in 1 .. Len(past[a]) : Append(past[a], v)[n] = past[a][n]
      /\ Append(past[a], v)[Len(past[a]) + 1] = v
  BY <1>1, AppendProperties
<1>3. /\ past' \in [Adr -> Seq(Bit)]
      /\ \A c \in Adr : /\ Len(past'[c]) \in Nat /\ Len(past[c]) \in Nat
                        /\ Len(past[c]) <= Len(past'[c])
                        /\ \A n \in 1 .. Len(past[c]) : past'[c][n] = past[c][n]
  BY <1>1, <1>2
<1>4. HistoryTypeOK'
  <2>1. \A c \in Adr : past'[c] # << >> /\ regs'[c] = past'[c][Len(past'[c])]
    <3> TAKE c \in Adr
    <3>1. CASE c = a
      BY <1>1, <1>2, <3>1
    <3>2. CASE c # a
      BY <1>1, <3>2 DEF HInv, HistoryTypeOK
    <3> QED BY <3>1, <3>2
  <2> QED BY <1>3, <2>1 DEF HInv, HistoryTypeOK
<1>5. BytesGenuine'
  BY <1>3 DEF HInv, BytesGenuine
<1>6. BytesInOrder'
  BY DEF HInv, BytesInOrder
<1>7. DisplayGenuine'
  BY <1>3 DEF HInv, DisplayGenuine, Displayed, display
<1> QED BY <1>4, <1>5, <1>6, <1>7

LEMMA HInvNext ==
  ASSUME HInv, [HNext]_hvars
  PROVE  HInv' /\ \A a \in Adr : shown[a] <= shown'[a]
<1>1. IInv'
  BY HStep, IInvNext DEF HInv
<1>2. CASE HReceive
  BY <1>2, HInvReceive
<1>3. CASE ~ HReceive
  <2>1. UNCHANGED shown /\ \A a \in Adr : shown[a] \in Nat
    BY <1>3 DEF HInv, HistoryTypeOK, HNext, hvars, history, HTransmitt, HFpgaRead, HFpgaWrite,
                HLoseRequest, HGlitch, HRegisterChange
  <2>2. HistoryTypeOK' /\ BytesGenuine' /\ BytesInOrder' /\ DisplayGenuine'
    <3>1. CASE HTransmitt \/ HLoseRequest \/ UNCHANGED hvars
      <4>1. UNCHANGED <<display, rx, regs, past, rxver, shown>> /\ answered' \in BOOLEAN
        BY <3>1 DEF HInv, HistoryTypeOK, HTransmitt, Transmitt, HLoseRequest, LoseRequest,
                    hvars, vars, history
      <4> QED BY <4>1 DEF HInv, HistoryTypeOK, BytesGenuine, BytesInOrder, DisplayGenuine,
                          Displayed, display
    <3>2. ASSUME NEW a \in Adr, HFpgaRead(a)
          PROVE  HistoryTypeOK' /\ BytesGenuine' /\ BytesInOrder' /\ DisplayGenuine'
      <4>1. a \in 0 .. 127 /\ regs[a] \in Bit /\ Len(past[a]) \in Nat
        <5>1. past[a] \in Seq(Bit) /\ regs[a] \in Bit
          BY DEF HInv, IInv, TypeOK, HistoryTypeOK
        <5> QED BY <5>1, Sizes DEF Adr
      <4>2. /\ ReplyByte(regs[a], a) \in Byte
            /\ DataOf(ReplyByte(regs[a], a)) = regs[a]
            /\ AdrOf(ReplyByte(regs[a], a)) = a
        BY <4>1, ReplyParts
      <4>3. /\ rx' = Append(rx, ReplyByte(regs[a], a)) /\ rxver' = Append(rxver, Len(past[a]))
            /\ UNCHANGED <<display, regs, past, shown, answered>>
        BY <3>2 DEF HFpgaRead, FpgaRead
      <4> QED BY <4>1, <4>2, <4>3, ByteArrives
    <3>3. CASE HGlitch
      <4>1. PICK b \in Glitches : rx' = Append(rx, b)
        BY <3>3 DEF HGlitch, Glitch
      <4>2. b \in Byte /\ AdrOf(b) \notin Adr
        BY Sizes, EnvAssumption DEF Adr
      <4>3. rxver' = Append(rxver, 0) /\ UNCHANGED <<display, regs, past, shown, answered>>
        BY <3>3 DEF HGlitch, Glitch
      <4> QED BY <4>1, <4>2, <4>3, ByteArrives
    <3>4. ASSUME NEW a \in Adr, HFpgaWrite(a)
          PROVE  HistoryTypeOK' /\ BytesGenuine' /\ BytesInOrder' /\ DisplayGenuine'
      <4>1. UNCHANGED <<display, rx, rxver, shown, answered>> /\ regs \in [Adr -> Bit]
        BY <3>4 DEF HFpgaWrite, FpgaWrite, HInv, IInv, TypeOK
      <4>2. CASE regs'[a] = regs[a]
        <5>1. regs' = regs /\ past' = past
          BY <3>4, <4>1, <4>2 DEF HFpgaWrite, FpgaWrite
        <5> QED BY <4>1, <5>1 DEF HInv, HistoryTypeOK, BytesGenuine, BytesInOrder,
                                  DisplayGenuine, Displayed, display
      <4>3. CASE regs'[a] # regs[a]
        <5>1. /\ regs' = [regs EXCEPT ![a] = WrittenBit(Head(txline)[1])]
              /\ past' = [past EXCEPT ![a] = Append(@, regs'[a])]
          BY <3>4, <4>3 DEF HFpgaWrite, FpgaWrite
        <5>2. WrittenBit(Head(txline)[1]) \in Bit /\ regs'[a] = WrittenBit(Head(txline)[1])
          BY <4>1, <5>1 DEF WrittenBit, Bit
        <5> QED BY <4>1, <5>1, <5>2, PastGrows
      <4> QED BY <4>2, <4>3
    <3>5. ASSUME NEW a \in Volatile, HRegisterChange(a)
          PROVE  HistoryTypeOK' /\ BytesGenuine' /\ BytesInOrder' /\ DisplayGenuine'
      <4>1. a \in Adr /\ regs \in [Adr -> Bit]
        BY EnvAssumption DEF Adr, HInv, IInv, TypeOK
      <4>2. /\ regs' = [regs EXCEPT ![a] = 1 - regs[a]] /\ 1 - regs[a] \in Bit
            /\ past' = [past EXCEPT ![a] = Append(@, 1 - regs[a])]
            /\ UNCHANGED <<display, rx, rxver, shown, answered>>
        BY <3>5, <4>1 DEF HRegisterChange, RegisterChange, Bit
      <4> QED BY <4>1, <4>2, PastGrows
    <3> QED BY <1>3, <3>1, <3>2, <3>3, <3>4, <3>5 DEF HNext
  <2> QED BY <1>1, <2>1, <2>2 DEF HInv
<1> QED BY <1>2, <1>3

\* The history variables only watch: without them, what the engine does is what
\* GbtPoll allows, so that all that is proved of GbtPoll holds here as well.
THEOREM HistoryOnlyWatches == HSpec => Spec
<1>1. HInit => Init
  BY DEF HInit
<1> QED BY <1>1, HStep, PTL DEF HSpec, Spec

-----------------------------------------------------------------------------
(* The line *)

\* The requests on the line are in order, with an age for each of them.
LineInv == SinceTypeOK /\ LineInOrder

\* One more request makes one more position.
LEMMA AfterOneMore ==
  ASSUME NEW p \in 0 .. Round - 1, NEW k \in 0 .. Round - 1
  PROVE  /\ After(p, k + 1) = Sweep!Succ(After(p, k))
         /\ After(p, 0) = p
BY Sizes DEF After, Round, Sweep!Succ

\* The positions of requests.
LEMMA PositionType ==
  ASSUME NEW req \in {<<0, 0>>} \cup Request
  PROVE  PositionOf(req) \in 0 .. Round - 1
<1>1. CASE req = <<0, 0>>
  BY <1>1, Sizes DEF PositionOf, Round, REQ_READ
<1>2. CASE req \in Request
  <2>1. req[2] \in 0 .. GBT_DATA_WIDTH - 1 /\ req[1] # 0
    BY <1>2 DEF Request, Adr, REQ_READ, REQ_WRITE_0, REQ_WRITE_1
  <2> QED BY <2>1, Sizes DEF PositionOf, Round
<1> QED BY <1>1, <1>2

\* What LineInOrder says of a line, its ages and the last request.
Ordered(line, age, req) ==
  \A i \in 1 .. Len(line) :
    /\ age[i] < Round => After(PositionOf(line[i]), age[i]) = PositionOf(req)
    /\ age[i] = 0 => line[i] = req
    /\ \A j \in i + 1 .. Len(line) :
         \/ age[i] > age[j] \/ age[i] = Round
         \/ age[i] = age[j] /\ line[i] = line[j] /\ line[i][1] = REQ_READ

\* What the line holds when a new request is issued.
LEMMA OrderedAged ==
  ASSUME IInv, LineInv, NEW req,
         PositionOf(req) = Sweep!Succ(PositionOf(tx_data))
  PROVE  /\ Ordered(txline, Aged, req)
         /\ Aged \in Seq(0 .. Round) /\ Len(Aged) = Len(txline)
         /\ \A i \in 1 .. Len(txline) : Aged[i] > 0
<1>1. /\ txline \in Seq(Request) /\ Len(txline) \in Nat
      /\ since \in Seq(0 .. Round) /\ Len(since) = Len(txline)
      /\ \A i \in 1 .. Len(txline) : since[i] \in 0 .. Round /\ txline[i] \in Request
  <2>1. txline \in Seq(Request) /\ since \in Seq(0 .. Round) /\ Len(since) = Len(txline)
    BY DEF IInv, TypeOK, Request, LineInv, SinceTypeOK
  <2>2. \A i \in 1 .. Len(txline) : txline[i] \in Request
    BY <2>1, ElementOfSeq
  <2>3. \A i \in 1 .. Len(txline) : since[i] \in 0 .. Round
    BY <2>1, ElementOfSeq
  <2> QED BY <2>1, <2>2, <2>3, LenProperties
<1>2. Round \in Nat /\ Round > 0
  BY Sizes DEF Round
<1>3. /\ Aged \in Seq(0 .. Round) /\ Len(Aged) = Len(txline)
      /\ \A i \in 1 .. Len(txline) :
           Aged[i] = IF since[i] < Round THEN since[i] + 1 ELSE Round
  <2>1. DOMAIN since = 1 .. Len(txline)
    BY <1>1
  <2>2. \A i \in 1 .. Len(txline) :
          (IF since[i] < Round THEN since[i] + 1 ELSE Round) \in 0 .. Round
    BY <1>1, <1>2
  <2>3. Aged \in [1 .. Len(txline) -> 0 .. Round]
    BY <2>1, <2>2 DEF Aged
  <2>4. Aged \in Seq(0 .. Round) /\ Len(Aged) = Len(txline)
    <3>1. ASSUME NEW n \in Nat, NEW S, NEW f \in [1 .. n -> S]
          PROVE  f \in Seq(S) /\ Len(f) = n
      OBVIOUS
    <3> QED BY <1>1, <2>3, <3>1
  <2> QED BY <2>1, <2>4 DEF Aged
<1>4. \A i \in 1 .. Len(txline) : Aged[i] > 0
  BY <1>1, <1>2, <1>3
<1>5. ASSUME NEW i \in 1 .. Len(txline), Aged[i] < Round
      PROVE  After(PositionOf(txline[i]), Aged[i]) = PositionOf(req)
  <2>1. since[i] \in 0 .. Round - 1 /\ Aged[i] = since[i] + 1
    BY <1>1, <1>2, <1>3, <1>5
  <2>2. PositionOf(txline[i]) \in 0 .. Round - 1
    BY <1>1, PositionType
  <2>3. After(PositionOf(txline[i]), since[i]) = PositionOf(tx_data)
    BY <1>2, <2>1 DEF LineInv, LineInOrder
  <2> QED BY <2>1, <2>2, <2>3, AfterOneMore
<1>6. ASSUME NEW i \in 1 .. Len(txline), NEW j \in i + 1 .. Len(txline)
      PROVE  \/ Aged[i] > Aged[j] \/ Aged[i] = Round
             \/ Aged[i] = Aged[j] /\ txline[i] = txline[j] /\ txline[i][1] = REQ_READ
  <2>1. j \in 1 .. Len(txline)
    BY <1>1
  <2>2. \/ since[i] > since[j] \/ since[i] = Round
        \/ since[i] = since[j] /\ txline[i] = txline[j] /\ txline[i][1] = REQ_READ
    BY DEF LineInv, LineInOrder
  <2>3. CASE since[i] > since[j] \/ since[i] = Round
    BY <1>1, <1>2, <1>3, <2>1, <2>3
  <2>4. CASE since[i] = since[j] /\ txline[i] = txline[j] /\ txline[i][1] = REQ_READ
    BY <1>3, <2>1, <2>4
  <2> QED BY <2>2, <2>3, <2>4
<1> QED BY <1>3, <1>4, <1>5, <1>6 DEF Ordered

\* A request with age 0 is appended to a line in order: it is later than all
\* others, or the same read again.
LEMMA OrderedAppend ==
  ASSUME NEW line \in Seq(Request), NEW age \in Seq(0 .. Round), Len(age) = Len(line),
         NEW req \in Request, Ordered(line, age, req),
         (\A i \in 1 .. Len(line) : age[i] > 0) \/ req[1] = REQ_READ
  PROVE  Ordered(Append(line, req), Append(age, 0), req)
<1>1. /\ Len(line) \in Nat /\ Len(Append(line, req)) = Len(line) + 1
      /\ \A i \in 1 .. Len(line) : /\ Append(line, req)[i] = line[i]
                                   /\ Append(age, 0)[i] = age[i] /\ age[i] \in 0 .. Round
      /\ Append(line, req)[Len(line) + 1] = req /\ Append(age, 0)[Len(line) + 1] = 0
  BY Sizes DEF Round
<1>2. After(PositionOf(req), 0) = PositionOf(req)
  BY PositionType, AfterOneMore, Sizes DEF Round
<1>3. ASSUME NEW i \in 1 .. Len(line) + 1
      PROVE  /\ Append(age, 0)[i] < Round
                  => After(PositionOf(Append(line, req)[i]), Append(age, 0)[i]) = PositionOf(req)
             /\ Append(age, 0)[i] = 0 => Append(line, req)[i] = req
  <2>1. CASE i \in 1 .. Len(line)
    BY <1>1, <2>1 DEF Ordered
  <2>2. CASE i = Len(line) + 1
    BY <1>1, <1>2, <2>2
  <2> QED BY <1>1, <2>1, <2>2
<1>4. ASSUME NEW i \in 1 .. Len(line) + 1, NEW j \in i + 1 .. Len(line) + 1
      PROVE  \/ Append(age, 0)[i] > Append(age, 0)[j] \/ Append(age, 0)[i] = Round
             \/ /\ Append(age, 0)[i] = Append(age, 0)[j]
                /\ Append(line, req)[i] = Append(line, req)[j]
                /\ Append(line, req)[i][1] = REQ_READ
  <2>1. i \in 1 .. Len(line) /\ (j \in i + 1 .. Len(line) \/ j = Len(line) + 1)
    BY <1>1
  <2>2. CASE j \in i + 1 .. Len(line)
    <3>1. j \in 1 .. Len(line)
      BY <1>1, <2>1, <2>2
    <3>2. \/ age[i] > age[j] \/ age[i] = Round
          \/ age[i] = age[j] /\ line[i] = line[j] /\ line[i][1] = REQ_READ
      BY <2>1, <2>2 DEF Ordered
    <3> QED BY <1>1, <2>1, <3>1, <3>2
  <2>3. CASE j = Len(line) + 1
    <3>1. age[i] > 0 \/ (age[i] = 0 /\ line[i] = req /\ req[1] = REQ_READ)
      BY <1>1, <2>1 DEF Ordered
    <3> QED BY <1>1, <2>1, <2>3, <3>1
  <2> QED BY <2>1, <2>2, <2>3
<1> QED BY <1>1, <1>3, <1>4 DEF Ordered

\* Transmitt keeps the line in order: the next request of the sweeps or the
\* outstanding read again goes to its end, or does not get there.
LEMMA LineInvTransmitt == IInv /\ LineInv /\ HTransmitt => LineInv'
<1> SUFFICES ASSUME IInv, LineInv, HTransmitt PROVE LineInv'
  OBVIOUS
<1> DEFINE older == IF TX_sentRequest = REQ_IDLE THEN Aged ELSE since
<1>1. /\ Transmitt /\ SendBuf(tx_data')
      /\ since' = IF txline' = txline THEN older ELSE Append(older, 0)
  BY PositionSuccessor DEF HTransmitt
<1>2. txline \in Seq(Request) /\ tx_data \in {<<0, 0>>} \cup Request
  BY DEF IInv, TypeOK, Request
<1>3. /\ Ordered(txline, older, tx_data')
      /\ older \in Seq(0 .. Round) /\ Len(older) = Len(txline)
      /\ tx_data' \in Request
      /\ (\A i \in 1 .. Len(txline) : older[i] > 0) \/ tx_data'[1] = REQ_READ
  <2>1. CASE TX_sentRequest = REQ_IDLE
    <3>1. PICK code \in NewCodes :
            /\ code \in {REQ_READ, REQ_WRITE_0, REQ_WRITE_1}
            /\ tx_data' = <<code, REQ_ADDRESS>>
            /\ PositionOf(tx_data') = Sweep!Succ(PositionOf(tx_data))
      BY <1>1, <2>1, NewRequest
    <3>2. tx_data' \in Request
      BY <3>1 DEF IInv, TypeOK, Request
    <3>3. older = Aged
      BY <2>1
    <3> HIDE DEF older
    <3> QED BY <3>1, <3>2, <3>3, OrderedAged
  <2>2. CASE TX_sentRequest = REQ_REPEAT
    <3>1. tx_data[1] = REQ_READ /\ tx_data \in Request /\ tx_data' = tx_data
      BY <1>1, <2>2, RepeatedRequest
    <3>2. older = since
      BY <2>2 DEF REQ_IDLE, REQ_REPEAT
    <3> QED BY <3>1, <3>2 DEF LineInv, SinceTypeOK, LineInOrder, Ordered
  <2> QED BY <1>1, <2>1, <2>2, TransmittCases
<1> HIDE DEF older
<1>4. LineInv' <=> /\ Ordered(txline', since', tx_data')
                   /\ since' \in Seq(0 .. Round) /\ Len(since') = Len(txline')
  BY DEF LineInv, SinceTypeOK, LineInOrder, Ordered, After, PositionOf, Round
<1>5. CASE txline' = txline
  <2>1. since' = older
    BY <1>1, <1>5
  <2> QED BY <1>3, <1>4, <1>5, <2>1
<1>6. CASE txline' = Append(txline, tx_data')
  <2>1. txline' # txline
    <3>1. Len(txline') = Len(txline) + 1 /\ Len(txline) \in Nat
      BY <1>2, <1>3, <1>6, AppendProperties, LenProperties
    <3> QED BY <3>1
  <2>2. since' = Append(older, 0)
    BY <1>1, <2>1
  <2>3. Append(older, 0) \in Seq(0 .. Round) /\ Len(Append(older, 0)) = Len(txline')
    <3>1. 0 \in 0 .. Round
      BY Sizes DEF Round
    <3> QED BY <1>2, <1>3, <1>6, <3>1, AppendProperties
  <2>4. Ordered(Append(txline, tx_data'), Append(older, 0), tx_data')
    BY <1>2, <1>3, OrderedAppend
  <2> QED BY <1>4, <1>6, <2>2, <2>3, <2>4
<1> QED BY <1>1, <1>5, <1>6 DEF SendBuf

\* What takes the oldest request off the line leaves the others in order.
LEMMA OrderedTail ==
  ASSUME NEW line \in Seq(Request), NEW age \in Seq(0 .. Round), Len(age) = Len(line),
         line # << >>, NEW req, Ordered(line, age, req)
  PROVE  /\ Ordered(Tail(line), Tail(age), req)
         /\ Tail(age) \in Seq(0 .. Round) /\ Len(Tail(age)) = Len(Tail(line))
<1>1. age # << >> /\ Len(line) \in Nat /\ Len(line) >= 1
  BY EmptySeq, LenProperties
<1>2. /\ Len(Tail(line)) = Len(line) - 1
      /\ \A i \in 1 .. Len(line) - 1 : Tail(line)[i] = line[i + 1]
  BY HeadTailProperties
<1>3. /\ Tail(age) \in Seq(0 .. Round) /\ Len(Tail(age)) = Len(line) - 1
      /\ \A i \in 1 .. Len(line) - 1 : Tail(age)[i] = age[i + 1]
  BY <1>1, HeadTailProperties
<1>4. ASSUME NEW i \in 1 .. Len(line) - 1
      PROVE  /\ i + 1 \in 1 .. Len(line)
             /\ \A j \in i + 1 .. Len(line) - 1 :
                  j \in 1 .. Len(line) - 1 /\ j + 1 \in (i + 1) + 1 .. Len(line)
  BY <1>1
<1> QED BY <1>2, <1>3, <1>4 DEF Ordered

LEMMA LineInvNext == IInv /\ LineInv /\ [HNext]_hvars => LineInv'
<1> SUFFICES ASSUME IInv, LineInv, [HNext]_hvars PROVE LineInv'
  OBVIOUS
<1>1. CASE HTransmitt
  BY <1>1, LineInvTransmitt
<1>2. LineInv' <=> /\ Ordered(txline', since', tx_data')
                   /\ since' \in Seq(0 .. Round) /\ Len(since') = Len(txline')
  BY DEF LineInv, SinceTypeOK, LineInOrder, Ordered, After, PositionOf, Round
<1>3. LineInv <=> /\ Ordered(txline, since, tx_data)
                  /\ since \in Seq(0 .. Round) /\ Len(since) = Len(txline)
  BY DEF LineInv, SinceTypeOK, LineInOrder, Ordered
<1>4. CASE UNCHANGED <<tx_data, txline, since>>
  BY <1>2, <1>3, <1>4
<1>5. CASE /\ txline # << >> /\ txline' = Tail(txline) /\ since' = Tail(since)
           /\ UNCHANGED tx_data
  <2>1. txline \in Seq(Request)
    BY DEF IInv, TypeOK, Request
  <2> QED BY <1>2, <1>3, <1>5, <2>1, OrderedTail
<1> QED BY <1>1, <1>4, <1>5 DEF HNext, hvars, vars, engine, history, HReceive, Receive, HFpgaRead,
      FpgaRead, HFpgaWrite, FpgaWrite, HLoseRequest, LoseRequest, HGlitch, Glitch,
      HRegisterChange, RegisterChange, NextRequest

\* However many requests fail to be sent or are lost, those on the line come in
\* the order of the sweeps, each at its own distance from the one held for a
\* retry, and only reads are ever repeated.
THEOREM RequestsInOrder == HSpec => []LineInOrder
<1>1. HInit => LineInv
  BY EmptySeq DEF HInit, Init, LineInv, SinceTypeOK, LineInOrder
<1>2. LineInv => LineInOrder
  BY DEF LineInv
<1>3. HInit => IInv
  BY IInvInit DEF HInit
<1>4. IInv /\ [HNext]_hvars => IInv'
  BY HStep, IInvNext
<1> QED BY <1>1, <1>2, <1>3, <1>4, LineInvNext, PTL DEF HSpec

\* The invariants of the engine hold with the history, in particular that the
\* requests are in order and the backlog stays within its bound.
THEOREM EngineInvariantsHold ==
  HSpec => [](TypeOK /\ CursorCoherent /\ LineInOrder /\ WritesCarryTable /\ BacklogBounded)
BY HistoryOnlyWatches, EngineIsTyped, CursorIsCoherent, RequestsInOrder,
   SwitchWritesCarryTable, BacklogStaysBounded, PTL

\* Whatever is lost, late, repeated or noise: every displayed value is one that
\* this signal's own register had, or the initial one.
THEOREM DisplayIsGenuine == HSpec => []DisplayGenuine
<1>1. HInv /\ [HNext]_hvars => HInv'
  BY HInvNext
<1>2. HInv => DisplayGenuine
  BY DEF HInv
<1> QED BY HInvInit, <1>1, <1>2, PTL DEF HSpec

\* A displayed value is never replaced by an earlier one of its register.
THEOREM DisplayOnlyAdvances == HSpec => DisplayNeverGoesBack
<1>1. HInv /\ [HNext]_hvars => HInv'
  BY HInvNext
<1>2. HInv /\ [HNext]_hvars => [\A a \in Adr : shown[a] <= shown'[a]]_hvars
  BY HInvNext
<1> QED BY HInvInit, <1>1, <1>2, PTL DEF HSpec, DisplayNeverGoesBack
=============================================================================
