--------------------------- MODULE GbtPollProofs ---------------------------
(***************************************************************************)
(* Proofs about the polling engine, for any number of switches and probes, *)
(* any table and any environment that the assumptions of GbtPoll allow.    *)
(***************************************************************************)
EXTENDS GbtPoll, FiniteSetTheorems, FunctionTheorems, SequenceTheorems,
  WellFoundedInduction, TLAPS

Request == {REQ_READ, REQ_WRITE_0, REQ_WRITE_1} \X Adr

(* Numbers and bytes *)

\* GBT_DATA_WIDTH is a positive number of addresses, each of seven bits, and
\* the switches come first.
LEMMA Sizes ==
  /\ GBT_DATA_WIDTH \in Nat /\ GBT_DATA_WIDTH >= 2 /\ GBT_DATA_WIDTH <= 128
  /\ MAX_SWITCHES \in Nat /\ MAX_SWITCHES >= 1 /\ MAX_SWITCHES < GBT_DATA_WIDTH
  /\ MAX_PROBES \in Nat /\ MAX_PROBES >= 1
  /\ GBT_DATA_WIDTH = MAX_SWITCHES + MAX_PROBES
BY SizesAssumption

\* A nonempty set of positions of a sequence has a largest member.
LEMMA MaxIsMember ==
  ASSUME NEW n \in Nat, NEW S \in SUBSET (1 .. n), S # {}
  PROVE  Max(S) \in S /\ \A i \in S : Max(S) >= i
<1> DEFINE T == {n - i : i \in S}
<1>1. T \subseteq Nat /\ T # {}
  <2>1. \A i \in S : i \in 1 .. n /\ n - i \in Nat
    OBVIOUS
  <2>2. PICK i \in S : TRUE
    OBVIOUS
  <2> QED BY <2>1, <2>2
<1>2. PICK m \in T : \A k \in T : ~ (<<k, m>> \in OpToRel(<, Nat))
  BY <1>1, NatLessThanWellFounded, WFMin
<1>3. PICK i \in S : m = n - i
  BY <1>2
<1>4. \A j \in S : i >= j
  <2> SUFFICES ASSUME NEW j \in S, j > i PROVE FALSE
    OBVIOUS
  <2>1. n - j \in T /\ n - j \in Nat /\ m \in Nat /\ n - j < m
    BY <1>3
  <2>2. <<n - j, m>> \in OpToRel(<, Nat)
    BY <2>1 DEF OpToRel
  <2> QED BY <2>1, <2>2, <1>2
<1> QED BY <1>3, <1>4 DEF Max

\* The value part of a byte is a bit, and its address part has seven bits.
LEMMA ByteParts ==
  ASSUME NEW b \in Byte
  PROVE  DataOf(b) \in Bit /\ AdrOf(b) \in 0 .. 127
BY DEF Byte, Bit, DataOf, AdrOf

\* The program takes apart what the FPGA put together.
LEMMA ReplyParts ==
  ASSUME NEW d \in Bit, NEW a \in 0 .. 127
  PROVE  /\ ReplyByte(d, a) \in Byte
         /\ DataOf(ReplyByte(d, a)) = d
         /\ AdrOf(ReplyByte(d, a)) = a
BY DEF Byte, Bit, DataOf, AdrOf, ReplyByte

\* The last byte for a target, when there is one, is the last of those that
\* are stored there.
LEMMA LastForIs ==
  ASSUME NEW buf \in Seq(Byte), NEW target
  PROVE  LET i == LastFor(buf, target) IN
         /\ i \in 0 .. Len(buf)
         /\ i # 0 => Target(buf[i]) = target
         /\ \A j \in DOMAIN buf : Target(buf[j]) = target => i >= j /\ i # 0
<1> DEFINE hits == {i \in DOMAIN buf : Target(buf[i]) = target}
<1>1. hits \in SUBSET (1 .. Len(buf)) /\ Len(buf) \in Nat
  OBVIOUS
<1>2. CASE hits = {}
  <2>1. LastFor(buf, target) = 0
    BY <1>2 DEF LastFor
  <2> QED BY <1>1, <1>2, <2>1
<1>3. CASE hits # {}
  <2>1. LastFor(buf, target) = Max(hits)
    BY <1>3 DEF LastFor
  <2>2. Max(hits) \in hits /\ \A i \in hits : Max(hits) >= i
    <3> HIDE DEF hits
    <3> QED BY <1>1, <1>3, MaxIsMember
  <2> QED BY <1>1, <2>1, <2>2
<1> QED BY <1>2, <1>3

\* Storing bytes in a signal leaves a byte in it.
LEMMA StoredType ==
  ASSUME NEW buf \in Seq(Byte), NEW target, NEW old \in Byte
  PROVE  Stored(buf, target, old) \in Byte
<1> DEFINE i == LastFor(buf, target)
<1>1. i \in 0 .. Len(buf)
  BY LastForIs
<1> HIDE DEF i
<1>2. i # 0 => buf[i] \in Byte
  BY <1>1, ElementOfSeq
<1>3. i # 0 => DataOf(buf[i]) \in Bit
  BY <1>2, ByteParts
<1>4. \A d \in Bit : d \in Byte
  BY DEF Bit, Byte
<1> QED BY <1>3, <1>4 DEF Stored, i

-----------------------------------------------------------------------------
(* Types and the cursor *)

\* The codes of a new request: the running sweep decides, and a write for a
\* switch is decided by the table.
LEMMA NewCodesAre ==
  ASSUME TypeOK
  PROVE  /\ NewCodes # {}
         /\ txReq = REQ_READ => NewCodes = {REQ_READ}
         /\ txReq # REQ_READ => NewCodes \subseteq WriteRequests
         /\ (txReq # REQ_READ /\ REQ_ADDRESS \in SwitchAdr)
              => NewCodes = {WriteCode(GBT_SWTABLE[REQ_ADDRESS])}
<1> USE DEF REQ_READ, REQ_WRITE_0, REQ_WRITE_1
<1>1. TableEntries(REQ_ADDRESS) # {}
  BY DEF TableEntries, Bit
<1>2. \A e : WriteCode(e) \in WriteRequests
  BY DEF WriteCode, WriteRequests
<1>3. CASE txReq = REQ_READ
  BY <1>3 DEF NewCodes
<1>4. CASE txReq # REQ_READ
  <2>1. txReq = REQ_WRITE_0
    BY <1>4 DEF TypeOK
  <2>2. NewCodes = {WriteCode(e) : e \in TableEntries(REQ_ADDRESS)}
    BY <2>1 DEF NewCodes
  <2>3. REQ_ADDRESS \in SwitchAdr => TableEntries(REQ_ADDRESS) = {GBT_SWTABLE[REQ_ADDRESS]}
    BY DEF TableEntries
  <2> QED BY <1>1, <1>2, <1>4, <2>2, <2>3
<1> QED BY <1>3, <1>4

\* The invariant the induction needs: the types say that a repeated request is
\* a read of some address, which only the cursor's coherence justifies.
IInv == TypeOK /\ CursorCoherent

LEMMA IInvInit == Init => IInv
<1> SUFFICES ASSUME Init PROVE IInv
  OBVIOUS
<1> USE Sizes DEF REQ_IDLE, REQ_READ, REQ_WRITE_0, REQ_WRITE_1, REQ_REPEAT
<1>1. GBT_SWTABLE \in [SwitchAdr -> Byte]
  BY TableAssumption DEF SwitchAdr, Bit, Byte
<1>2. [k \in ProbeIndex |-> 85] \in [ProbeIndex -> Byte]
  BY DEF Byte, ProbeIndex
<1>3. << >> \in Seq(Request) /\ << >> \in Seq(Byte)
  OBVIOUS
<1>4. 0 \in Adr
  BY DEF Adr
<1>5. TypeOK
  BY <1>1, <1>2, <1>3, <1>4 DEF Init, TypeOK, Request
<1>6. CursorCoherent
  BY DEF Init, CursorCoherent, PositionOf, Sweep!Succ
<1> QED BY <1>5, <1>6 DEF IInv

\* What sending a new request does to the engine, in one place for the proofs
\* of all the invariants.
LEMMA NewRequest ==
  ASSUME IInv, Transmitt, TX_sentRequest = REQ_IDLE
  PROVE  \E code \in NewCodes :
           /\ code \in {REQ_READ, REQ_WRITE_0, REQ_WRITE_1}
           /\ code = REQ_READ <=> txReq = REQ_READ
           /\ tx_data' = <<code, REQ_ADDRESS>>
           /\ SendBuf(tx_data')
           /\ PositionOf(tx_data') = Sweep!Succ(PositionOf(tx_data))
<1> USE DEF REQ_IDLE, REQ_READ, REQ_WRITE_0, REQ_WRITE_1, REQ_REPEAT
<1>1. PICK code \in NewCodes :
        tx_data' = <<code, REQ_ADDRESS>> /\ SendBuf(<<code, REQ_ADDRESS>>)
  BY DEF Transmitt, SendNew
<1>2. TypeOK /\ txReq \in {REQ_READ, REQ_WRITE_0}
  BY DEF IInv, TypeOK
<1>3. /\ code \in {REQ_READ, REQ_WRITE_0, REQ_WRITE_1}
      /\ code = REQ_READ <=> txReq = REQ_READ
  BY <1>2, NewCodesAre DEF WriteRequests
<1>4. PositionOf(tx_data')
        = (IF txReq = REQ_READ THEN 0 ELSE GBT_DATA_WIDTH) + REQ_ADDRESS
  <2>1. REQ_ADDRESS \in Int
    BY <1>2 DEF TypeOK, Adr
  <2> QED BY <1>1, <1>3, <2>1, Sizes DEF PositionOf
<1>5. PositionOf(tx_data') = Sweep!Succ(PositionOf(tx_data))
  BY <1>4 DEF IInv, CursorCoherent
<1> QED BY <1>1, <1>3, <1>5 DEF SendBuf

\* What repeating a request does.
LEMMA RepeatedRequest ==
  ASSUME IInv, Transmitt, TX_sentRequest = REQ_REPEAT
  PROVE  /\ tx_data[1] = REQ_READ /\ tx_data \in Request
         /\ tx_data' = tx_data
         /\ SendBuf(tx_data')
<1> USE DEF REQ_IDLE, REQ_READ, REQ_WRITE_0, REQ_WRITE_1, REQ_REPEAT
<1>1. tx_data[1] = REQ_READ /\ tx_data \in {<<0, 0>>} \cup Request
  BY DEF IInv, TypeOK, CursorCoherent, Request
<1> QED BY <1>1 DEF Transmitt, SendRepeat, SendBuf

\* A transmission: new, repeated, or none while an answer is awaited.
LEMMA TransmittCases ==
  ASSUME IInv, Transmitt
  PROVE  \/ TX_sentRequest = REQ_IDLE /\ SendNew
         \/ TX_sentRequest = REQ_REPEAT /\ SendRepeat
BY DEF IInv, TypeOK, CursorCoherent, Transmitt, REQ_IDLE, REQ_READ, REQ_REPEAT

LEMMA IInvTransmitt == IInv /\ Transmitt => IInv'
<1> SUFFICES ASSUME IInv, Transmitt PROVE IInv'
  OBVIOUS
<1> USE DEF REQ_IDLE, REQ_READ, REQ_WRITE_0, REQ_WRITE_1, REQ_REPEAT
<1>1. TypeOK /\ handler' = "Receive" /\ UNCHANGED <<display, rx, regs>>
  BY DEF IInv, Transmitt
<1>2. CASE TX_sentRequest = REQ_IDLE /\ SendNew
  <2>1. PICK code \in NewCodes :
           /\ code \in {REQ_READ, REQ_WRITE_0, REQ_WRITE_1}
           /\ code = REQ_READ <=> txReq = REQ_READ
           /\ tx_data' = <<code, REQ_ADDRESS>>
           /\ SendBuf(tx_data')
    BY <1>2, NewRequest
  <2>2. tx_data' \in Request /\ txline' \in Seq(Request)
    <3>1. REQ_ADDRESS \in Adr /\ txline \in Seq(Request)
      BY <1>1 DEF TypeOK, Request
    <3>2. tx_data' \in Request
      BY <2>1, <3>1 DEF Request
    <3>3. Append(txline, tx_data') \in Seq(Request)
      BY <3>1, <3>2, AppendProperties
    <3> QED BY <2>1, <3>1, <3>2, <3>3 DEF SendBuf
  <2>3. /\ REQ_ADDRESS' \in Adr /\ txReq' \in {REQ_READ, REQ_WRITE_0}
        /\ TX_sentAddress' \in Adr /\ TX_sentRequest' \in {REQ_IDLE, REQ_READ}
    BY <1>1, <1>2, Sizes DEF SendNew, AdvanceCursor, TypeOK, Adr
  <2>4. TypeOK'
    BY <1>1, <2>2, <2>3 DEF TypeOK, Request, display
  <2>5. (IF txReq = REQ_READ THEN 0 ELSE GBT_DATA_WIDTH)' + REQ_ADDRESS'
          = Sweep!Succ(PositionOf(tx_data))'
    <3>1. PositionOf(tx_data')
            = (IF txReq = REQ_READ THEN 0 ELSE GBT_DATA_WIDTH) + REQ_ADDRESS
      BY <1>1, <2>1, Sizes DEF PositionOf, TypeOK, Adr
    <3>2. txReq \in {REQ_READ, REQ_WRITE_0} /\ REQ_ADDRESS \in 0 .. GBT_DATA_WIDTH - 1
      BY <1>1 DEF TypeOK, Adr
    <3>3. PositionOf(tx_data)' = PositionOf(tx_data')
      BY DEF PositionOf
    <3> QED BY <1>2, <3>1, <3>2, <3>3, Sizes DEF SendNew, AdvanceCursor, Sweep!Succ
  <2>6. TX_sentRequest' # REQ_IDLE => tx_data'[1] = REQ_READ
    BY <1>2, <2>1 DEF SendNew
  <2>7. CursorCoherent'
    BY <1>1, <2>3, <2>5, <2>6 DEF CursorCoherent
  <2> QED BY <2>4, <2>7 DEF IInv
<1>3. CASE TX_sentRequest = REQ_REPEAT /\ SendRepeat
  <2>1. /\ tx_data[1] = REQ_READ /\ tx_data \in Request
        /\ tx_data' = tx_data /\ SendBuf(tx_data')
    BY <1>3, RepeatedRequest
  <2>2. txline' \in Seq(Request)
    <3>1. txline \in Seq(Request)
      BY <1>1 DEF TypeOK, Request
    <3>2. Append(txline, tx_data') \in Seq(Request)
      BY <2>1, <3>1, AppendProperties
    <3> QED BY <2>1, <3>1, <3>2 DEF SendBuf
  <2>3. TypeOK'
    BY <1>1, <1>3, <2>1, <2>2 DEF TypeOK, SendRepeat, Request, display
  <2>4. CursorCoherent'
    BY <1>1, <1>3, <2>1 DEF IInv, CursorCoherent, SendRepeat, PositionOf, Sweep!Succ
  <2> QED BY <2>3, <2>4 DEF IInv
<1> QED BY <1>2, <1>3, TransmittCases

LEMMA IInvReceive == IInv /\ Receive => IInv'
<1> SUFFICES ASSUME IInv, Receive PROVE IInv'
  OBVIOUS
<1> USE DEF REQ_IDLE, REQ_READ, REQ_WRITE_0, REQ_WRITE_1, REQ_REPEAT
<1>1. /\ TypeOK /\ handler = "Receive" /\ handler' = "Transmitt"
      /\ UNCHANGED <<TX_sentAddress, txReq, REQ_ADDRESS, tx_data, txline, regs>>
  BY DEF IInv, Receive
<1>2. CASE TX_sentRequest = REQ_READ
  <2> DEFINE buf == Polled(rx)
  <2>1. rx \in Seq(Byte) /\ PollCount \in 0 .. Len(rx)
    BY <1>1, EnvAssumption DEF TypeOK, PollCount
  <2>2. buf \in Seq(Byte) /\ Unpolled(rx) \in Seq(Byte)
    BY <2>1, SubSeqProperties DEF Polled, Unpolled
  <2>3. rx' \in Seq(Byte)
    BY <1>2, <2>2 DEF Receive
  <2>4. sSwitch' \in [SwitchAdr -> Byte]
    <3>1. \A k \in SwitchAdr : Stored(buf, <<"switch", k>>, sSwitch[k]) \in Byte
      <4> HIDE DEF buf
      <4> TAKE k \in SwitchAdr
      <4>1. sSwitch[k] \in Byte
        BY <1>1 DEF TypeOK
      <4> QED BY <2>2, <4>1, StoredType
    <3> QED BY <1>2, <3>1 DEF Receive
  <2>5. sProbe' \in [ProbeIndex -> Byte]
    <3>1. \A k \in ProbeIndex : Stored(buf, <<"probe", k>>, sProbe[k]) \in Byte
      <4> HIDE DEF buf
      <4> TAKE k \in ProbeIndex
      <4>1. sProbe[k] \in Byte
        BY <1>1 DEF TypeOK
      <4> QED BY <2>2, <4>1, StoredType
    <3> QED BY <1>2, <3>1 DEF Receive
  <2>6. TX_sentRequest' \in {REQ_IDLE, REQ_REPEAT}
    BY <1>2 DEF Receive, AfterPoll
  <2>7. TypeOK'
    BY <1>1, <2>3, <2>4, <2>5, <2>6 DEF TypeOK
  <2>8. CursorCoherent'
    BY <1>1, <1>2, <2>6 DEF IInv, CursorCoherent, PositionOf, Sweep!Succ
  <2> QED BY <2>7, <2>8 DEF IInv
<1>3. CASE TX_sentRequest # REQ_READ
  <2>1. UNCHANGED <<rx, TX_sentRequest, display>> /\ TX_sentRequest = REQ_IDLE
    BY <1>1, <1>3 DEF Receive, IInv, CursorCoherent, TypeOK
  <2>2. TypeOK'
    BY <1>1, <2>1 DEF TypeOK, display
  <2>3. CursorCoherent'
    BY <1>1, <2>1 DEF IInv, CursorCoherent, PositionOf, Sweep!Succ
  <2> QED BY <2>2, <2>3 DEF IInv
<1> QED BY <1>2, <1>3

\* The FPGA and the line never touch the engine; what they append and remove
\* keeps the types.
LEMMA IInvEnvironment ==
  ASSUME IInv,
         \/ \E a \in Adr : FpgaRead(a) \/ FpgaWrite(a)
         \/ LoseRequest \/ Glitch
         \/ \E a \in Volatile : RegisterChange(a)
  PROVE  IInv' /\ UNCHANGED <<engine, handler>>
<1> USE DEF REQ_IDLE, REQ_READ, REQ_WRITE_0, REQ_WRITE_1, REQ_REPEAT
<1>1. UNCHANGED <<engine, handler, display>>
  BY DEF FpgaRead, FpgaWrite, LoseRequest, Glitch, RegisterChange
<1>2. TypeOK
  BY DEF IInv
<1>3. txline' \in Seq(Request)
  <2>1. txline' = txline \/ (txline # << >> /\ txline' = Tail(txline))
    BY DEF FpgaRead, FpgaWrite, LoseRequest, Glitch, RegisterChange, NextRequest
  <2>2. txline \in Seq(Request)
    BY <1>2 DEF TypeOK, Request
  <2>3. txline # << >> => Tail(txline) \in Seq(Request)
    BY <2>2, HeadTailProperties
  <2> QED BY <2>1, <2>2, <2>3
<1>4. rx' \in Seq(Byte)
  <2>1. \/ rx' = rx
        \/ \E a \in Adr : rx' = Append(rx, ReplyByte(regs[a], a))
        \/ \E b \in Byte : rx' = Append(rx, b)
    BY EnvAssumption DEF FpgaRead, FpgaWrite, LoseRequest, Glitch, RegisterChange
  <2>2. \A a \in Adr : ReplyByte(regs[a], a) \in Byte
    <3> TAKE a \in Adr
    <3>1. a \in 0 .. 127 /\ regs[a] \in Bit
      BY <1>2, Sizes DEF TypeOK, Adr
    <3> QED BY <3>1, ReplyParts
  <2>3. rx \in Seq(Byte)
    BY <1>2 DEF TypeOK
  <2>4. \A b \in Byte : Append(rx, b) \in Seq(Byte)
    BY <2>3, AppendProperties
  <2> QED BY <2>1, <2>2, <2>3, <2>4
<1>5. regs' \in [Adr -> Bit]
  <2>1. CASE regs' = regs
    BY <1>2, <2>1 DEF TypeOK
  <2>2. CASE \E a \in Volatile : regs' = [regs EXCEPT ![a] = 1 - @]
    <3>1. PICK a \in Adr : regs' = [regs EXCEPT ![a] = 1 - regs[a]]
      BY <2>2, EnvAssumption DEF Adr
    <3>2. regs \in [Adr -> Bit] /\ 1 - regs[a] \in Bit
      BY <1>2 DEF TypeOK, Bit
    <3> QED BY <3>1, <3>2
  <2>3. ASSUME NEW a \in Adr, FpgaWrite(a) PROVE regs' \in [Adr -> Bit]
    <3>1. WrittenBit(Head(txline)[1]) \in Bit
      BY DEF WrittenBit, Bit
    <3> QED BY <1>2, <2>3, <3>1 DEF TypeOK, FpgaWrite
  <2> QED BY <2>1, <2>2, <2>3 DEF FpgaRead, LoseRequest, Glitch, RegisterChange
<1>6. TypeOK'
  BY <1>1, <1>2, <1>3, <1>4, <1>5 DEF TypeOK, Request, engine, display
<1>7. CursorCoherent'
  BY <1>1 DEF IInv, CursorCoherent, PositionOf, Sweep!Succ, engine
<1> QED BY <1>1, <1>6, <1>7 DEF IInv

LEMMA IInvNext == IInv /\ [Next]_vars => IInv'
<1> SUFFICES ASSUME IInv, [Next]_vars PROVE IInv'
  OBVIOUS
<1>1. CASE Transmitt
  BY <1>1, IInvTransmitt
<1>2. CASE Receive
  BY <1>2, IInvReceive
<1>3. CASE \/ \E a \in Adr : FpgaRead(a) \/ FpgaWrite(a)
           \/ LoseRequest \/ Glitch
           \/ \E a \in Volatile : RegisterChange(a)
  BY <1>3, IInvEnvironment
<1>4. CASE UNCHANGED vars
  BY <1>4 DEF IInv, TypeOK, CursorCoherent, PositionOf, Sweep!Succ, vars, engine, display
<1> QED BY <1>1, <1>2, <1>3, <1>4 DEF Next

LEMMA IInvHolds == Spec => []IInv
BY IInvInit, IInvNext, PTL DEF Spec

\* Every variable keeps its type: the cursor never passes the last address, and
\* no state of a request but the three of the engine comes about.
THEOREM EngineIsTyped == Spec => []TypeOK
<1>1. IInv => TypeOK
  BY DEF IInv
<1> QED BY IInvHolds, <1>1, PTL

\* The cursor stays one position after the request in tx_data, whatever is lost,
\* late or repeated.
THEOREM CursorIsCoherent == Spec => []CursorCoherent
<1>1. IInv => CursorCoherent
  BY DEF IInv
<1> QED BY IInvHolds, <1>1, PTL

-----------------------------------------------------------------------------
(* The line *)

\* What a transmission hands to the driver.
LEMMA PositionSuccessor ==
  ASSUME IInv, Transmitt
  PROVE  /\ SendBuf(tx_data')
         /\ \/ PositionOf(tx_data') = Sweep!Succ(PositionOf(tx_data))
            \/ tx_data' = tx_data /\ tx_data[1] = REQ_READ
BY NewRequest, RepeatedRequest, TransmittCases

\* A request is added to the line, or its head is removed.
LEMMA LineSteps ==
  ASSUME IInv, [Next]_vars
  PROVE  \/ Transmitt /\ txline' = Append(txline, tx_data')
         \/ UNCHANGED txline
         \/ txline # << >> /\ txline' = Tail(txline) /\ UNCHANGED tx_data
<1>1. Transmitt => SendBuf(tx_data')
  BY PositionSuccessor
<1> QED BY <1>1 DEF SendBuf, Next, vars, engine, Receive, FpgaRead, FpgaWrite,
             LoseRequest, Glitch, RegisterChange, NextRequest

LEMMA WritesCarryTableNext ==
  IInv /\ WritesCarryTable /\ [Next]_vars => WritesCarryTable'
<1> SUFFICES ASSUME IInv, WritesCarryTable, [Next]_vars PROVE WritesCarryTable'
  OBVIOUS
<1> DEFINE Good(req) == (req[1] \in WriteRequests /\ req[2] \in SwitchAdr)
                          => WrittenBit(req[1]) = GBT_SWTABLE[req[2]]
<1>1. txline \in Seq(Request) /\ \A i \in 1 .. Len(txline) : Good(txline[i])
  BY DEF WritesCarryTable, IInv, TypeOK, Request
<1> SUFFICES \A i \in 1 .. Len(txline') : Good(txline'[i])
  BY DEF WritesCarryTable
<1>2. CASE Transmitt /\ txline' = Append(txline, tx_data')
  <2>2. Good(tx_data')
    <3> USE DEF REQ_IDLE, REQ_READ, REQ_WRITE_0, REQ_WRITE_1, REQ_REPEAT
    <3>1. CASE TX_sentRequest = REQ_IDLE
      <4>1. PICK code \in NewCodes :
              tx_data' = <<code, REQ_ADDRESS>> /\ (code = REQ_READ <=> txReq = REQ_READ)
        BY <1>2, <3>1, NewRequest
      <4> SUFFICES ASSUME code \in WriteRequests, REQ_ADDRESS \in SwitchAdr
                   PROVE  WrittenBit(code) = GBT_SWTABLE[REQ_ADDRESS]
        BY <4>1
      <4>2. code = WriteCode(GBT_SWTABLE[REQ_ADDRESS])
        BY <4>1, NewCodesAre DEF IInv, WriteRequests
      <4>3. GBT_SWTABLE[REQ_ADDRESS] \in {0, 1}
        BY TableAssumption DEF SwitchAdr, Bit
      <4> QED BY <4>2, <4>3 DEF WriteCode, WrittenBit
    <3>2. CASE TX_sentRequest = REQ_REPEAT
      BY <1>2, <3>2, RepeatedRequest DEF WriteRequests
    <3> QED BY <1>2, <3>1, <3>2, TransmittCases
  <2> HIDE DEF Good
  <2>3. /\ Len(txline') = Len(txline) + 1
        /\ txline'[Len(txline) + 1] = tx_data'
        /\ \A i \in 1 .. Len(txline) : txline'[i] = txline[i]
    BY <1>1, <1>2
  <2> QED BY <1>1, <2>2, <2>3
<1>3. CASE UNCHANGED txline
  BY <1>1, <1>3
<1>4. CASE txline # << >> /\ txline' = Tail(txline) /\ UNCHANGED tx_data
  <2>1. /\ Len(txline') = Len(txline) - 1
        /\ \A i \in 1 .. Len(txline) - 1 : txline'[i] = txline[i + 1]
    BY <1>1, <1>4, HeadTailProperties
  <2> HIDE DEF Good
  <2> QED BY <1>1, <2>1
<1> QED BY <1>2, <1>3, <1>4, LineSteps

\* No retry, loss or delay makes the engine write a switch to anything but
\* what its table holds.
THEOREM SwitchWritesCarryTable == Spec => []WritesCarryTable
<1>1. Init => WritesCarryTable
  BY DEF Init, WritesCarryTable
<1> QED BY <1>1, IInvInit, IInvNext, WritesCarryTableNext, PTL DEF Spec

-----------------------------------------------------------------------------
(* The backlog *)

\* The positions of the read requests among those of a line.
ReadsOf(line) == {i \in DOMAIN line : line[i][1] = REQ_READ}

\* The bound is inductive once it says when its "one more" is used: while
\* Receive is still to look for the answer of the read just sent.
BacklogInv ==
  /\ Len(txline) <= MaxInFlight
  /\ Cardinality(ReadsOf(txline)) + Len(rx)
       <= MaxInFlight + MaxGlitch
            + (IF handler = "Receive" /\ TX_sentRequest = REQ_READ THEN 1 ELSE 0)

\* A line holds at most as many reads as requests.
LEMMA ReadsAtMostLength ==
  ASSUME NEW line \in Seq(Request)
  PROVE  /\ IsFiniteSet(ReadsOf(line))
         /\ Cardinality(ReadsOf(line)) \in Nat
         /\ Cardinality(ReadsOf(line)) <= Len(line)
<1>1. Len(line) \in Nat /\ DOMAIN line = 1 .. Len(line)
  OBVIOUS
<1>2. /\ IsFiniteSet(1 .. Len(line))
      /\ Cardinality(1 .. Len(line)) = Len(line)
  BY <1>1, FS_Interval
<1>3. ReadsOf(line) \in SUBSET (1 .. Len(line))
  BY <1>1 DEF ReadsOf
<1> QED BY <1>2, <1>3, FS_Subset, FS_CardinalityType

\* A request added to the line counts if it is a read.
LEMMA ReadsOfAppend ==
  ASSUME NEW line \in Seq(Request), NEW req \in Request
  PROVE  Cardinality(ReadsOf(Append(line, req)))
           = Cardinality(ReadsOf(line)) + (IF req[1] = REQ_READ THEN 1 ELSE 0)
<1> DEFINE n == Len(line)
<1>1. /\ n \in Nat /\ DOMAIN line = 1 .. n
      /\ DOMAIN Append(line, req) = 1 .. n + 1
      /\ \A i \in 1 .. n : Append(line, req)[i] = line[i]
      /\ Append(line, req)[n + 1] = req
  OBVIOUS
<1>2. ReadsOf(Append(line, req))
        = IF req[1] = REQ_READ THEN ReadsOf(line) \cup {n + 1} ELSE ReadsOf(line)
  <2>1. \A i : i \in 1 .. n + 1 <=> i \in 1 .. n \/ i = n + 1
    BY <1>1
  <2> HIDE DEF n
  <2> QED BY <1>1, <2>1 DEF ReadsOf
<1>3. n + 1 \notin ReadsOf(line)
  BY <1>1 DEF ReadsOf
<1>4. IsFiniteSet(ReadsOf(line)) /\ Cardinality(ReadsOf(line)) \in Nat
  BY ReadsAtMostLength
<1>5. Cardinality(ReadsOf(line) \cup {n + 1}) = Cardinality(ReadsOf(line)) + 1
  BY <1>3, <1>4, FS_AddElement
<1> HIDE DEF n
<1> QED BY <1>2, <1>4, <1>5

\* The request that leaves the line counted if it was a read.
LEMMA ReadsOfTail ==
  ASSUME NEW line \in Seq(Request), line # << >>
  PROVE  Cardinality(ReadsOf(Tail(line)))
           = Cardinality(ReadsOf(line)) - (IF Head(line)[1] = REQ_READ THEN 1 ELSE 0)
<1> DEFINE n == Len(line)
           S == ReadsOf(Tail(line))
           T == ReadsOf(line) \ {1}
           shift == [i \in S |-> i + 1]
<1>1. /\ n \in Nat /\ n >= 1 /\ DOMAIN line = 1 .. n
      /\ DOMAIN Tail(line) = 1 .. n - 1
      /\ \A i \in 1 .. n - 1 : Tail(line)[i] = line[i + 1]
      /\ Head(line) = line[1]
      /\ Tail(line) \in Seq(Request)
  BY HeadTailProperties, LenProperties, EmptySeq
<1> HIDE DEF n
<1>2. S = {i \in 1 .. n - 1 : line[i + 1][1] = REQ_READ}
  BY <1>1 DEF ReadsOf
<1>3. T = {j \in 2 .. n : line[j][1] = REQ_READ}
  <2>1. \A j : j \in 1 .. n /\ j # 1 <=> j \in 2 .. n
    BY <1>1
  <2> QED BY <1>1, <2>1 DEF ReadsOf
<1> HIDE DEF S, T
<1>4. shift \in Bijection(S, T)
  <2>1. shift \in [S -> T]
    <3>1. \A i \in S : i + 1 \in T
      BY <1>1, <1>2, <1>3
    <3> QED BY <3>1
  <2>2. \A i, j \in S : shift[i] = shift[j] => i = j
    BY <1>2
  <2>3. \A j \in T : \E i \in S : shift[i] = j
    <3> SUFFICES ASSUME NEW j \in T PROVE j - 1 \in S /\ (j - 1) + 1 = j
      OBVIOUS
    <3> QED BY <1>1, <1>2, <1>3
  <2> HIDE DEF shift
  <2> QED BY <2>1, <2>2, <2>3, Fun_IsBij
<1>5. IsFiniteSet(S) /\ IsFiniteSet(ReadsOf(line)) /\ Cardinality(ReadsOf(line)) \in Nat
  BY <1>1, ReadsAtMostLength DEF S
<1>6. Cardinality(T) = Cardinality(S)
  <2>1. ExistsBijection(S, T)
    BY <1>4 DEF ExistsBijection
  <2> QED BY <1>5, <2>1, FS_Bijection
<1>7. Cardinality(T)
        = IF 1 \in ReadsOf(line) THEN Cardinality(ReadsOf(line)) - 1
          ELSE Cardinality(ReadsOf(line))
  BY <1>5, FS_RemoveElement DEF T
<1>8. 1 \in ReadsOf(line) <=> Head(line)[1] = REQ_READ
  BY <1>1 DEF ReadsOf
<1> QED BY <1>5, <1>6, <1>7, <1>8 DEF S

LEMMA BacklogInit == Init => BacklogInv
<1> SUFFICES ASSUME Init PROVE BacklogInv
  OBVIOUS
<1>1. txline = << >> /\ rx = << >> /\ Len(txline) = 0 /\ Len(rx) = 0
  BY DEF Init
<1>2. ReadsOf(txline) = {}
  BY <1>1 DEF ReadsOf
<1>3. Cardinality(ReadsOf(txline)) = 0
  BY <1>2, FS_EmptySet
<1> QED BY <1>1, <1>3, EnvAssumption DEF BacklogInv

\* The numbers the bound is about.
LEMMA BacklogNumbers ==
  ASSUME IInv
  PROVE  /\ Len(txline) \in Nat /\ Len(rx) \in Nat
         /\ Cardinality(ReadsOf(txline)) \in Nat
         /\ Cardinality(ReadsOf(txline)) <= Len(txline)
         /\ txline \in Seq(Request) /\ rx \in Seq(Byte)
         /\ MaxInFlight \in Nat /\ MaxGlitch \in Nat
<1>1. txline \in Seq(Request) /\ rx \in Seq(Byte)
  BY DEF IInv, TypeOK, Request
<1> QED BY <1>1, ReadsAtMostLength, LenProperties, EnvAssumption

\* A request reaches the driver only while it has room, and a read is sent only
\* when no Receive is outstanding.
LEMMA BacklogTransmitt == IInv /\ BacklogInv /\ Transmitt => BacklogInv'
<1> SUFFICES ASSUME IInv, BacklogInv, Transmitt PROVE BacklogInv'
  OBVIOUS
<1> USE DEF REQ_IDLE, REQ_READ, REQ_WRITE_0, REQ_WRITE_1, REQ_REPEAT
<1>1. /\ handler = "Transmitt" /\ handler' = "Receive" /\ rx' = rx
      /\ TX_sentRequest # REQ_READ
  BY DEF Transmitt, IInv, CursorCoherent
<1>2. /\ SendBuf(tx_data') /\ tx_data' \in Request
      /\ tx_data'[1] = REQ_READ => TX_sentRequest' = REQ_READ
  <2>1. CASE TX_sentRequest = REQ_IDLE /\ SendNew
    <3>1. PICK code \in NewCodes :
            /\ code \in {REQ_READ, REQ_WRITE_0, REQ_WRITE_1}
            /\ code = REQ_READ <=> txReq = REQ_READ
            /\ tx_data' = <<code, REQ_ADDRESS>>
            /\ SendBuf(tx_data')
      BY <2>1, NewRequest
    <3>2. REQ_ADDRESS \in Adr
      BY DEF IInv, TypeOK
    <3> QED BY <2>1, <3>1, <3>2 DEF SendNew, Request
  <2>2. CASE TX_sentRequest = REQ_REPEAT /\ SendRepeat
    BY <2>2, RepeatedRequest DEF SendRepeat
  <2> QED BY <2>1, <2>2, TransmittCases
<1>3. Cardinality(ReadsOf(txline)) + Len(rx) <= MaxInFlight + MaxGlitch
  BY <1>1, BacklogNumbers DEF BacklogInv
<1>4. ReadsOf(txline)' = ReadsOf(txline')
  BY DEF ReadsOf
<1>5. CASE Len(txline) < MaxInFlight /\ txline' = Append(txline, tx_data')
  <2>1. Len(txline') = Len(txline) + 1
    BY <1>2, <1>5, BacklogNumbers, AppendProperties
  <2>2. Cardinality(ReadsOf(txline'))
          = Cardinality(ReadsOf(txline)) + (IF tx_data'[1] = REQ_READ THEN 1 ELSE 0)
    BY <1>2, <1>5, BacklogNumbers, ReadsOfAppend
  <2> QED BY <1>1, <1>2, <1>3, <1>4, <1>5, <2>1, <2>2, BacklogNumbers DEF BacklogInv
<1>6. CASE UNCHANGED txline
  <2>1. Len(txline') = Len(txline) /\ ReadsOf(txline') = ReadsOf(txline)
    BY <1>6
  <2> QED BY <1>1, <1>3, <1>4, <1>6, <2>1, BacklogNumbers DEF BacklogInv
<1> QED BY <1>2, <1>5, <1>6 DEF SendBuf

\* Receive takes a byte when there is one, which settles the "one more"; when
\* there is none, the reads on the line are within its bound.
LEMMA BacklogReceive == IInv /\ BacklogInv /\ Receive => BacklogInv'
<1> SUFFICES ASSUME IInv, BacklogInv, Receive PROVE BacklogInv'
  OBVIOUS
<1>1. handler = "Receive" /\ handler' = "Transmitt" /\ txline' = txline
  BY DEF Receive
<1>2. Cardinality(ReadsOf(txline)) + Len(rx') <= MaxInFlight + MaxGlitch
  <2>1. CASE TX_sentRequest = REQ_READ
    <3>1. /\ rx' = SubSeq(rx, PollCount + 1, Len(rx))
          /\ PollCount \in 0 .. Len(rx)
          /\ Len(rx) > 0 => PollCount > 0
      <4>1. PollSize \in Nat /\ PollSize # 0
        BY EnvAssumption
      <4>2. Len(rx) \in Nat
        BY BacklogNumbers
      <4>3. rx' = SubSeq(rx, PollCount + 1, Len(rx))
        BY <2>1 DEF Receive, Unpolled
      <4> QED BY <4>1, <4>2, <4>3 DEF PollCount
    <3>2. Len(rx') = Len(rx) - PollCount
      <4>1. \A i \in PollCount + 1 .. Len(rx) : rx[i] \in Byte
        BY <3>1, BacklogNumbers, ElementOfSeq
      <4> QED BY <3>1, <4>1, BacklogNumbers, SubSeqProperties
    <3>3. /\ Len(txline) <= MaxInFlight
          /\ Cardinality(ReadsOf(txline)) + Len(rx) <= MaxInFlight + MaxGlitch + 1
      BY <1>1, <2>1 DEF BacklogInv
    <3> QED BY <3>1, <3>2, <3>3, BacklogNumbers
  <2>2. CASE TX_sentRequest # REQ_READ
    BY <1>1, <2>2, BacklogNumbers DEF Receive, BacklogInv
  <2> QED BY <2>1, <2>2
<1>3. ReadsOf(txline)' = ReadsOf(txline)
  BY <1>1 DEF ReadsOf
<1> QED BY <1>1, <1>2, <1>3, BacklogNumbers DEF BacklogInv

\* An answer takes the place of its request, a loss frees it, and noise comes
\* only while few bytes wait.
LEMMA BacklogEnvironment ==
  ASSUME IInv, BacklogInv,
         \/ \E a \in Adr : FpgaRead(a) \/ FpgaWrite(a)
         \/ LoseRequest \/ Glitch
         \/ \E a \in Volatile : RegisterChange(a)
  PROVE  BacklogInv'
<1>1. handler' = handler /\ TX_sentRequest' = TX_sentRequest
  BY IInvEnvironment DEF engine
<1>2. ReadsOf(txline)' = ReadsOf(txline')
  BY DEF ReadsOf
<1>3. CASE txline # << >> /\ txline' = Tail(txline)
           /\ \/ rx' = rx
              \/ Head(txline)[1] = REQ_READ /\ \E a \in Adr : rx' = Append(rx, ReplyByte(regs[a], a))
  <2>1. Len(txline') = Len(txline) - 1
    BY <1>3, BacklogNumbers, HeadTailProperties
  <2>2. Cardinality(ReadsOf(txline'))
          = Cardinality(ReadsOf(txline)) - (IF Head(txline)[1] = REQ_READ THEN 1 ELSE 0)
    BY <1>3, BacklogNumbers, ReadsOfTail
  <2>3. rx' = rx \/ (Head(txline)[1] = REQ_READ /\ Len(rx') = Len(rx) + 1)
    BY <1>3, BacklogNumbers
  <2> QED BY <1>1, <1>2, <2>1, <2>2, <2>3, BacklogNumbers DEF BacklogInv
<1>4. CASE Glitch
  <2>1. txline' = txline /\ Len(rx) < MaxGlitch /\ Len(rx') = Len(rx) + 1
    BY <1>4, BacklogNumbers DEF Glitch
  <2> QED BY <1>1, <1>2, <2>1, BacklogNumbers DEF BacklogInv
<1>5. CASE \E a \in Volatile : RegisterChange(a)
  <2>1. txline' = txline /\ rx' = rx
    BY <1>5 DEF RegisterChange
  <2> QED BY <1>1, <1>2, <2>1 DEF BacklogInv
<1> QED BY <1>3, <1>4, <1>5 DEF FpgaRead, FpgaWrite, LoseRequest, NextRequest

LEMMA BacklogNext == IInv /\ BacklogInv /\ [Next]_vars => BacklogInv'
<1> SUFFICES ASSUME IInv, BacklogInv, [Next]_vars PROVE BacklogInv'
  OBVIOUS
<1>1. CASE Transmitt
  BY <1>1, BacklogTransmitt
<1>2. CASE Receive
  BY <1>2, BacklogReceive
<1>3. CASE \/ \E a \in Adr : FpgaRead(a) \/ FpgaWrite(a)
           \/ LoseRequest \/ Glitch
           \/ \E a \in Volatile : RegisterChange(a)
  BY <1>3, BacklogEnvironment
<1>4. CASE UNCHANGED vars
  BY <1>4 DEF BacklogInv, ReadsOf, vars, engine
<1> QED BY <1>1, <1>2, <1>3, <1>4 DEF Next

\* The reads under way and the bytes waiting never exceed what the line and the
\* noise can hold by more than one: retries, which send a read for every period
\* without an answer, do not make a backlog that outgrows the buffer.
THEOREM BacklogStaysBounded == Spec => []BacklogBounded
<1>1. IInv /\ BacklogInv => BacklogBounded
  <2> SUFFICES ASSUME IInv, BacklogInv PROVE BacklogBounded
    OBVIOUS
  <2> QED BY BacklogNumbers DEF BacklogInv, BacklogBounded, ReadsOf
<1> QED BY <1>1, IInvInit, IInvNext, BacklogInit, BacklogNext, PTL DEF Spec

-----------------------------------------------------------------------------
(* The abstract specification *)

\* Transmitt issues the next request of the round of sweeps or repeats the
\* outstanding one, which is invisible; Receive acknowledges it or not; and a
\* byte may arrive.
LEMMA StepRefines == IInv /\ [Next]_vars => [Sweep!Next]_(Sweep!vars)
<1> SUFFICES ASSUME IInv, [Next]_vars PROVE [Sweep!Next]_(Sweep!vars)
  OBVIOUS
<1> USE DEF REQ_IDLE, REQ_READ, REQ_WRITE_0, REQ_WRITE_1, REQ_REPEAT
<1>1. CASE Transmitt /\ TX_sentRequest = REQ_IDLE
  <2>1. PICK code \in NewCodes :
          /\ code \in {REQ_READ, REQ_WRITE_0, REQ_WRITE_1}
          /\ code = REQ_READ <=> txReq = REQ_READ
          /\ tx_data' = <<code, REQ_ADDRESS>>
          /\ PositionOf(tx_data') = Sweep!Succ(PositionOf(tx_data))
    BY <1>1, NewRequest
  <2>2. rx' = rx /\ (TX_sentRequest' # REQ_IDLE <=> code = REQ_READ)
    BY <1>1, <2>1 DEF Transmitt, SendNew
  <2>3. REQ_ADDRESS \in 0 .. GBT_DATA_WIDTH - 1
    BY DEF IInv, TypeOK, Adr
  <2>4. Sweep!IsRead(PositionOf(tx_data')) <=> code = REQ_READ
    BY <2>1, <2>3, Sizes DEF Sweep!IsRead, PositionOf
  <2>5. Sweep!Issue
    BY <1>1, <2>1, <2>2, <2>4 DEF Sweep!Issue, Sweep!Succ, Sweep!IsRead, PositionOf
  <2> QED BY <2>5 DEF Sweep!Next
<1>2. CASE Transmitt /\ TX_sentRequest # REQ_IDLE
  <2>1. TX_sentRequest = REQ_REPEAT /\ TX_sentRequest' = REQ_READ /\ tx_data' = tx_data
    BY <1>2, TransmittCases DEF SendRepeat
  <2> QED BY <1>2, <2>1 DEF Transmitt, Sweep!vars, PositionOf
<1>3. CASE Receive /\ TX_sentRequest = REQ_READ
  <2>1. rx \in Seq(Byte) /\ tx_data' = tx_data
    BY <1>3 DEF Receive, IInv, TypeOK
  <2>2. CASE rx = << >>
    <3>1. PollCount = 0 /\ rx' = << >>
      BY <1>3, <2>2, EnvAssumption DEF Receive, PollCount, Unpolled
    <3>2. TX_sentRequest' = REQ_REPEAT
      BY <1>3, <3>1 DEF Receive, AfterPoll
    <3> QED BY <1>3, <2>1, <2>2, <3>1, <3>2 DEF Sweep!vars, PositionOf
  <2>3. CASE rx # << >>
    <3>1. PollCount > 0
      BY <2>1, <2>3, EnvAssumption, EmptySeq DEF PollCount
    <3>2. TX_sentRequest' = REQ_IDLE
      BY <1>3, <3>1 DEF Receive, AfterPoll
    <3>3. Sweep!Acknowledge
      BY <1>3, <2>1, <2>3, <3>2 DEF Sweep!Acknowledge, PositionOf
    <3> QED BY <3>3 DEF Sweep!Next
  <2> QED BY <2>2, <2>3
<1>4. CASE Receive /\ TX_sentRequest # REQ_READ
  BY <1>4 DEF Receive, Sweep!vars, PositionOf
<1>5. CASE \/ \E a \in Adr : FpgaRead(a) \/ FpgaWrite(a)
           \/ LoseRequest \/ Glitch
           \/ \E a \in Volatile : RegisterChange(a)
  <2>1. UNCHANGED <<PositionOf(tx_data), TX_sentRequest # REQ_IDLE>>
    BY <1>5, IInvEnvironment DEF engine, PositionOf
  <2>2. rx' = rx \/ \E b : rx' = Append(rx, b)
    BY <1>5 DEF FpgaRead, FpgaWrite, LoseRequest, Glitch, RegisterChange
  <2>3. rx' = rx \/ rx' # << >>
    <3>1. rx \in Seq(Byte)
      BY DEF IInv, TypeOK
    <3> QED BY <2>2, <3>1
  <2> QED BY <2>1, <2>3 DEF Sweep!vars, Sweep!Next, Sweep!Arrive
<1>6. CASE UNCHANGED vars
  BY <1>6 DEF vars, engine, Sweep!vars, PositionOf
<1> QED BY <1>1, <1>2, <1>3, <1>4, <1>5, <1>6 DEF Next

\* The polling engine implements the abstract round of sweeps: it reads all
\* addresses in order, then writes all in order, and leaves no read before a
\* byte was received.  (That it goes on for ever is checked, not proved.)
THEOREM PollImplementsSweep == Spec => Sweep!Safety
<1>1. Init => Sweep!Init
  BY DEF Init, Sweep!Init, PositionOf, REQ_READ, REQ_IDLE
<1> QED BY <1>1, IInvInit, IInvNext, StepRefines, PTL DEF Spec, Sweep!Safety
=============================================================================
