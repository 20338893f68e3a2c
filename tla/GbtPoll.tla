------------------------------ MODULE GbtPoll ------------------------------
(***************************************************************************)
(* The polling engine of main.c: timer_handler(), which calls Transmitt()  *)
(* and then Receive(), with the serial line and the FPGA at its other end. *)
(*                                                                         *)
(* Here a handler runs to its end before the next one starts, as under the *)
(* Windows timer (WT_EXECUTEINTIMERTHREAD) or when a Linux handler always  *)
(* beats the timer's period.  The two calls are two steps, so that answers *)
(* may arrive between them.  The comport is open.  main() never starts the *)
(* timer at this commit; this is the engine as installed by                *)
(* start_timer(RX_TIMER, timer_handler).                                   *)
(***************************************************************************)
EXTENDS GbtWire, GbtSignals, Sequences, FiniteSets, FiniteSetsExt

CONSTANTS
  GBT_SWTABLE,     \* the wanted value of every switch; no code assigns it
  PollSize,        \* bytes one Receive can take, sizeof(buf) = 128
  Volatile,        \* addresses whose register changes by itself: probes, and
                   \* switches hit by the bit flips main.h describes
  Glitches,        \* bytes that line noise can add
  MaxInFlight,     \* requests that driver and line hold; further writes fail
  MaxGlitch        \* bound: noise only while fewer bytes than this are buffered

ASSUME TableAssumption == GBT_SWTABLE \in [0 .. MAX_SWITCHES - 1 -> Bit]
ASSUME EnvAssumption ==
  /\ PollSize \in Nat \ {0}
  /\ Volatile \subseteq 0 .. GBT_DATA_WIDTH - 1
  /\ Glitches \subseteq {b \in Byte : AdrOf(b) >= GBT_DATA_WIDTH}
  /\ MaxInFlight \in Nat \ {0}
  /\ MaxGlitch \in Nat

VARIABLES
  TX_sentRequest,  \* REQ_IDLE, REQ_READ or REQ_REPEAT
  TX_sentAddress,  \* assigned at every send, read nowhere
  txReq,           \* the running sweep: REQ_READ or REQ_WRITE_0
  REQ_ADDRESS,     \* address of the next new request
  tx_data,         \* the last request, <<code, address>>
  sSwitch,         \* displayed value of every switch
  sProbe,          \* displayed value of every probe
  handler,         \* "Transmitt" or "Receive": the call the timer runs next
  txline,          \* requests sent and not yet at the FPGA
  rx,              \* bytes received and not yet polled
  regs             \* the FPGA's register at every address

engine == <<TX_sentRequest, TX_sentAddress, txReq, REQ_ADDRESS, tx_data>>
display == <<sSwitch, sProbe>>
vars == <<engine, display, handler, txline, rx, regs>>

\* What the signal window shows for address a.
Displayed(a) == IF a \in SwitchAdr THEN sSwitch[a] ELSE sProbe[a - MAX_SWITCHES]

-----------------------------------------------------------------------------
(* Transmitt() *)

\* RS232_SendBuf.  The port is opened with O_NDELAY: write() may fail, does so
\* when the driver's buffer is full, and Transmitt does not look at the result.
\* What the FPGA makes of half a request is taken for none.
SendBuf(buf) ==
  \/ Len(txline) < MaxInFlight /\ txline' = Append(txline, buf)
  \/ UNCHANGED txline

\* Mutant: the entry of the next switch.
TableEntriesShifted(a) ==
  IF a \in SwitchAdr THEN {GBT_SWTABLE[(a + 1) % MAX_SWITCHES]} ELSE Bit

\* The entries the table lookup can return.  Write sweeps run over all
\* addresses, so at a probe's address it reads past the table: any value.
TableEntries(a) == IF a \in SwitchAdr THEN {GBT_SWTABLE[a]} ELSE Bit

WriteCode(entry) == IF entry = 0 THEN REQ_WRITE_0 ELSE REQ_WRITE_1

\* The request codes a new request can carry: tx_data[0].
NewCodes ==
  CASE txReq = REQ_READ    -> {REQ_READ}
    [] txReq = REQ_WRITE_0 -> {WriteCode(e) : e \in TableEntries(REQ_ADDRESS)}
    [] OTHER               -> {tx_data[1]}

\* Mutant: one address too many.
AdvanceCursorBeyond ==
  IF REQ_ADDRESS < GBT_DATA_WIDTH
    THEN REQ_ADDRESS' = REQ_ADDRESS + 1 /\ UNCHANGED txReq
    ELSE /\ REQ_ADDRESS' = 0
         /\ txReq' = IF txReq = REQ_READ THEN REQ_WRITE_0 ELSE REQ_READ

\* Mutant: the switch over txReq misses its first case.
AdvanceCursorReading ==
  IF REQ_ADDRESS < GBT_DATA_WIDTH - 1
    THEN REQ_ADDRESS' = REQ_ADDRESS + 1 /\ UNCHANGED txReq
    ELSE REQ_ADDRESS' = 0 /\ txReq' = REQ_READ

\* On to the next address, and past the last one to the other kind of sweep.
AdvanceCursor ==
  IF REQ_ADDRESS < GBT_DATA_WIDTH - 1
    THEN REQ_ADDRESS' = REQ_ADDRESS + 1 /\ UNCHANGED txReq
    ELSE /\ REQ_ADDRESS' = 0
         /\ txReq' = IF txReq = REQ_READ THEN REQ_WRITE_0 ELSE REQ_READ

SendNew ==
  /\ \E code \in NewCodes :
       /\ tx_data' = <<code, REQ_ADDRESS>>
       /\ SendBuf(<<code, REQ_ADDRESS>>)
  /\ TX_sentRequest' = IF txReq = REQ_READ THEN REQ_READ ELSE TX_sentRequest
  /\ TX_sentAddress' = REQ_ADDRESS
  /\ AdvanceCursor

\* Mutant: the repeated request is for TX_sentAddress.
SendRepeatAtCursor ==
  /\ tx_data' = <<REQ_READ, REQ_ADDRESS>>
  /\ SendBuf(tx_data')
  /\ TX_sentRequest' = REQ_READ
  /\ TX_sentAddress' = REQ_ADDRESS
  /\ UNCHANGED <<txReq, REQ_ADDRESS>>

\* Mutant: a repetition moves the cursor as well.
SendRepeatAdvancing ==
  /\ SendBuf(tx_data)
  /\ TX_sentRequest' = REQ_READ
  /\ TX_sentAddress' = REQ_ADDRESS
  /\ UNCHANGED tx_data
  /\ AdvanceCursor

SendRepeat ==
  /\ SendBuf(tx_data)
  /\ TX_sentRequest' = REQ_READ
  /\ TX_sentAddress' = REQ_ADDRESS
  /\ UNCHANGED <<txReq, REQ_ADDRESS, tx_data>>

Transmitt ==
  /\ handler = "Transmitt"
  /\ IF TX_sentRequest = REQ_IDLE THEN SendNew
     ELSE IF TX_sentRequest = REQ_REPEAT THEN SendRepeat
     ELSE UNCHANGED <<engine, txline>>
  /\ handler' = "Receive"
  /\ UNCHANGED <<display, rx, regs>>

-----------------------------------------------------------------------------
(* Receive() *)

\* The signal a received byte is stored in.
Target(b) == SignalAt(AdrOf(b))

\* The position of the last byte of buf for a target, 0 if there is none.
LastFor(buf, target) ==
  LET hits == {i \in DOMAIN buf : Target(buf[i]) = target}
  IN IF hits = {} THEN 0 ELSE Max(hits)

\* Value of a signal after the bytes of buf are stored in order: the last
\* one for it wins.
Stored(buf, target, old) ==
  IF LastFor(buf, target) = 0 THEN old ELSE DataOf(buf[LastFor(buf, target)])

\* Mutant: nothing is taken from a buffer that holds more than fits.
PollCountAllOrNothing == IF Len(rx) <= PollSize THEN Len(rx) ELSE 0

\* RS232_PollComport: whatever is buffered, at most PollSize bytes, in order.
PollCount == IF Len(rx) < PollSize THEN Len(rx) ELSE PollSize
Polled(buffer) == SubSeq(buffer, 1, PollCount)
\* Mutant: the newest bytes are dropped instead of those taken.
UnpolledOldest(buffer) == SubSeq(buffer, 1, Len(buffer) - PollCount)

Unpolled(buffer) == SubSeq(buffer, PollCount + 1, Len(buffer))

\* Mutant: no "else TX_sentRequest = REQ_REPEAT".
AfterPollGivingUp(n) == REQ_IDLE

\* n bytes were received after a read request.
AfterPoll(n) == IF n > 0 THEN REQ_IDLE ELSE REQ_REPEAT

Receive ==
  /\ handler = "Receive"
  /\ IF TX_sentRequest = REQ_READ
       THEN /\ rx' = Unpolled(rx)
            /\ TX_sentRequest' = AfterPoll(PollCount)
            /\ sSwitch' = [k \in SwitchAdr |->
                             Stored(Polled(rx), <<"switch", k>>, sSwitch[k])]
            /\ sProbe' = [k \in ProbeIndex |->
                             Stored(Polled(rx), <<"probe", k>>, sProbe[k])]
       ELSE UNCHANGED <<rx, TX_sentRequest, display>>
  /\ handler' = "Transmitt"
  /\ UNCHANGED <<TX_sentAddress, txReq, REQ_ADDRESS, tx_data, txline, regs>>

-----------------------------------------------------------------------------
(* The FPGA and the line *)

NextRequest(codes, a) ==
  /\ txline # << >>
  /\ Head(txline)[1] \in codes /\ Head(txline)[2] = a
  /\ txline' = Tail(txline)

FpgaRead(a) ==
  /\ NextRequest({REQ_READ}, a)
  /\ rx' = Append(rx, ReplyByte(regs[a], a))
  /\ UNCHANGED <<engine, display, handler, regs>>

\* Probes are read-only (signals.c: "PROBE (Read Only) or SWITCH (Writable)").
FpgaWrite(a) ==
  /\ NextRequest(WriteRequests, a)
  /\ regs' = IF a \in SwitchAdr
               THEN [regs EXCEPT ![a] = WrittenBit(Head(txline)[1])]
               ELSE regs
  /\ UNCHANGED <<engine, display, handler, rx>>

\* A request that was sent, or the answer to it, is lost.
LoseRequest ==
  /\ txline # << >>
  /\ txline' = Tail(txline)
  /\ UNCHANGED <<engine, display, handler, rx, regs>>

\* "some of the received addresses have higher values than the GBT_DATA_WIDTH"
Glitch ==
  /\ Len(rx) < MaxGlitch
  /\ \E b \in Glitches : rx' = Append(rx, b)
  /\ UNCHANGED <<engine, display, handler, txline, regs>>

RegisterChange(a) ==
  /\ regs' = [regs EXCEPT ![a] = 1 - @]
  /\ UNCHANGED <<engine, display, handler, txline, rx>>

-----------------------------------------------------------------------------
Init ==
  /\ TX_sentRequest = REQ_IDLE
  /\ TX_sentAddress = 0
  /\ txReq = REQ_READ
  /\ REQ_ADDRESS = 0
  /\ tx_data = <<0, 0>>
  /\ sSwitch = GBT_SWTABLE                            \* main() shows the table
  /\ sProbe = [k \in ProbeIndex |-> 85]      \* and 'U' for a probe
  /\ handler = "Transmitt"
  /\ txline = << >>
  /\ rx = << >>
  /\ regs \in [Adr -> Bit]

Next ==
  \/ Transmitt
  \/ Receive
  \/ \E a \in Adr : FpgaRead(a)
  \/ \E a \in Adr : FpgaWrite(a)
  \/ LoseRequest
  \/ Glitch
  \/ \E a \in Volatile : RegisterChange(a)

Spec == Init /\ [][Next]_vars

\* Transmitt hands a request for an address to the driver.
Requests(codes, a) == Transmitt /\ tx_data'[1] \in codes /\ tx_data'[2] = a

\* The timer keeps firing and its handler returns.  The line is fair: a
\* request that Transmitt makes again and again does not fail or get lost every
\* time.
Fairness ==
  /\ WF_vars(Transmitt)
  /\ WF_vars(Receive)
  /\ \A a \in Adr :
       []<><<Requests({REQ_READ}, a)>>_vars => []<><<FpgaRead(a)>>_vars
  /\ \A a \in SwitchAdr :
       []<><<Requests(WriteRequests, a)>>_vars => []<><<FpgaWrite(a)>>_vars

FairSpec == Spec /\ Fairness
-----------------------------------------------------------------------------
(* Properties *)

\* The type of every variable; the handlers leave the engine READ only while
\* Receive is still to come.
TypeOK ==
  /\ TX_sentRequest \in {REQ_IDLE, REQ_READ, REQ_REPEAT}
  /\ TX_sentAddress \in Adr
  /\ txReq \in {REQ_READ, REQ_WRITE_0}
  /\ REQ_ADDRESS \in Adr
  /\ tx_data \in {<<0, 0>>} \cup ({REQ_READ, REQ_WRITE_0, REQ_WRITE_1} \X Adr)
  /\ sSwitch \in [SwitchAdr -> Byte]
  /\ sProbe \in [ProbeIndex -> Byte]
  /\ handler \in {"Transmitt", "Receive"}
  /\ txline \in Seq({REQ_READ, REQ_WRITE_0, REQ_WRITE_1} \X Adr)
  /\ rx \in Seq(Byte)
  /\ regs \in [Adr -> Bit]

\* The position of a request in the round of sweeps, see GbtSweep; the one
\* "before" the first request is the last write.
PositionOf(req) ==
  IF req[1] = REQ_READ THEN req[2]
  ELSE IF req[1] = 0 THEN 2 * GBT_DATA_WIDTH - 1
  ELSE GBT_DATA_WIDTH + req[2]

Sweep == INSTANCE GbtSweep WITH
  Width <- GBT_DATA_WIDTH,
  last <- PositionOf(tx_data),
  waiting <- TX_sentRequest # REQ_IDLE,
  heard <- rx # << >>

\* The cursor is always one position after the request in tx_data, and only a
\* read is ever outstanding: a retry never sends a write a second time, and
\* never sends the address the cursor has already moved to.
CursorCoherent ==
  /\ (IF txReq = REQ_READ THEN 0 ELSE GBT_DATA_WIDTH) + REQ_ADDRESS
       = Sweep!Succ(PositionOf(tx_data))
  /\ TX_sentRequest # REQ_IDLE => tx_data[1] = REQ_READ
  /\ handler = "Transmitt" => TX_sentRequest # REQ_READ
  /\ handler = "Receive" => TX_sentRequest # REQ_REPEAT

\* A write request for a switch carries the value the table wants for it
\* (main.h: "write to the GBT-fpga with the switch values from this table"),
\* whatever was lost, repeated or delayed before it.
WritesCarryTable ==
  \A i \in 1 .. Len(txline) :
    (txline[i][1] \in WriteRequests /\ txline[i][2] \in SwitchAdr)
      => WrittenBit(txline[i][1]) = GBT_SWTABLE[txline[i][2]]

\* The answers do not pile up: retries send more read requests than are
\* needed, and still the reads on the line and the bytes not yet polled stay
\* within one more than what the line and the noise can hold.
BacklogBounded ==
  LET reads == {i \in DOMAIN txline : txline[i][1] = REQ_READ}
  IN Cardinality(reads) + Len(rx) <= MaxInFlight + MaxGlitch + 1

\* The engine keeps its abstract promise (GbtSweep): the requests are issued
\* round and round in order, a read is left only when Receive finds a byte,
\* and this goes on for ever, through losses, retries and noise.
SweepsForever == Sweep!Spec

\* A switch whose register flips by itself is set back to the table's value
\* (main.h: "This is to prevent any switch bits from flipping").
SwitchesRestored ==
  \A a \in SwitchAdr : []<>(regs[a] = GBT_SWTABLE[a])

\* A register that stops changing is in the end displayed as it is, although
\* answers are lost, late and taken for answers to other requests.
DisplayConverges ==
  \A a \in Adr, v \in Bit :
    <>[](regs[a] = v) => <>[](Displayed(a) = v)

\* What the sources say of probes (signals.c: "PROBE (Read Only)"): no write
\* request is sent for one.
WritesOnlySwitches ==
  \A i \in 1 .. Len(txline) :
    txline[i][1] \in WriteRequests => txline[i][2] \in SwitchAdr
=============================================================================
