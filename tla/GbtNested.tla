------------------------------ MODULE GbtNested -----------------------------
(***************************************************************************)
(* The handlers of GbtPoll under the Linux timer of timer.c.  start_timer  *)
(* installs timer_sig_handler with SA_NOMASK, so a SIGALRM interrupts a    *)
(* handler that is still running, after any statement: a whole handler     *)
(* runs inside the first one, on the same globals.                         *)
(*                                                                         *)
(* One step for every condition, load and assignment of a global, on a     *)
(* stack of running handlers.  The line is reduced to the newest request   *)
(* and to whether there are bytes to poll; what the bytes say is left to   *)
(* GbtPoll.  A write() that fails is a request that is lost at once.       *)
(***************************************************************************)
EXTENDS GbtWire, Sequences

CONSTANTS
  MAX_SWITCHES, GBT_DATA_WIDTH, GBT_SWTABLE,   \* as in GbtPoll
  MaxDepth,    \* bound: handlers running inside one another
  MaxNested    \* bound: how often a handler is interrupted by another

ASSUME NestedAssumption ==
  /\ MAX_SWITCHES \in Nat \ {0}
  /\ GBT_DATA_WIDTH \in Nat /\ GBT_DATA_WIDTH > MAX_SWITCHES
  /\ GBT_DATA_WIDTH <= 128                     \* addresses have seven bits
  /\ GBT_SWTABLE \in [0 .. MAX_SWITCHES - 1 -> Bit]
  /\ MaxDepth \in Nat \ {0}
  /\ MaxNested \in Nat

VARIABLES
  TX_sentRequest, txReq, REQ_ADDRESS,   \* as in GbtPoll
  tx_data,   \* two bytes, assigned one at a time
  stack,     \* the running handlers, the interrupted ones first: the place of
             \* each, and the value it holds in a register or a local variable
  wire,      \* the newest request, while the FPGA has not taken it
  bytes,     \* are there received bytes to poll?
  nested     \* the interruptions so far

globals == <<TX_sentRequest, txReq, REQ_ADDRESS, tx_data>>
vars == <<globals, stack, wire, bytes, nested>>

SwitchAdr == 0 .. MAX_SWITCHES - 1
NoRequest == <<0, 0>>

-----------------------------------------------------------------------------
(* The running handler *)

top == stack[Len(stack)]
At(place) == stack # << >> /\ top.place = place
Hold(place, value) ==
  stack' = [stack EXCEPT ![Len(stack)] = [place |-> place, value |-> value]]
Goto(place) == Hold(place, 0)
Return == stack' = SubSeq(stack, 1, Len(stack) - 1)

\* Transmitt(): a new request, ...
Choose ==
  /\ At("choose")
  /\ Goto(IF TX_sentRequest = REQ_IDLE THEN "kind" ELSE "again")
  /\ UNCHANGED <<globals, wire, bytes, nested>>

\* ... the last one again, or none?
Again ==
  /\ At("again")
  /\ Goto(IF TX_sentRequest = REQ_REPEAT THEN "repeat" ELSE "await")
  /\ UNCHANGED <<globals, wire, bytes, nested>>

\* A read, ...
Kind ==
  /\ At("kind")
  /\ Goto(IF txReq = REQ_READ THEN "read" ELSE "other")
  /\ UNCHANGED <<globals, wire, bytes, nested>>

\* ... or a write?  When another handler has turned txReq in between it is
\* neither, and tx_data[0] stays what it is.
Other ==
  /\ At("other")
  /\ Goto(IF txReq = REQ_WRITE_0 THEN "table" ELSE "address")
  /\ UNCHANGED <<globals, wire, bytes, nested>>

Read ==
  /\ At("read")
  /\ TX_sentRequest' = REQ_READ
  /\ Hold("code", REQ_READ)
  /\ UNCHANGED <<txReq, REQ_ADDRESS, tx_data, wire, bytes, nested>>

\* The codes of a write: from the table's entry, or any value beyond its end.
WriteCodes ==
  {IF entry = 0 THEN REQ_WRITE_0 ELSE REQ_WRITE_1 :
     entry \in IF REQ_ADDRESS \in SwitchAdr THEN {GBT_SWTABLE[REQ_ADDRESS]} ELSE Bit}

\* Mutant: a write is awaited like a read.
TableAwaited ==
  /\ At("table")
  /\ \E code \in WriteCodes : Hold("code", code)
  /\ TX_sentRequest' = REQ_READ
  /\ UNCHANGED <<txReq, REQ_ADDRESS, tx_data, wire, bytes, nested>>

Table ==
  /\ At("table")
  /\ \E code \in WriteCodes : Hold("code", code)
  /\ UNCHANGED <<globals, wire, bytes, nested>>

Code ==
  /\ At("code")
  /\ tx_data' = [tx_data EXCEPT ![1] = top.value]
  /\ Goto("address")
  /\ UNCHANGED <<TX_sentRequest, txReq, REQ_ADDRESS, wire, bytes, nested>>

Address ==
  /\ At("address")
  /\ tx_data' = [tx_data EXCEPT ![2] = REQ_ADDRESS]
  /\ Goto("send")
  /\ UNCHANGED <<TX_sentRequest, txReq, REQ_ADDRESS, wire, bytes, nested>>

Send ==
  /\ At("send")
  /\ wire' = tx_data
  /\ Goto("check")
  /\ UNCHANGED <<globals, bytes, nested>>

\* Mutant: one address too many.
CheckBeyond ==
  /\ At("check")
  /\ Goto(IF REQ_ADDRESS < GBT_DATA_WIDTH THEN "load" ELSE "wrap")
  /\ UNCHANGED <<globals, wire, bytes, nested>>

\* Is there a next address in this sweep?
Check ==
  /\ At("check")
  /\ Goto(IF REQ_ADDRESS < GBT_DATA_WIDTH - 1 THEN "load" ELSE "wrap")
  /\ UNCHANGED <<globals, wire, bytes, nested>>

\* REQ_ADDRESS++ loads the byte ...
Load ==
  /\ At("load")
  /\ Hold("store", REQ_ADDRESS)
  /\ UNCHANGED <<globals, wire, bytes, nested>>

\* ... and stores it, one higher.
Store ==
  /\ At("store")
  /\ REQ_ADDRESS' = (top.value + 1) % 256
  /\ Goto("await")
  /\ UNCHANGED <<TX_sentRequest, txReq, tx_data, wire, bytes, nested>>

Wrap ==
  /\ At("wrap")
  /\ REQ_ADDRESS' = 0
  /\ Goto("flip")
  /\ UNCHANGED <<TX_sentRequest, txReq, tx_data, wire, bytes, nested>>

\* The switch over txReq decides ...
Flip ==
  /\ At("flip")
  /\ Hold("turn", IF txReq = REQ_READ THEN REQ_WRITE_0 ELSE REQ_READ)
  /\ UNCHANGED <<globals, wire, bytes, nested>>

\* ... what is assigned.
Turn ==
  /\ At("turn")
  /\ txReq' = top.value
  /\ Goto("await")
  /\ UNCHANGED <<TX_sentRequest, REQ_ADDRESS, tx_data, wire, bytes, nested>>

Repeat ==
  /\ At("repeat")
  /\ TX_sentRequest' = REQ_READ
  /\ Goto("resend")
  /\ UNCHANGED <<txReq, REQ_ADDRESS, tx_data, wire, bytes, nested>>

Resend ==
  /\ At("resend")
  /\ wire' = tx_data
  /\ Goto("await")
  /\ UNCHANGED <<globals, bytes, nested>>

\* Receive(): is an answer awaited?
Await ==
  /\ At("await")
  /\ IF TX_sentRequest = REQ_READ THEN Goto("poll") ELSE Return
  /\ UNCHANGED <<globals, wire, bytes, nested>>

\* The buffer is emptied, and n is kept in a local variable.
Poll ==
  /\ At("poll")
  /\ Hold("idle", IF bytes THEN 1 ELSE 0)
  /\ bytes' = FALSE
  /\ UNCHANGED <<globals, wire, nested>>

Idle ==
  /\ At("idle")
  /\ TX_sentRequest' = REQ_IDLE
  /\ Hold("settle", top.value)
  /\ UNCHANGED <<txReq, REQ_ADDRESS, tx_data, wire, bytes, nested>>

\* Mutant: the read is repeated whether it was answered or not.
SettleRepeating ==
  /\ At("settle")
  /\ TX_sentRequest' = REQ_REPEAT
  /\ Return
  /\ UNCHANGED <<txReq, REQ_ADDRESS, tx_data, wire, bytes, nested>>

\* Mutant: the number of bytes is taken for the state.
SettleCount ==
  /\ At("settle")
  /\ TX_sentRequest' = top.value
  /\ Return
  /\ UNCHANGED <<txReq, REQ_ADDRESS, tx_data, wire, bytes, nested>>

Settle ==
  /\ At("settle")
  /\ TX_sentRequest' = IF top.value > 0 THEN REQ_IDLE ELSE REQ_REPEAT
  /\ Return
  /\ UNCHANGED <<txReq, REQ_ADDRESS, tx_data, wire, bytes, nested>>

Handler ==
  \/ Choose \/ Again \/ Kind \/ Other \/ Read \/ Table \/ Code \/ Address \/ Send
  \/ Check \/ Load \/ Store \/ Wrap \/ Flip \/ Turn
  \/ Repeat \/ Resend
  \/ Await \/ Poll \/ Idle \/ Settle

-----------------------------------------------------------------------------
(* The timer and the line *)

Push == stack' = Append(stack, [place |-> "choose", value |-> 0])

\* SIGALRM while the program is in its main loop ...
Tick ==
  /\ stack = << >>
  /\ Push
  /\ UNCHANGED <<globals, wire, bytes, nested>>

\* ... and while a handler runs.
Interrupt ==
  /\ stack # << >> /\ Len(stack) < MaxDepth
  /\ nested < MaxNested
  /\ Push
  /\ nested' = nested + 1
  /\ UNCHANGED <<globals, wire, bytes>>

\* The FPGA answers reads of the addresses it has, and nothing else.
Answer ==
  /\ wire[1] = REQ_READ /\ wire[2] < GBT_DATA_WIDTH
  /\ bytes' = TRUE
  /\ wire' = NoRequest
  /\ UNCHANGED <<globals, stack, nested>>

\* The request or its answer is lost, or the FPGA takes it without an answer.
NoAnswer ==
  /\ wire # NoRequest
  /\ wire' = NoRequest
  /\ UNCHANGED <<globals, stack, bytes, nested>>

Noise ==
  /\ bytes' = TRUE
  /\ UNCHANGED <<globals, stack, wire, nested>>

Init ==
  /\ TX_sentRequest = REQ_IDLE
  /\ txReq = REQ_READ
  /\ REQ_ADDRESS = 0
  /\ tx_data = <<0, 0>>
  /\ stack = << >>
  /\ wire = NoRequest
  /\ bytes = FALSE
  /\ nested = 0

Next == Handler \/ Tick \/ Interrupt \/ Answer \/ NoAnswer \/ Noise

Spec == Init /\ [][Next]_vars

\* The timer keeps firing, handlers go on, and not every answer to a read that
\* keeps being sent is lost.
FairSpec == Spec /\ WF_vars(Handler) /\ WF_vars(Tick) /\ SF_vars(Answer)
-----------------------------------------------------------------------------
(* Properties *)

Places == {"choose", "again", "kind", "other", "read", "table", "code", "address", "send",
           "check", "load", "store", "wrap", "flip", "turn", "repeat", "resend",
           "await", "poll", "idle", "settle"}
Held(place) ==
  CASE place = "code" -> {REQ_READ, REQ_WRITE_0, REQ_WRITE_1}
    [] place = "turn" -> {REQ_READ, REQ_WRITE_0}
    [] OTHER          -> Byte
Frame == {f \in [place : Places, value : Byte] : f.value \in Held(f.place)}

\* The type of every variable.
TypeOK ==
  /\ TX_sentRequest \in {REQ_IDLE, REQ_READ, REQ_REPEAT}
  /\ txReq \in {REQ_READ, REQ_WRITE_0}
  /\ REQ_ADDRESS \in Byte
  /\ tx_data \in {0, REQ_READ, REQ_WRITE_0, REQ_WRITE_1} \X Byte
  /\ stack \in Seq(Frame) /\ Len(stack) <= MaxDepth
  /\ wire \in {0, REQ_READ, REQ_WRITE_0, REQ_WRITE_1} \X Byte
  /\ bytes \in BOOLEAN
  /\ nested \in 0 .. MaxNested

\* How far interruptions can carry the cursor past the last address: one
\* further for every handler that was between its check and its increment.
OverrunBounded == REQ_ADDRESS <= GBT_DATA_WIDTH - 1 + (MaxDepth - 1)

\* Where the one handler stands that runs while none has been interrupted.
Place == IF stack = << >> THEN "main" ELSE stack[1].place

\* The positions, as in GbtSweep, of a request and of the cursor.
PositionOf(req) ==
  IF req[1] = REQ_READ THEN req[2]
  ELSE IF req[1] = 0 THEN 2 * GBT_DATA_WIDTH - 1
  ELSE GBT_DATA_WIDTH + req[2]
Cursor == (IF txReq = REQ_READ THEN 0 ELSE GBT_DATA_WIDTH) + REQ_ADDRESS

\* A request is issued when it is sent; until then tx_data is in the making. A
\* read is acknowledged when bytes are polled, before the globals say so.
Making == Place \in {"code", "address", "send"}
Issued ==
  IF Making THEN IF Cursor = 0 THEN 2 * GBT_DATA_WIDTH - 1 ELSE Cursor - 1
  ELSE PositionOf(tx_data)
Unacknowledged ==
  CASE Making                       -> FALSE
    [] Place \in {"idle", "settle"} -> stack[1].value = 0
    [] OTHER                        -> TX_sentRequest # REQ_IDLE

Sweep == INSTANCE GbtSweep WITH
  Width <- GBT_DATA_WIDTH, last <- Issued, waiting <- Unacknowledged, heard <- bytes

\* As long as no handler has been interrupted, the statements one after another
\* do what GbtSweep says, which is also what GbtPoll does in two steps: each
\* request is the next of the sweeps, made of both its bytes when it is sent,
\* and a repetition sends the last read again.
UninterruptedSweeps ==
  Sweep!Init /\ [][nested' = 0 => Sweep!Next \/ UNCHANGED Sweep!vars]_vars

\* However the handlers interrupted one another, the engine gets back to the
\* start of its sweeps as long as bytes keep arriving.
RecoversWhenHeard == []<>bytes => []<>(stack = << >> /\ REQ_ADDRESS = 0)

\* What main.h says of the engine ("The software will continously write"): a
\* new sweep starts again and again.
SweepsGoOn == []<>(stack = << >> /\ REQ_ADDRESS = 0)
=============================================================================
