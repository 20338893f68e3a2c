-------------------------- MODULE GbtNestedProofs ---------------------------
(***************************************************************************)
(* Proofs about handlers that interrupt one another, for any depth and any *)
(* number of interruptions.                                                *)
(***************************************************************************)
EXTENDS GbtNested, SequenceTheorems, TLAPS

Request == {0, REQ_READ, REQ_WRITE_0, REQ_WRITE_1} \X Byte

-----------------------------------------------------------------------------
(* The stack *)

\* A frame is a place and the value a handler holds there.
LEMMA FrameParts ==
  /\ \A f \in Frame : f.place \in Places /\ f.value \in Byte /\ f.value \in Held(f.place)
  /\ \A place \in Places, value \in Byte :
       value \in Held(place) => [place |-> place, value |-> value] \in Frame
<1>1. ASSUME NEW place \in Places, NEW value \in Byte, value \in Held(place)
      PROVE  [place |-> place, value |-> value] \in Frame
  <2> DEFINE f == [place |-> place, value |-> value]
  <2>1. f \in [place : Places, value : Byte] /\ f.place = place /\ f.value = value
    OBVIOUS
  <2> HIDE DEF f
  <2>2. f \in Frame
    BY <1>1, <2>1 DEF Frame
  <2> QED BY <2>2 DEF f
<1>2. \A f \in Frame : f.place \in Places /\ f.value \in Byte /\ f.value \in Held(f.place)
  BY DEF Frame
<1> QED BY <1>1, <1>2

\* Most places hold nothing, a byte or whatever was held before.
LEMMA HeldBytes ==
  \A place : place \notin {"code", "turn"} => Held(place) = Byte
BY DEF Held

LEMMA TopTyped ==
  ASSUME TypeOK, stack # << >>
  PROVE  /\ stack \in Seq(Frame) /\ Len(stack) \in Nat /\ Len(stack) \in 1 .. Len(stack)
         /\ top \in Frame /\ top.value \in Byte
<1>1. stack \in Seq(Frame) /\ Len(stack) \in Nat /\ Len(stack) \in 1 .. Len(stack)
  BY EmptySeq, LenProperties DEF TypeOK
<1>2. top \in Frame
  BY <1>1, ElementOfSeq DEF top
<1>3. top.value \in Byte
  BY <1>2, FrameParts
<1> QED BY <1>1, <1>2, <1>3

\* What the steps of the running handler do to the stack.
LEMMA HoldStep ==
  ASSUME TypeOK, stack # << >>, NEW place \in Places, NEW value \in Byte,
         value \in Held(place), Hold(place, value)
  PROVE  /\ Len(stack) \in Nat /\ Len(stack) >= 1 /\ Len(stack') = Len(stack)
         /\ stack' \in Seq(Frame) /\ top \in Frame
         /\ stack'[Len(stack)] = [place |-> place, value |-> value]
         /\ \A i \in 1 .. Len(stack) : i # Len(stack) => stack'[i] = stack[i]
<1>1. /\ stack \in Seq(Frame) /\ Len(stack) \in Nat /\ Len(stack) >= 1
      /\ DOMAIN stack = 1 .. Len(stack)
  BY EmptySeq, LenProperties DEF TypeOK
<1>2. Len(stack) \in 1 .. Len(stack) /\ [place |-> place, value |-> value] \in Frame
  BY <1>1, FrameParts
<1>3. stack' \in Seq(Frame) /\ Len(stack') = Len(stack)
  BY <1>1, <1>2, ExceptSeq DEF Hold
<1>4. top \in Frame
  BY <1>1, <1>2, ElementOfSeq DEF top
<1> QED BY <1>1, <1>2, <1>3, <1>4 DEF Hold

LEMMA FirstOnes ==
  ASSUME NEW S, NEW s, NEW n \in Nat, \A i \in 1 .. n : s[i] \in S
  PROVE  /\ SubSeq(s, 1, n) \in Seq(S)
         /\ Len(SubSeq(s, 1, n)) = n
         /\ \A i \in 1 .. n : SubSeq(s, 1, n)[i] = s[i]
OBVIOUS

LEMMA ReturnStep ==
  ASSUME TypeOK, stack # << >>, Return
  PROVE  /\ Len(stack) \in Nat /\ Len(stack) >= 1 /\ Len(stack') = Len(stack) - 1
         /\ stack' \in Seq(Frame) /\ top \in Frame
         /\ \A i \in 1 .. Len(stack) - 1 : stack'[i] = stack[i]
<1>1. stack \in Seq(Frame) /\ Len(stack) \in Nat /\ Len(stack) >= 1 /\ top \in Frame
  BY TopTyped
<1>2. \A i \in 1 .. Len(stack) - 1 : stack[i] \in Frame
  BY <1>1, ElementOfSeq
<1>3. Len(stack) - 1 \in Nat
  BY <1>1
<1>4. /\ stack' \in Seq(Frame)
      /\ Len(stack') = Len(stack) - 1
      /\ \A i \in 1 .. Len(stack) - 1 : stack'[i] = stack[i]
  BY <1>2, <1>3, FirstOnes, Zenon DEF Return
<1> QED BY <1>1, <1>4

LEMMA PushStep ==
  ASSUME TypeOK, Push
  PROVE  /\ Len(stack) \in Nat /\ Len(stack') = Len(stack) + 1 /\ stack' \in Seq(Frame)
         /\ stack'[Len(stack) + 1] = [place |-> "choose", value |-> 0]
         /\ \A i \in 1 .. Len(stack) : stack'[i] = stack[i]
<1>1. stack \in Seq(Frame) /\ Len(stack) \in Nat
  BY LenProperties DEF TypeOK
<1>2. [place |-> "choose", value |-> 0] \in Frame
  <2>1. "choose" \in Places /\ 0 \in Byte /\ 0 \in Held("choose")
    BY DEF Places, Byte, Held
  <2> QED BY <2>1, FrameParts
<1> QED BY <1>1, <1>2, AppendProperties DEF Push

-----------------------------------------------------------------------------
(* Types *)

\* A step of the running handler but for its globals.
LEMMA StackTyped ==
  ASSUME TypeOK, \/ /\ stack # << >>
                    /\ \E place \in Places, value \in Byte :
                         value \in Held(place) /\ Hold(place, value)
                 \/ stack # << >> /\ Return
                 \/ Push /\ Len(stack) < MaxDepth
                 \/ UNCHANGED stack
  PROVE  stack' \in Seq(Frame) /\ Len(stack') <= MaxDepth
<1>1. Len(stack) \in Nat /\ MaxDepth \in Nat /\ Len(stack) <= MaxDepth
  BY LenProperties, NestedAssumption DEF TypeOK
<1>2. CASE /\ stack # << >>
           /\ \E place \in Places, value \in Byte : value \in Held(place) /\ Hold(place, value)
  <2>1. PICK place \in Places, value \in Byte : value \in Held(place) /\ Hold(place, value)
    BY <1>2
  <2> QED BY <1>1, <1>2, <2>1, HoldStep
<1>3. CASE stack # << >> /\ Return
  BY <1>1, <1>3, ReturnStep
<1>4. CASE Push /\ Len(stack) < MaxDepth
  BY <1>1, <1>4, PushStep
<1>5. CASE UNCHANGED stack
  BY <1>5 DEF TypeOK
<1> QED BY <1>2, <1>3, <1>4, <1>5

\* What the running handler does to the stack.
LEMMA HandlerSteps ==
  ASSUME TypeOK, Handler
  PROVE  /\ stack # << >>
         /\ \/ \E place \in Places, value \in Byte : value \in Held(place) /\ Hold(place, value)
            \/ Return
<1> DEFINE Moves == \E place \in Places, value \in Byte : value \in Held(place) /\ Hold(place,
value)
<1>1. REQ_ADDRESS \in Byte /\ 0 \in Byte /\ 1 \in Byte
  BY DEF TypeOK, Byte
<1>2. stack # << >>
  BY DEF Handler, At, Choose, Again, Kind, Other, Read, Table, Code, Address, Send, Check, Load,
         Store, Wrap, Flip, Turn, Repeat, Resend, Await, Poll, Idle, Settle
<1>3. top.value \in Byte
  BY <1>2, TopTyped
<1>4. \A place \in Places \ {"code", "turn"} : Goto(place) => Moves
  BY <1>1, HeldBytes DEF Goto
<1>5. Choose \/ Again \/ Kind \/ Other \/ Check => Moves
  <2>1. {"again", "kind", "repeat", "await", "read", "other", "table", "address", "load", "wrap"}
          \subseteq Places \ {"code", "turn"}
    BY DEF Places
  <2>2. Choose => Goto("kind") \/ Goto("again")
    BY DEF Choose
  <2>3. Again => Goto("repeat") \/ Goto("await")
    BY DEF Again
  <2>4. Kind => Goto("read") \/ Goto("other")
    BY DEF Kind
  <2>5. Other => Goto("table") \/ Goto("address")
    BY DEF Other
  <2>6. Check => Goto("load") \/ Goto("wrap")
    BY DEF Check
  <2> HIDE DEF Moves
  <2> QED BY <1>4, <2>1, <2>2, <2>3, <2>4, <2>5, <2>6
<1>6. Code \/ Address \/ Send \/ Store \/ Wrap \/ Turn \/ Repeat \/ Resend => Moves
  <2>1. {"address", "send", "check", "await", "flip", "resend"} \subseteq Places \ {"code", "turn"}
    BY DEF Places
  <2>2. Code => Goto("address")
    BY DEF Code
  <2>3. Address => Goto("send")
    BY DEF Address
  <2>4. Send => Goto("check")
    BY DEF Send
  <2>5. Store \/ Turn \/ Resend => Goto("await")
    BY DEF Store, Turn, Resend
  <2>6. Wrap => Goto("flip")
    BY DEF Wrap
  <2>7. Repeat => Goto("resend")
    BY DEF Repeat
  <2> HIDE DEF Moves
  <2> QED BY <1>4, <2>1, <2>2, <2>3, <2>4, <2>5, <2>6, <2>7
<1>7. Read \/ Table \/ Flip => Moves
  <2>1. \A place \in {"code", "turn"} : \A value \in Held(place) : Hold(place, value) => Moves
    <3>1. \A place \in {"code", "turn"} : place \in Places /\ Held(place) \subseteq Byte
      BY DEF Places, Held, Byte, REQ_READ, REQ_WRITE_0, REQ_WRITE_1
    <3> QED BY <3>1
  <2>2. /\ Held("code") = {REQ_READ, REQ_WRITE_0, REQ_WRITE_1}
        /\ Held("turn") = {REQ_READ, REQ_WRITE_0}
    BY DEF Held
  <2>3. Read => Hold("code", REQ_READ)
    BY DEF Read
  <2>4. Table => Hold("code", REQ_WRITE_0) \/ Hold("code", REQ_WRITE_1)
    BY DEF Table, WriteCodes
  <2>5. Flip => Hold("turn", REQ_READ) \/ Hold("turn", REQ_WRITE_0)
    BY DEF Flip
  <2> HIDE DEF Moves
  <2> QED BY <2>1, <2>2, <2>3, <2>4, <2>5
<1>8. Load \/ Poll \/ Idle => Moves
  <2>1. \A place \in {"store", "idle", "settle"}, value \in Byte : Hold(place, value) => Moves
    BY HeldBytes DEF Places
  <2>2. Load => Hold("store", REQ_ADDRESS)
    BY DEF Load
  <2>3. Poll => Hold("idle", 0) \/ Hold("idle", 1)
    BY DEF Poll
  <2>4. Idle => Hold("settle", top.value)
    BY DEF Idle
  <2> HIDE DEF Moves
  <2> QED BY <1>1, <1>3, <2>1, <2>2, <2>3, <2>4
<1>9. Await \/ Settle => Moves \/ Return
  <2>1. "poll" \in Places \ {"code", "turn"}
    BY DEF Places
  <2>2. Await => Goto("poll") \/ Return
    BY DEF Await
  <2>3. Settle => Return
    BY DEF Settle
  <2> HIDE DEF Moves
  <2> QED BY <1>4, <2>1, <2>2, <2>3
<1>10. Moves \/ Return
  <2> HIDE DEF Moves
  <2> QED BY <1>5, <1>6, <1>7, <1>8, <1>9 DEF Handler
<1> QED BY <1>2, <1>10

LEMMA TypeNext == ASSUME TypeOK, [Next]_vars PROVE TypeOK'
<1>1. stack' \in Seq(Frame) /\ Len(stack') <= MaxDepth
  <2>1. Len(<< >>) = 0
    BY EmptySeq
  <2>2. CASE Tick \/ Interrupt
    BY <2>1, <2>2, StackTyped, NestedAssumption DEF Tick, Interrupt
  <2>3. CASE Answer \/ NoAnswer \/ Noise \/ UNCHANGED vars
    BY <2>3, StackTyped DEF Answer, NoAnswer, Noise, vars
  <2>4. CASE Handler
    BY <2>4, HandlerSteps, StackTyped
  <2> QED BY <2>2, <2>3, <2>4 DEF Next
<1>2. /\ TX_sentRequest' \in {REQ_IDLE, REQ_READ, REQ_REPEAT}
      /\ txReq' \in {REQ_READ, REQ_WRITE_0}
  <2>1. ASSUME Turn PROVE txReq' \in {REQ_READ, REQ_WRITE_0}
    <3>1. stack # << >> /\ top.place = "turn" /\ txReq' = top.value
      BY <2>1 DEF Turn, At
    <3> QED BY <3>1, TopTyped, FrameParts DEF Held
  <2> QED BY <2>1
  DEF TypeOK, Next, Handler, vars, globals, Choose, Again, Kind, Other, Read, Table, Code,
      Address, Send, Check, Load, Store, Wrap, Flip, Turn, Repeat, Resend, Await, Poll, Idle,
      Settle, Tick, Interrupt, Answer, NoAnswer, Noise
<1>3. REQ_ADDRESS' \in Byte
  <2>1. ASSUME Store PROVE REQ_ADDRESS' \in Byte
    <3>1. stack # << >>
      BY <2>1 DEF Store, At
    <3>2. top.value \in Byte
      BY <3>1, TopTyped
    <3>3. \A b \in Byte : (b + 1) % 256 \in Byte
      BY DEF Byte
    <3> QED BY <2>1, <3>2, <3>3 DEF Store
  <2>2. 0 \in Byte /\ REQ_ADDRESS \in Byte
    BY DEF TypeOK, Byte
  <2> QED BY <2>1, <2>2 DEF Next, Handler, vars, globals, Choose, Again, Kind, Other, Read, Table,
                            Code, Address, Send, Check, Load, Wrap, Flip, Turn, Repeat, Resend,
                            Await, Poll, Idle, Settle, Tick, Interrupt, Answer, NoAnswer, Noise
<1>4. tx_data' \in Request
  <2>1. tx_data \in Request /\ REQ_ADDRESS \in Byte
    BY DEF TypeOK, Request
  <2>2. CASE Code
    <3>1. stack # << >> /\ top.place = "code" /\ tx_data' = [tx_data EXCEPT ![1] = top.value]
      BY <2>2 DEF Code, At
    <3>2. top.value \in {REQ_READ, REQ_WRITE_0, REQ_WRITE_1}
      BY <3>1, TopTyped, FrameParts DEF Held
    <3> QED BY <2>1, <3>1, <3>2 DEF Request
  <2>3. CASE Address
    BY <2>1, <2>3 DEF Address, Request
  <2> QED BY <2>1, <2>2, <2>3
  DEF Next, Handler, vars, globals, Choose, Again, Kind, Other, Read, Table, Send, Check, Load,
      Store, Wrap, Flip, Turn, Repeat, Resend, Await, Poll, Idle, Settle, Tick, Interrupt, Answer,
      NoAnswer, Noise
<1>5. wire' \in Request
  <2>1. NoRequest \in Request
    BY DEF NoRequest, Request, Byte
  <2>2. wire \in Request /\ tx_data \in Request
    BY DEF TypeOK, Request
  <2> QED BY <2>1, <2>2
  DEF Next, Handler, vars, globals, Choose, Again, Kind, Other, Read, Table, Code, Address, Send,
      Check, Load, Store, Wrap, Flip, Turn, Repeat, Resend, Await, Poll, Idle, Settle, Tick,
      Interrupt, Answer, NoAnswer, Noise
<1>6. bytes' \in BOOLEAN
  BY DEF TypeOK, Next, Handler, vars, globals, Choose, Again, Kind, Other, Read, Table, Code,
         Address, Send, Check, Load, Store, Wrap, Flip, Turn, Repeat, Resend, Await, Poll, Idle,
         Settle, Tick, Interrupt, Answer, NoAnswer, Noise
<1>7. nested' \in 0 .. MaxNested
  BY NestedAssumption
  DEF TypeOK, Next, Handler, vars, globals, Choose, Again, Kind, Other, Read, Table, Code,
      Address, Send, Check, Load, Store, Wrap, Flip, Turn, Repeat, Resend, Await, Poll, Idle,
      Settle, Tick, Interrupt, Answer, NoAnswer, Noise
<1> QED BY <1>1, <1>2, <1>3, <1>4, <1>5, <1>6, <1>7 DEF TypeOK, Request

-----------------------------------------------------------------------------
(* The cursor *)

Limit == GBT_DATA_WIDTH - 1 + (MaxDepth - 1)

\* A handler that has passed its check and not yet stored leaves room for
\* itself, as the i-th of the handlers, and for those it interrupted.
CursorInv ==
  /\ REQ_ADDRESS <= Limit
  /\ \A i \in 1 .. Len(stack) :
       /\ stack[i].place = "load" => REQ_ADDRESS + i <= Limit
       /\ stack[i].place = "store" =>
            /\ stack[i].value + 1 <= Limit
            /\ \A j \in 1 .. i - 1 : stack[j].place = "load" => stack[i].value + 1 + j <= Limit

NInv == TypeOK /\ CursorInv

\* A step that leaves the cursor, and the handlers below, as they are.
LEMMA CursorKept ==
  ASSUME NInv, UNCHANGED REQ_ADDRESS,
         \/ /\ stack # << >>
            /\ \E place \in Places \ {"load", "store"}, value \in Byte :
                 value \in Held(place) /\ Hold(place, value)
         \/ stack # << >> /\ Return
         \/ Push
         \/ UNCHANGED stack
  PROVE  CursorInv'
<1>1. TypeOK /\ CursorInv /\ Len(stack) \in Nat
  BY LenProperties DEF NInv, TypeOK
<1>2. ASSUME NEW i \in 1 .. Len(stack')
      PROVE  \/ stack'[i].place \notin {"load", "store"}
             \/ /\ i \in 1 .. Len(stack) /\ stack'[i] = stack[i]
                /\ \A j \in 1 .. i - 1 : j \in 1 .. Len(stack) /\ stack'[j] = stack[j]
  <2>1. CASE /\ stack # << >>
             /\ \E place \in Places \ {"load", "store"}, value \in Byte :
                 value \in Held(place) /\ Hold(place, value)
    <3>1. PICK place \in Places \ {"load", "store"}, value \in Byte :
            value \in Held(place) /\ Hold(place, value)
      BY <2>1
    <3>2. /\ Len(stack') = Len(stack)
          /\ stack'[Len(stack)] = [place |-> place, value |-> value]
          /\ \A j \in 1 .. Len(stack) : j # Len(stack) => stack'[j] = stack[j]
      BY <1>1, <2>1, <3>1, HoldStep
    <3>3. CASE i = Len(stack)
      BY <3>2, <3>3
    <3>4. CASE i # Len(stack)
      <4>1. i \in 1 .. Len(stack) /\ \A j \in 1 .. i - 1 : j \in 1 .. Len(stack) /\ j # Len(stack)
        BY <1>1, <3>2, <3>4
      <4> QED BY <3>2, <3>4, <4>1
    <3> QED BY <3>3, <3>4
  <2>2. CASE stack # << >> /\ Return
    <3>1. Len(stack') = Len(stack) - 1 /\ \A j \in 1 .. Len(stack) - 1 : stack'[j] = stack[j]
      BY <1>1, <2>2, ReturnStep
    <3> QED BY <1>1, <3>1
  <2>3. CASE Push
    <3>1. /\ Len(stack') = Len(stack) + 1
          /\ stack'[Len(stack) + 1] = [place |-> "choose", value |-> 0]
          /\ \A j \in 1 .. Len(stack) : stack'[j] = stack[j]
      BY <1>1, <2>3, PushStep
    <3>2. CASE i = Len(stack) + 1
      BY <3>1, <3>2
    <3>3. CASE i \in 1 .. Len(stack)
      BY <1>1, <3>1, <3>3
    <3> QED BY <1>1, <3>1, <3>2, <3>3
  <2>4. CASE UNCHANGED stack
    BY <1>1, <2>4
  <2> QED BY <2>1, <2>2, <2>3, <2>4
<1> QED BY <1>1, <1>2 DEF CursorInv, Limit

LEMMA CursorNext == ASSUME NInv, [Next]_vars PROVE CursorInv'
<1> USE DEF NInv
<1>1. /\ MaxDepth \in Nat /\ MaxDepth >= 1 /\ GBT_DATA_WIDTH \in Nat /\ GBT_DATA_WIDTH >= 2
      /\ REQ_ADDRESS \in Nat /\ Limit \in Nat /\ Len(stack) \in Nat /\ Len(stack) <= MaxDepth
  BY NestedAssumption, LenProperties DEF TypeOK, Byte, Limit
<1>2. CASE Load
  <2>1. stack # << >> /\ Hold("store", REQ_ADDRESS) /\ top.place = "load" /\ UNCHANGED REQ_ADDRESS
    BY <1>2 DEF Load, At, globals
  <2>2. REQ_ADDRESS \in Byte /\ "store" \in Places /\ REQ_ADDRESS \in Held("store")
    BY HeldBytes DEF TypeOK, Places
  <2>3. /\ Len(stack) >= 1 /\ Len(stack') = Len(stack)
        /\ stack'[Len(stack)] = [place |-> "store", value |-> REQ_ADDRESS]
        /\ \A i \in 1 .. Len(stack) : i # Len(stack) => stack'[i] = stack[i]
    BY <2>1, <2>2, HoldStep
  <2>4. REQ_ADDRESS + Len(stack) <= Limit
    BY <1>1, <2>1, <2>3 DEF CursorInv, top
  <2>5. ASSUME NEW i \in 1 .. Len(stack), i # Len(stack)
        PROVE  /\ stack'[i] = stack[i]
               /\ \A j \in 1 .. i - 1 : j \in 1 .. Len(stack) /\ stack'[j] = stack[j]
    BY <1>1, <2>3, <2>5
  <2> QED BY <1>1, <2>1, <2>3, <2>4, <2>5 DEF CursorInv, Limit
<1>3. CASE Store
  <2>1. stack # << >> /\ Hold("await", 0) /\ top.place = "store"
        /\ REQ_ADDRESS' = (top.value + 1) % 256
    BY <1>3 DEF Store, At, Goto
  <2>2. 0 \in Byte /\ "await" \in Places /\ 0 \in Held("await")
    BY HeldBytes DEF Byte, Places
  <2>3. /\ Len(stack) >= 1 /\ Len(stack') = Len(stack)
        /\ stack'[Len(stack)] = [place |-> "await", value |-> 0]
        /\ \A i \in 1 .. Len(stack) : i # Len(stack) => stack'[i] = stack[i]
    BY <2>1, <2>2, HoldStep
  <2>4. REQ_ADDRESS' <= top.value + 1 /\ REQ_ADDRESS' \in Nat /\ top.value \in Nat
    <3>1. top.value \in Byte
      BY <2>1, TopTyped
    <3>2. \A b \in Byte : (b + 1) % 256 <= b + 1 /\ (b + 1) % 256 \in Nat /\ b \in Nat
      BY DEF Byte
    <3> QED BY <2>1, <3>1, <3>2
  <2>5. /\ top.value + 1 <= Limit
        /\ \A j \in 1 .. Len(stack) - 1 : stack[j].place = "load" => top.value + 1 + j <= Limit
    BY <1>1, <2>1, <2>3 DEF CursorInv, top
  <2>6. ASSUME NEW i \in 1 .. Len(stack), i # Len(stack)
        PROVE  /\ stack'[i] = stack[i] /\ i \in 1 .. Len(stack) - 1
               /\ \A j \in 1 .. i - 1 : j \in 1 .. Len(stack) /\ stack'[j] = stack[j]
    BY <1>1, <2>3, <2>6
  <2>7. REQ_ADDRESS' <= Limit
    BY <1>1, <2>4, <2>5
  <2>8. ASSUME NEW i \in 1 .. Len(stack), i # Len(stack), stack'[i].place = "load"
        PROVE  REQ_ADDRESS' + i <= Limit
    <3>1. stack[i].place = "load" /\ i \in 1 .. Len(stack) - 1
      BY <2>6, <2>8
    <3>2. i \in Int /\ top.value + 1 + i <= Limit
      BY <2>5, <3>1
    <3>3. REQ_ADDRESS' + i <= top.value + 1 + i
      BY <2>4, <3>2
    <3>4. REQ_ADDRESS' + i \in Int /\ top.value + 1 + i \in Int /\ Limit \in Int
      BY <1>1, <2>4, <3>2
    <3>5. \A a, b, c \in Int : a <= b /\ b <= c => a <= c
      OBVIOUS
    <3> QED BY <3>2, <3>3, <3>4, <3>5, Zenon
  <2> QED BY <1>1, <2>3, <2>6, <2>7, <2>8 DEF CursorInv, Limit
<1>4. CASE Check
  <2>1. /\ stack # << >> /\ UNCHANGED REQ_ADDRESS
        /\ Goto(IF REQ_ADDRESS < GBT_DATA_WIDTH - 1 THEN "load" ELSE "wrap")
    BY <1>4 DEF Check, At, globals
  <2>2. CASE REQ_ADDRESS < GBT_DATA_WIDTH - 1
    <3>1. Hold("load", 0) /\ 0 \in Byte /\ "load" \in Places /\ 0 \in Held("load")
      BY <2>1, <2>2, HeldBytes DEF Goto, Byte, Places
    <3>2. /\ Len(stack) >= 1 /\ Len(stack') = Len(stack)
          /\ stack'[Len(stack)] = [place |-> "load", value |-> 0]
          /\ \A i \in 1 .. Len(stack) : i # Len(stack) => stack'[i] = stack[i]
      BY <2>1, <3>1, HoldStep
    <3>3. REQ_ADDRESS + Len(stack) <= Limit
      BY <1>1, <2>2 DEF Limit
    <3>4. ASSUME NEW i \in 1 .. Len(stack), i # Len(stack)
          PROVE  /\ stack'[i] = stack[i]
                 /\ \A j \in 1 .. i - 1 : j \in 1 .. Len(stack) /\ stack'[j] = stack[j]
      BY <1>1, <3>2, <3>4
    <3> QED BY <1>1, <2>1, <3>2, <3>3, <3>4 DEF CursorInv, Limit
  <2>3. CASE ~ REQ_ADDRESS < GBT_DATA_WIDTH - 1
    <3>1. /\ "wrap" \in Places \ {"load", "store"} /\ 0 \in Byte /\ 0 \in Held("wrap")
          /\ Hold("wrap", 0)
      BY <2>1, <2>3, HeldBytes DEF Places, Byte, Goto
    <3> QED BY <2>1, <3>1, CursorKept
  <2> QED BY <2>2, <2>3
<1>5. CASE Wrap
  <2>1. stack # << >> /\ Hold("flip", 0) /\ REQ_ADDRESS' = 0
    BY <1>5 DEF Wrap, At, Goto
  <2>2. 0 \in Byte /\ "flip" \in Places /\ 0 \in Held("flip")
    BY HeldBytes DEF Byte, Places
  <2>3. /\ Len(stack) >= 1 /\ Len(stack') = Len(stack)
        /\ stack'[Len(stack)] = [place |-> "flip", value |-> 0]
        /\ \A i \in 1 .. Len(stack) : i # Len(stack) => stack'[i] = stack[i]
    BY <2>1, <2>2, HoldStep
  <2>4. ASSUME NEW i \in 1 .. Len(stack), i # Len(stack)
        PROVE  /\ stack'[i] = stack[i]
               /\ \A j \in 1 .. i - 1 : j \in 1 .. Len(stack) /\ stack'[j] = stack[j]
    BY <1>1, <2>3, <2>4
  <2> QED BY <1>1, <2>1, <2>3, <2>4 DEF CursorInv, Limit
<1>6. CASE \/ Choose \/ Again \/ Kind \/ Other \/ Read \/ Table \/ Code \/ Address \/ Send
           \/ Flip \/ Turn \/ Repeat \/ Resend \/ Await \/ Poll \/ Idle \/ Settle
  <2>1. stack # << >> /\ UNCHANGED REQ_ADDRESS
    BY <1>6 DEF At, globals, Choose, Again, Kind, Other, Read, Table, Code, Address, Send, Flip,
                Turn, Repeat, Resend, Await, Poll, Idle, Settle
  <2>2. CASE Return
    BY <2>1, <2>2, CursorKept
  <2>3. CASE ~ Return
    <3>1. PICK place \in Places, value \in Byte : value \in Held(place) /\ Hold(place, value)
      BY <1>6, <2>3, HandlerSteps DEF Handler
    <3>2. \A q : (\E v : Hold(q, v)) => place = q
      <4>1. \A q, v : Hold(q, v) => stack'[Len(stack)].place = q
        <5>1. Len(stack) \in 1 .. Len(stack) /\ DOMAIN stack = 1 .. Len(stack)
          BY <2>1, TopTyped DEF NInv
        <5> QED BY <5>1 DEF Hold
      <4> QED BY <3>1, <4>1
    <3>3. \E q \in Places \ {"load", "store"} : \E v : Hold(q, v)
      BY <1>6, <2>3 DEF Goto, Places, Choose, Again, Kind, Other, Read, Table, Code, Address,
                        Send, Flip, Turn, Repeat, Resend, Await, Poll, Idle, Settle
    <3>4. place \in Places \ {"load", "store"}
      BY <3>2, <3>3
    <3> QED BY <2>1, <3>1, <3>4, CursorKept
  <2> QED BY <2>2, <2>3
<1>7. CASE Tick \/ Interrupt
  BY <1>7, CursorKept DEF Tick, Interrupt, globals
<1>8. CASE Answer \/ NoAnswer \/ Noise \/ UNCHANGED vars
  BY <1>8, CursorKept DEF Answer, NoAnswer, Noise, vars, globals
<1> QED BY <1>2, <1>3, <1>4, <1>5, <1>6, <1>7, <1>8 DEF Next, Handler

LEMMA NInvHolds == Spec => []NInv
<1>1. Init => NInv
  <2> SUFFICES ASSUME Init PROVE NInv
    OBVIOUS
  <2>1. << >> \in Seq(Frame) /\ Len(<< >>) = 0
    BY EmptySeq
  <2>2. stack \in Seq(Frame) /\ Len(stack) = 0
    BY <2>1 DEF Init
  <2>3. NoRequest \in Request /\ 0 \in Byte
    BY DEF NoRequest, Request, Byte
  <2>4. TypeOK
    BY <2>2, <2>3, NestedAssumption DEF Init, TypeOK, NoRequest, Request
  <2>5. CursorInv
    BY <2>2, NestedAssumption DEF Init, CursorInv, Limit
  <2> QED BY <2>4, <2>5 DEF NInv
<1>2. NInv /\ [Next]_vars => NInv'
  BY TypeNext, CursorNext DEF NInv
<1> QED BY <1>1, <1>2, PTL DEF Spec

\* However handlers interrupt one another, each global keeps its type.
THEOREM GlobalsAreTyped == Spec => []TypeOK
<1>1. NInv => TypeOK
  BY DEF NInv
<1> QED BY NInvHolds, <1>1, PTL

\* The cursor passes the last address by at most one for each handler that is
\* running inside another.
THEOREM OverrunIsBounded == Spec => []OverrunBounded
<1>1. NInv => OverrunBounded
  BY DEF NInv, CursorInv, Limit, OverrunBounded
<1> QED BY NInvHolds, <1>1, PTL

-----------------------------------------------------------------------------
(* One handler, as long as none has been interrupted *)

\* The request just made is the one the cursor points to, and awaited if a read.
Fits ==
  /\ tx_data[1] = REQ_READ <=> txReq = REQ_READ
  /\ tx_data[1] # 0
  /\ TX_sentRequest = IF txReq = REQ_READ THEN REQ_READ ELSE REQ_IDLE

\* The cursor is one position after the last request.
InStep == Cursor = Sweep!Succ(PositionOf(tx_data))

AloneInv ==
  /\ Len(stack) <= 1 /\ REQ_ADDRESS < GBT_DATA_WIDTH
  /\ Place \in {"main", "choose", "again", "kind", "other", "read", "table", "code", "await",
                "repeat", "resend", "poll", "idle", "settle"} => InStep
  /\ Place \in {"main", "choose"} => TX_sentRequest # REQ_READ
  /\ Place \in {"main", "choose", "again", "await", "repeat", "resend", "poll", "idle"}
       /\ TX_sentRequest # REQ_IDLE => tx_data[1] = REQ_READ
  /\ Place \in {"kind", "other", "read", "table"} => TX_sentRequest = REQ_IDLE
  /\ Place = "read" => txReq = REQ_READ
  /\ Place \in {"other", "table"} => txReq # REQ_READ
  /\ Place = "code" =>
       /\ stack[1].value = REQ_READ <=> txReq = REQ_READ
       /\ TX_sentRequest = IF txReq = REQ_READ THEN REQ_READ ELSE REQ_IDLE
  /\ Place \in {"address", "send", "check", "load", "store", "wrap", "flip", "turn"} => Fits
  /\ Place \in {"send", "check", "load", "store", "wrap"} => tx_data[2] = REQ_ADDRESS
  /\ Place \in {"load", "store"} => REQ_ADDRESS < GBT_DATA_WIDTH - 1
  /\ Place = "store" => stack[1].value = REQ_ADDRESS
  /\ Place = "wrap" => REQ_ADDRESS = GBT_DATA_WIDTH - 1
  /\ Place \in {"flip", "turn"} => REQ_ADDRESS = 0 /\ tx_data[2] = GBT_DATA_WIDTH - 1
  /\ Place = "turn" => stack[1].value = IF txReq = REQ_READ THEN REQ_WRITE_0 ELSE REQ_READ
  /\ Place \in {"again", "repeat"} => TX_sentRequest = REQ_REPEAT
  /\ Place \in {"resend", "poll", "idle"} => TX_sentRequest = REQ_READ
  /\ Place = "await" => TX_sentRequest # REQ_REPEAT
  /\ Place = "settle" => TX_sentRequest = REQ_IDLE /\ tx_data[1] = REQ_READ

Uninterrupted == nested = 0 => AloneInv

LEMMA OnlyOne == \A n \in Nat : n \in 1 .. n /\ n <= 1 => n = 1
OBVIOUS

LEMMA AloneTop ==
  ASSUME TypeOK, Len(stack) <= 1, stack # << >>
  PROVE  /\ Len(stack) = 1 /\ top = stack[1] /\ Place = stack[1].place
         /\ stack[1].value \in Byte /\ stack[1].value \in Held(Place)
<1>1. /\ Len(stack) \in Nat /\ Len(stack) \in 1 .. Len(stack)
      /\ top \in Frame /\ top.value \in Byte
  BY TopTyped, Zenon
<1>2. Len(stack) = 1
  BY <1>1, OnlyOne, Zenon
<1>3. top.value \in Held(top.place)
  BY <1>1, FrameParts
<1> QED BY <1>1, <1>2, <1>3 DEF top, Place

LEMMA AloneHold ==
  ASSUME TypeOK, Len(stack) <= 1, stack # << >>,
         NEW place \in Places, NEW value \in Byte, value \in Held(place), Hold(place, value)
  PROVE  Len(stack') = 1 /\ Place' = place /\ stack'[1].value = value
<1>1. Len(stack) = 1
  BY AloneTop
<1>2. Len(stack') = 1 /\ stack'[1] = [place |-> place, value |-> value]
  BY <1>1, HoldStep
<1>3. stack' # << >>
  BY <1>2
<1> QED BY <1>2, <1>3 DEF Place

\* A handler that is alone goes on to a place where it holds nothing.
LEMMA AloneGoto ==
  ASSUME TypeOK, Len(stack) <= 1, stack # << >>,
         NEW place \in Places \ {"code", "turn"}, Goto(place)
  PROVE  Len(stack') = 1 /\ Place' = place
<1>1. 0 \in Byte /\ 0 \in Held(place) /\ Hold(place, 0)
  BY HeldBytes DEF Byte, Goto
<1> QED BY <1>1, AloneHold

LEMMA AloneReturn ==
  ASSUME TypeOK, Len(stack) <= 1, stack # << >>, Return
  PROVE  Len(stack') = 0 /\ Place' = "main"
<1>1. Len(stack') = 0 /\ stack' \in Seq(Frame)
  BY AloneTop, ReturnStep
<1>2. stack' = << >>
  BY <1>1, EmptySeq
<1> QED BY <1>1, <1>2 DEF Place

LEMMA AlonePush ==
  ASSUME TypeOK, stack = << >>, Push
  PROVE  Len(stack') = 1 /\ Place' = "choose"
<1>1. Len(stack) = 0
  BY EmptySeq
<1>2. Len(stack') = 1 /\ stack'[1] = [place |-> "choose", value |-> 0]
  BY <1>1, PushStep
<1>3. stack' # << >>
  BY <1>2
<1> QED BY <1>2, <1>3 DEF Place

\* The numbers that the steps below compute with.
LEMMA Numbers ==
  ASSUME TypeOK, AloneInv
  PROVE  /\ GBT_DATA_WIDTH \in Nat /\ 2 <= GBT_DATA_WIDTH /\ GBT_DATA_WIDTH <= 128
         /\ REQ_ADDRESS \in Nat /\ REQ_ADDRESS < GBT_DATA_WIDTH
         /\ tx_data = <<tx_data[1], tx_data[2]>>
         /\ tx_data[1] \in {0, REQ_READ, REQ_WRITE_0, REQ_WRITE_1} /\ tx_data[2] \in Nat
         /\ txReq \in {REQ_READ, REQ_WRITE_0}
         /\ TX_sentRequest \in {REQ_IDLE, REQ_READ, REQ_REPEAT}
<1>1. /\ GBT_DATA_WIDTH \in Nat /\ 2 <= GBT_DATA_WIDTH /\ GBT_DATA_WIDTH <= 128
  BY NestedAssumption
<1>2. REQ_ADDRESS \in Nat /\ REQ_ADDRESS < GBT_DATA_WIDTH
  BY DEF TypeOK, AloneInv, Byte
<1>3. /\ tx_data = <<tx_data[1], tx_data[2]>>
      /\ tx_data[1] \in {0, REQ_READ, REQ_WRITE_0, REQ_WRITE_1} /\ tx_data[2] \in Nat
  <2>1. tx_data \in {0, REQ_READ, REQ_WRITE_0, REQ_WRITE_1} \X Byte
    BY DEF TypeOK
  <2>2. tx_data = <<tx_data[1], tx_data[2]>> /\ tx_data[2] \in Byte
    BY <2>1
  <2>3. tx_data[1] \in {0, REQ_READ, REQ_WRITE_0, REQ_WRITE_1}
    BY <2>1
  <2> QED BY <2>2, <2>3 DEF Byte
<1> QED BY <1>1, <1>2, <1>3 DEF TypeOK

\* A statement of the handler is a step of the sweeps or none.
SweepStep == Sweep!Next \/ UNCHANGED Sweep!vars

LEMMA SweepsStay ==
  ASSUME Issued' = Issued, Unacknowledged' = Unacknowledged, bytes' = bytes
  PROVE  SweepStep
BY DEF SweepStep, Sweep!vars

\* Between one request and the next, as the handler goes through its conditions.
LEMMA AloneBetween ==
  ASSUME TypeOK, AloneInv, Choose \/ Again \/ Repeat \/ Resend \/ Await
  PROVE  AloneInv' /\ SweepStep
<1> USE DEF REQ_IDLE, REQ_READ, REQ_REPEAT
<1>1. stack # << >> /\ Len(stack) <= 1 /\ Place = stack[1].place /\ top = stack[1]
  BY AloneTop DEF Choose, Again, Repeat, Resend, Await, At, AloneInv
<1>2. /\ UNCHANGED <<txReq, REQ_ADDRESS, tx_data, bytes>>
      /\ Cursor' = Cursor /\ PositionOf(tx_data)' = PositionOf(tx_data) /\ InStep' = InStep
  BY DEF Choose, Again, Repeat, Resend, Await, globals, Cursor, PositionOf, InStep, Sweep!Succ
<1>3. CASE Choose \/ Again
  <2>1. PICK place \in {"kind", "again", "repeat", "await"} : Goto(place)
    BY <1>3 DEF Choose, Again
  <2>2. /\ Place \in {"choose", "again"} /\ UNCHANGED TX_sentRequest
        /\ place \in Places \ {"code", "turn"}
    BY <1>1, <1>3 DEF Choose, Again, At, globals, Places
  <2>3. Len(stack') = 1 /\ Place' = place
    BY <1>1, <2>1, <2>2, AloneGoto
  <2>4. /\ place = "kind" => TX_sentRequest = REQ_IDLE
        /\ place \in {"again", "repeat"} => TX_sentRequest = REQ_REPEAT
        /\ place # "await"
    <3>1. CASE Choose
      <4>1. /\ Place = "choose" /\ TX_sentRequest \in {REQ_IDLE, REQ_REPEAT}
            /\ Goto(IF TX_sentRequest = REQ_IDLE THEN "kind" ELSE "again")
        BY <1>1, <3>1, Numbers DEF Choose, At, AloneInv
      <4>2. (IF TX_sentRequest = REQ_IDLE THEN "kind" ELSE "again") \in Places \ {"code", "turn"}
        BY DEF Places
      <4>3. place = IF TX_sentRequest = REQ_IDLE THEN "kind" ELSE "again"
        BY <1>1, <2>3, <4>1, <4>2, AloneGoto
      <4> QED BY <4>1, <4>3
    <3>2. CASE Again
      <4>1. TX_sentRequest = REQ_REPEAT /\ Goto("repeat") /\ "repeat" \in Places \ {"code", "turn"}
        BY <1>1, <3>2 DEF Again, At, AloneInv, Places
      <4>2. place = "repeat"
        BY <1>1, <2>3, <4>1, AloneGoto
      <4> QED BY <4>1, <4>2
    <3> QED BY <1>3, <3>1, <3>2
  <2>5. AloneInv'
    BY <1>2, <2>1, <2>2, <2>3, <2>4, Numbers DEF AloneInv
  <2>6. Issued' = Issued /\ Unacknowledged' = Unacknowledged
    BY <1>2, <2>1, <2>2, <2>3 DEF Issued, Unacknowledged, Making
  <2> QED BY <1>2, <2>5, <2>6, SweepsStay
<1>4. CASE Repeat
  <2>1. /\ Place = "repeat" /\ TX_sentRequest' = REQ_READ /\ Goto("resend")
        /\ "resend" \in Places \ {"code", "turn"}
    BY <1>1, <1>4 DEF Repeat, At, Goto, Places
  <2>2. Len(stack') = 1 /\ Place' = "resend"
    BY <1>1, <2>1, AloneGoto
  <2>3. AloneInv'
    BY <1>2, <2>1, <2>2, Numbers DEF AloneInv
  <2>4. Issued' = Issued /\ Unacknowledged' = Unacknowledged
    BY <1>2, <2>1, <2>2 DEF Issued, Unacknowledged, Making, AloneInv
  <2> QED BY <1>2, <2>3, <2>4, SweepsStay
<1>5. CASE Resend
  <2>1. /\ Place = "resend" /\ UNCHANGED TX_sentRequest /\ Goto("await")
        /\ "await" \in Places \ {"code", "turn"}
    BY <1>1, <1>5 DEF Resend, At, Goto, Places, globals
  <2>2. Len(stack') = 1 /\ Place' = "await"
    BY <1>1, <2>1, AloneGoto
  <2>3. AloneInv'
    BY <1>2, <2>1, <2>2, Numbers DEF AloneInv
  <2>4. Issued' = Issued /\ Unacknowledged' = Unacknowledged
    BY <1>2, <2>1, <2>2 DEF Issued, Unacknowledged, Making
  <2> QED BY <1>2, <2>3, <2>4, SweepsStay
<1>6. CASE Await
  <2>1. Place = "await" /\ UNCHANGED TX_sentRequest
    BY <1>1, <1>6 DEF Await, At, globals
  <2>2. CASE TX_sentRequest = REQ_READ
    <3>1. Goto("poll") /\ "poll" \in Places \ {"code", "turn"}
      BY <1>6, <2>2 DEF Await, Goto, Places
    <3>2. Len(stack') = 1 /\ Place' = "poll"
      BY <1>1, <3>1, AloneGoto
    <3>3. AloneInv'
      BY <1>2, <2>1, <2>2, <3>2, Numbers DEF AloneInv
    <3>4. Issued' = Issued /\ Unacknowledged' = Unacknowledged
      BY <1>2, <2>1, <3>2 DEF Issued, Unacknowledged, Making
    <3> QED BY <1>2, <3>3, <3>4, SweepsStay
  <2>3. CASE TX_sentRequest # REQ_READ
    <3>1. Return
      BY <1>6, <2>3 DEF Await
    <3>2. Len(stack') = 0 /\ Place' = "main"
      BY <1>1, <3>1, AloneReturn
    <3>3. AloneInv'
      BY <1>2, <2>1, <2>3, <3>2, Numbers DEF AloneInv
    <3>4. Issued' = Issued /\ Unacknowledged' = Unacknowledged
      BY <1>2, <2>1, <3>2 DEF Issued, Unacknowledged, Making
    <3> QED BY <1>2, <3>3, <3>4, SweepsStay
  <2> QED BY <2>2, <2>3
<1> QED BY <1>3, <1>4, <1>5, <1>6

\* A request in the making: nothing is issued before it is sent.
LEMMA AloneMaking ==
  ASSUME TypeOK, AloneInv, Kind \/ Other \/ Read \/ Table \/ Code \/ Address
  PROVE  AloneInv' /\ SweepStep
<1> USE DEF REQ_IDLE, REQ_READ, REQ_REPEAT, REQ_WRITE_0, REQ_WRITE_1
<1>1. stack # << >> /\ Len(stack) <= 1 /\ Place = stack[1].place /\ top = stack[1]
  BY AloneTop DEF Kind, Other, Read, Table, Code, Address, At, AloneInv
<1>2. UNCHANGED <<txReq, REQ_ADDRESS, bytes>> /\ Cursor' = Cursor
  BY DEF Kind, Other, Read, Table, Code, Address, globals, Cursor
<1>3. CASE Kind \/ Other \/ Read \/ Table
  <2>1. Place \in {"kind", "other", "read", "table"} /\ TX_sentRequest = REQ_IDLE /\ InStep
    BY <1>1, <1>3 DEF Kind, Other, Read, Table, At, AloneInv
  <2>2. Issued = IF Cursor = 0 THEN 2 * GBT_DATA_WIDTH - 1 ELSE Cursor - 1
    BY <2>1, Numbers DEF Issued, Making, InStep, Sweep!Succ, Cursor, PositionOf
  <2>3. Unacknowledged = FALSE
    BY <2>1 DEF Unacknowledged, Making
  <2>4. UNCHANGED tx_data /\ InStep' /\ PositionOf(tx_data)' = PositionOf(tx_data)
    <3>1. UNCHANGED tx_data
      BY <1>3 DEF Kind, Other, Read, Table, globals
    <3> QED BY <1>2, <2>1, <3>1 DEF InStep, PositionOf, Sweep!Succ
  <2>5. CASE Kind
    <3> DEFINE place == IF txReq = REQ_READ THEN "read" ELSE "other"
    <3>1. Goto(place) /\ place \in Places \ {"code", "turn"} /\ UNCHANGED TX_sentRequest
      BY <2>5 DEF Kind, globals, Places
    <3>2. Len(stack') = 1 /\ Place' = place
      BY <1>1, <3>1, AloneGoto
    <3>3. AloneInv'
      BY <1>2, <2>1, <2>4, <3>1, <3>2, Numbers DEF AloneInv
    <3>4. Issued' = Issued /\ Unacknowledged' = Unacknowledged
      BY <2>1, <2>3, <2>4, <3>1, <3>2 DEF Issued, Unacknowledged, Making
    <3> QED BY <1>2, <3>3, <3>4, SweepsStay
  <2>6. CASE Other
    <3>1. txReq = REQ_WRITE_0
      BY <1>1, <2>6, Numbers DEF Other, At, AloneInv
    <3>2. Goto("table") /\ "table" \in Places \ {"code", "turn"} /\ UNCHANGED TX_sentRequest
      BY <2>6, <3>1 DEF Other, globals, Places
    <3>3. Len(stack') = 1 /\ Place' = "table"
      BY <1>1, <3>2, AloneGoto
    <3>4. AloneInv'
      BY <1>2, <2>1, <2>4, <3>1, <3>2, <3>3, Numbers DEF AloneInv
    <3>5. Issued' = Issued /\ Unacknowledged' = Unacknowledged
      BY <2>1, <2>3, <2>4, <3>2, <3>3 DEF Issued, Unacknowledged, Making
    <3> QED BY <1>2, <3>4, <3>5, SweepsStay
  <2>7. CASE Read \/ Table
    <3>1. PICK code \in {REQ_READ, REQ_WRITE_0, REQ_WRITE_1} :
            /\ Hold("code", code)
            /\ code = REQ_READ <=> txReq = REQ_READ
            /\ TX_sentRequest' = IF txReq = REQ_READ THEN REQ_READ ELSE REQ_IDLE
      BY <1>1, <2>1, <2>7 DEF Read, Table, WriteCodes, At, AloneInv, globals
    <3>2. code \in Byte /\ "code" \in Places /\ code \in Held("code")
      BY DEF Byte, Places, Held
    <3>3. Len(stack') = 1 /\ Place' = "code" /\ stack'[1].value = code
      BY <1>1, <3>1, <3>2, AloneHold
    <3>4. AloneInv'
      BY <1>2, <2>4, <3>1, <3>3, Numbers DEF AloneInv
    <3>5. Issued' = Issued /\ Unacknowledged' = Unacknowledged
      BY <1>2, <2>2, <2>3, <3>3 DEF Issued, Unacknowledged, Making
    <3> QED BY <1>2, <3>4, <3>5, SweepsStay
  <2> QED BY <1>3, <2>5, <2>6, <2>7
<1>4. CASE Code
  <2>1. /\ Place = "code" /\ UNCHANGED TX_sentRequest
        /\ Goto("address") /\ "address" \in Places \ {"code", "turn"}
        /\ tx_data' = [tx_data EXCEPT ![1] = stack[1].value]
    BY <1>1, <1>4 DEF Code, At, Places
  <2>2. Len(stack') = 1 /\ Place' = "address"
    BY <1>1, <2>1, AloneGoto
  <2>3. Fits'
    <3>1. tx_data'[1] = stack[1].value
      BY <2>1, Numbers
    <3>2. stack[1].value \in {REQ_READ, REQ_WRITE_0, REQ_WRITE_1}
      BY <1>1, <2>1, AloneTop DEF Held
    <3> QED BY <1>2, <2>1, <3>1, <3>2 DEF Fits, AloneInv
  <2>4. AloneInv'
    BY <1>2, <2>2, <2>3, Numbers DEF AloneInv
  <2>5. Issued' = Issued /\ Unacknowledged' = Unacknowledged
    BY <1>2, <2>1, <2>2 DEF Issued, Unacknowledged, Making
  <2> QED BY <1>2, <2>4, <2>5, SweepsStay
<1>5. CASE Address
  <2>1. /\ Place = "address" /\ UNCHANGED TX_sentRequest /\ Goto("send")
        /\ "send" \in Places \ {"code", "turn"}
        /\ tx_data' = [tx_data EXCEPT ![2] = REQ_ADDRESS]
    BY <1>1, <1>5 DEF Address, At, Goto, Places
  <2>2. Len(stack') = 1 /\ Place' = "send"
    BY <1>1, <2>1, AloneGoto
  <2>3. tx_data'[1] = tx_data[1] /\ tx_data'[2] = REQ_ADDRESS
    BY <2>1, Numbers
  <2>4. Fits'
    BY <1>2, <2>1, <2>3 DEF Fits, AloneInv
  <2>5. AloneInv'
    BY <1>2, <2>2, <2>3, <2>4, Numbers DEF AloneInv
  <2>6. Issued' = Issued /\ Unacknowledged' = Unacknowledged
    BY <1>2, <2>1, <2>2 DEF Issued, Unacknowledged, Making
  <2> QED BY <1>2, <2>5, <2>6, SweepsStay
<1> QED BY <1>3, <1>4, <1>5

\* The request is issued when it is sent.
LEMMA AloneSend ==
  ASSUME TypeOK, AloneInv, Send
  PROVE  AloneInv' /\ SweepStep
<1> USE DEF REQ_IDLE, REQ_READ, REQ_REPEAT
<1>1. /\ stack # << >> /\ Len(stack) <= 1 /\ Place = "send" /\ Goto("check")
      /\ "check" \in Places \ {"code", "turn"}
      /\ 0 \in Byte
  BY AloneTop DEF Send, At, AloneInv, Goto, Byte, Places
<1>2. UNCHANGED <<TX_sentRequest, txReq, REQ_ADDRESS, tx_data, bytes>> /\ Cursor' = Cursor
  BY DEF Send, globals, Cursor
<1>3. Len(stack') = 1 /\ Place' = "check"
  BY <1>1, AloneGoto
<1>4. Fits /\ tx_data[2] = REQ_ADDRESS
  BY <1>1 DEF AloneInv
<1>5. Fits' /\ AloneInv'
  BY <1>2, <1>3, <1>4, Numbers DEF AloneInv, Fits
<1>6. Issued = (IF Cursor = 0 THEN 2 * GBT_DATA_WIDTH - 1 ELSE Cursor - 1) /\ ~ Unacknowledged
  BY <1>1 DEF Issued, Making, Unacknowledged
<1>7. Issued' = Cursor
  <2>1. Issued' = PositionOf(tx_data)
    BY <1>2, <1>3 DEF Issued, Making, PositionOf
  <2> QED BY <1>4, <2>1, Numbers DEF PositionOf, Fits, Cursor
<1>8. Unacknowledged' = (txReq = REQ_READ)
  BY <1>2, <1>3, <1>4 DEF Unacknowledged, Making, Fits
<1>9. Cursor = Sweep!Succ(Issued)
  BY <1>6, Numbers DEF Sweep!Succ, Cursor
<1>10. Sweep!IsRead(Cursor) = (txReq = REQ_READ)
  BY Numbers DEF Sweep!IsRead, Cursor
<1>11. Sweep!Issue
  BY <1>2, <1>6, <1>7, <1>8, <1>9, <1>10 DEF Sweep!Issue, Sweep!IsRead
<1> QED BY <1>5, <1>11 DEF SweepStep, Sweep!Next

\* On to the next address: the globals follow what is already issued.
LEMMA AloneAdvance ==
  ASSUME TypeOK, AloneInv, Check \/ Load \/ Store \/ Wrap \/ Flip \/ Turn
  PROVE  AloneInv' /\ SweepStep
<1> USE DEF REQ_IDLE, REQ_READ, REQ_REPEAT, REQ_WRITE_0
<1>1. /\ stack # << >> /\ Len(stack) <= 1 /\ Place = stack[1].place /\ top = stack[1]
      /\ 0 \in Byte /\ REQ_ADDRESS \in Byte
  BY AloneTop DEF Check, Load, Store, Wrap, Flip, Turn, At, AloneInv, Byte, TypeOK
<1>2. UNCHANGED <<TX_sentRequest, tx_data, bytes>> /\ PositionOf(tx_data)' = PositionOf(tx_data)
  BY DEF Check, Load, Store, Wrap, Flip, Turn, globals, PositionOf
<1>3. Place \in {"check", "load", "store", "wrap", "flip", "turn"} /\ Fits
  BY <1>1 DEF Check, Load, Store, Wrap, Flip, Turn, At, AloneInv
<1>4. ASSUME Place' \in {"load", "store", "wrap", "flip", "turn", "await"}
      PROVE  Issued' = Issued /\ Unacknowledged' = Unacknowledged
  BY <1>2, <1>3, <1>4 DEF Issued, Unacknowledged, Making
<1>5. CASE Check
  <2> DEFINE place == IF REQ_ADDRESS < GBT_DATA_WIDTH - 1 THEN "load" ELSE "wrap"
  <2>1. Place = "check" /\ UNCHANGED <<txReq, REQ_ADDRESS>> /\ Goto(place)
        /\ place \in Places \ {"code", "turn"}
    BY <1>1, <1>5 DEF Check, At, globals, Places
  <2>2. Len(stack') = 1 /\ Place' = place
    BY <1>1, <2>1, AloneGoto
  <2>3. Fits' /\ tx_data[2] = REQ_ADDRESS
    BY <1>2, <1>3, <2>1 DEF Fits, AloneInv
  <2>4. AloneInv'
    BY <1>2, <2>1, <2>2, <2>3, Numbers DEF AloneInv
  <2> QED BY <1>2, <1>4, <2>2, <2>4, SweepsStay
<1>6. CASE Load
  <2>1. /\ Place = "load" /\ UNCHANGED <<txReq, REQ_ADDRESS>>
        /\ Hold("store", REQ_ADDRESS) /\ "store" \in Places /\ REQ_ADDRESS \in Held("store")
    BY <1>1, <1>6, HeldBytes DEF Load, At, globals, Places
  <2>2. Len(stack') = 1 /\ Place' = "store" /\ stack'[1].value = REQ_ADDRESS
    BY <1>1, <2>1, AloneHold
  <2>3. Fits' /\ tx_data[2] = REQ_ADDRESS
    BY <1>2, <1>3, <2>1 DEF Fits, AloneInv
  <2>4. AloneInv'
    BY <1>2, <2>1, <2>2, <2>3, Numbers DEF AloneInv
  <2> QED BY <1>2, <1>4, <2>2, <2>4, SweepsStay
<1>7. CASE Store
  <2>1. /\ Place = "store" /\ UNCHANGED txReq /\ Goto("await")
        /\ "await" \in Places \ {"code", "turn"}
        /\ REQ_ADDRESS' = (stack[1].value + 1) % 256
    BY <1>1, <1>7 DEF Store, At, Goto, Places
  <2>2. Len(stack') = 1 /\ Place' = "await"
    BY <1>1, <2>1, AloneGoto
  <2>3. stack[1].value = REQ_ADDRESS /\ REQ_ADDRESS < GBT_DATA_WIDTH - 1 /\ tx_data[2] = REQ_ADDRESS
    BY <2>1 DEF AloneInv
  <2>4. REQ_ADDRESS' = REQ_ADDRESS + 1
    BY <2>1, <2>3, Numbers
  <2>5. InStep'
    BY <1>2, <1>3, <2>1, <2>3, <2>4, Numbers DEF InStep, Cursor, PositionOf, Sweep!Succ, Fits
  <2>6. AloneInv'
    BY <1>2, <1>3, <2>2, <2>3, <2>4, <2>5, Numbers DEF AloneInv, Fits
  <2> QED BY <1>2, <1>4, <2>2, <2>6, SweepsStay
<1>8. CASE Wrap
  <2>1. /\ Place = "wrap" /\ UNCHANGED txReq /\ Goto("flip") /\ "flip" \in Places \ {"code", "turn"}
        /\ REQ_ADDRESS' = 0
    BY <1>1, <1>8 DEF Wrap, At, Goto, Places
  <2>2. Len(stack') = 1 /\ Place' = "flip"
    BY <1>1, <2>1, AloneGoto
  <2>3. REQ_ADDRESS = GBT_DATA_WIDTH - 1 /\ tx_data[2] = REQ_ADDRESS
    BY <2>1 DEF AloneInv
  <2>4. Fits'
    BY <1>2, <1>3, <2>1 DEF Fits
  <2>5. AloneInv'
    BY <1>2, <2>1, <2>2, <2>3, <2>4, Numbers DEF AloneInv
  <2> QED BY <1>2, <1>4, <2>2, <2>5, SweepsStay
<1>9. CASE Flip
  <2> DEFINE next == IF txReq = REQ_READ THEN REQ_WRITE_0 ELSE REQ_READ
  <2>1. Place = "flip" /\ UNCHANGED <<txReq, REQ_ADDRESS>> /\ Hold("turn", next)
    BY <1>1, <1>9 DEF Flip, At, globals
  <2>2. "turn" \in Places /\ next \in Byte /\ next \in Held("turn")
    BY DEF Places, Byte, Held
  <2>3. Len(stack') = 1 /\ Place' = "turn" /\ stack'[1].value = next
    <3> HIDE DEF next
    <3> QED BY <1>1, <2>1, <2>2, AloneHold
  <2>4. Fits'
    BY <1>2, <1>3, <2>1 DEF Fits
  <2>5. AloneInv'
    BY <1>2, <2>1, <2>3, <2>4, Numbers DEF AloneInv
  <2> QED BY <1>2, <1>4, <2>3, <2>5, SweepsStay
<1>10. CASE Turn
  <2>1. /\ Place = "turn" /\ UNCHANGED REQ_ADDRESS
        /\ Goto("await") /\ "await" \in Places \ {"code", "turn"}
        /\ txReq' = stack[1].value
    BY <1>1, <1>10 DEF Turn, At, Places
  <2>2. Len(stack') = 1 /\ Place' = "await"
    BY <1>1, <2>1, AloneGoto
  <2>3. /\ REQ_ADDRESS = 0 /\ tx_data[2] = GBT_DATA_WIDTH - 1
        /\ txReq' = IF txReq = REQ_READ THEN REQ_WRITE_0 ELSE REQ_READ
    BY <2>1 DEF AloneInv
  <2>4. InStep'
    BY <1>2, <1>3, <2>1, <2>3, Numbers DEF InStep, Cursor, PositionOf, Sweep!Succ, Fits
  <2>5. AloneInv'
    BY <1>2, <1>3, <2>1, <2>2, <2>3, <2>4, Numbers DEF AloneInv, Fits
  <2> QED BY <1>2, <1>4, <2>2, <2>5, SweepsStay
<1> QED BY <1>5, <1>6, <1>7, <1>8, <1>9, <1>10

\* A read is acknowledged when bytes are polled.
LEMMA AloneReceive ==
  ASSUME TypeOK, AloneInv, Poll \/ Idle \/ Settle
  PROVE  AloneInv' /\ SweepStep
<1> USE DEF REQ_IDLE, REQ_READ, REQ_REPEAT
<1>1. /\ stack # << >> /\ Len(stack) <= 1 /\ Place = stack[1].place /\ top = stack[1]
      /\ top.value \in Byte /\ 0 \in Byte /\ 1 \in Byte
  BY AloneTop DEF Poll, Idle, Settle, At, AloneInv, Byte
<1>2. /\ UNCHANGED <<txReq, REQ_ADDRESS, tx_data>>
      /\ PositionOf(tx_data)' = PositionOf(tx_data) /\ InStep' = InStep
  BY DEF Poll, Idle, Settle, globals, PositionOf, InStep, Cursor, Sweep!Succ
<1>3. Place \in {"poll", "idle", "settle"} /\ InStep /\ tx_data[1] = REQ_READ
  BY <1>1 DEF Poll, Idle, Settle, At, AloneInv
<1>4. ASSUME Place' \in {"idle", "settle", "main"} PROVE Issued' = Issued
  BY <1>2, <1>3, <1>4 DEF Issued, Making
<1>5. CASE Poll
  <2> DEFINE n == IF bytes THEN 1 ELSE 0
  <2>1. /\ Place = "poll" /\ UNCHANGED TX_sentRequest /\ bytes' = FALSE
        /\ Hold("idle", n) /\ n \in Byte /\ "idle" \in Places /\ n \in Held("idle")
    BY <1>1, <1>5, HeldBytes DEF Poll, At, globals, Places
  <2>2. Len(stack') = 1 /\ Place' = "idle" /\ stack'[1].value = n
    BY <1>1, <2>1, AloneHold
  <2>3. TX_sentRequest = REQ_READ
    BY <2>1 DEF AloneInv
  <2>4. AloneInv'
    BY <1>2, <1>3, <2>1, <2>2, <2>3, Numbers DEF AloneInv
  <2>5. Unacknowledged /\ Unacknowledged' = (n = 0)
    BY <2>1, <2>2, <2>3 DEF Unacknowledged, Making
  <2>6. CASE bytes
    <3>1. ~ Unacknowledged'
      <4>1. n = 1 /\ ~ (1 = 0)
        BY <2>6
      <4> HIDE DEF n
      <4> QED BY <2>5, <4>1, Zenon
    <3>2. Sweep!Acknowledge
      BY <1>4, <2>1, <2>2, <2>5, <2>6, <3>1 DEF Sweep!Acknowledge
    <3> QED BY <2>4, <3>2 DEF SweepStep, Sweep!Next
  <2>7. CASE ~ bytes
    <3>1. Unacknowledged' = Unacknowledged
      BY <2>5, <2>7
    <3>2. bytes' = bytes
      BY <2>1, <2>7 DEF TypeOK
    <3> QED BY <1>4, <2>2, <2>4, <3>1, <3>2, SweepsStay
  <2> QED BY <2>6, <2>7
<1>6. CASE Idle
  <2>1. /\ Place = "idle" /\ TX_sentRequest' = REQ_IDLE /\ bytes' = bytes
        /\ Hold("settle", top.value) /\ "settle" \in Places
        /\ top.value \in Held("settle")
    BY <1>1, <1>6, HeldBytes DEF Idle, At, Places
  <2>2. Len(stack') = 1 /\ Place' = "settle" /\ stack'[1].value = top.value
    BY <1>1, <2>1, AloneHold
  <2>3. AloneInv'
    BY <1>2, <1>3, <2>1, <2>2, Numbers DEF AloneInv
  <2>4. Unacknowledged' = Unacknowledged
    BY <1>1, <2>1, <2>2 DEF Unacknowledged, Making
  <2> QED BY <1>4, <2>1, <2>2, <2>3, <2>4, SweepsStay
<1>7. CASE Settle
  <2>1. /\ Place = "settle" /\ bytes' = bytes /\ Return
        /\ TX_sentRequest' = IF top.value > 0 THEN REQ_IDLE ELSE REQ_REPEAT
    BY <1>1, <1>7 DEF Settle, At
  <2>2. Len(stack') = 0 /\ Place' = "main"
    BY <1>1, <2>1, AloneReturn
  <2>3. AloneInv'
    BY <1>2, <1>3, <2>1, <2>2, Numbers DEF AloneInv
  <2>4. Unacknowledged = (stack[1].value = 0)
    BY <2>1 DEF Unacknowledged, Making
  <2>5. Unacknowledged' = (TX_sentRequest' # REQ_IDLE)
    BY <2>2 DEF Unacknowledged, Making
  <2>6. (TX_sentRequest' # REQ_IDLE) = (stack[1].value = 0)
    <3>1. \A b \in Byte : b > 0 <=> b # 0
      BY DEF Byte
    <3> QED BY <1>1, <2>1, <3>1
  <2>7. Unacknowledged' = Unacknowledged
    BY <2>4, <2>5, <2>6
  <2> QED BY <1>4, <2>1, <2>2, <2>3, <2>7, SweepsStay
<1> QED BY <1>5, <1>6, <1>7

\* A signal, the line and the FPGA.
LEMMA AloneAround ==
  ASSUME TypeOK, AloneInv, Tick \/ Answer \/ NoAnswer \/ Noise \/ UNCHANGED vars
  PROVE  AloneInv' /\ SweepStep
<1>1. UNCHANGED <<TX_sentRequest, txReq, REQ_ADDRESS, tx_data>>
      /\ Cursor' = Cursor /\ PositionOf(tx_data)' = PositionOf(tx_data)
      /\ InStep' = InStep /\ Fits' = Fits
  BY DEF Tick, Answer, NoAnswer, Noise, vars, globals, Cursor, PositionOf, InStep, Fits, Sweep!Succ
<1>2. CASE Tick
  <2>1. Place = "main" /\ UNCHANGED bytes /\ Len(stack') = 1 /\ Place' = "choose"
    BY <1>2, AlonePush DEF Tick, Place
  <2>2. AloneInv'
    BY <1>1, <2>1 DEF AloneInv
  <2>3. Issued' = Issued /\ Unacknowledged' = Unacknowledged
    BY <1>1, <2>1 DEF Issued, Unacknowledged, Making
  <2> QED BY <2>1, <2>2, <2>3, SweepsStay
<1>3. CASE Answer \/ NoAnswer \/ Noise \/ UNCHANGED vars
  <2>1. stack' = stack /\ Place' = Place /\ bytes' \in {bytes, TRUE}
    BY <1>3 DEF Answer, NoAnswer, Noise, vars, Place
  <2>2. AloneInv'
    BY <1>1, <2>1 DEF AloneInv
  <2>3. Issued' = Issued /\ Unacknowledged' = Unacknowledged
    BY <1>1, <2>1 DEF Issued, Unacknowledged, Making
  <2>4. CASE bytes' = bytes
    BY <2>2, <2>3, <2>4, SweepsStay
  <2>5. CASE bytes' # bytes
    <3>1. bytes' = TRUE /\ ~ bytes
      BY <2>1, <2>5 DEF TypeOK
    <3> QED BY <2>2, <2>3, <3>1 DEF SweepStep, Sweep!Next, Sweep!Arrive
  <2> QED BY <2>4, <2>5
<1> QED BY <1>2, <1>3

\* As long as no handler was interrupted, every step keeps the invariant and is
\* one of the sweeps or none.
LEMMA AloneNext ==
  ASSUME TypeOK, Uninterrupted, [Next]_vars, nested' = 0
  PROVE  AloneInv' /\ SweepStep
<1>1. ~ Interrupt
  BY DEF Interrupt, TypeOK
<1>2. nested = 0 /\ AloneInv
  BY <1>1 DEF Uninterrupted, Next, Handler, vars, Choose, Again, Kind, Other, Read, Table, Code,
              Address, Send, Check, Load, Store, Wrap, Flip, Turn, Repeat, Resend, Await, Poll,
              Idle, Settle, Tick, Answer, NoAnswer, Noise
<1> QED BY <1>1, <1>2, AloneBetween, AloneMaking, AloneSend, AloneAdvance, AloneReceive,
           AloneAround DEF Next, Handler

\* The engine statement by statement implements GbtSweep until one handler
\* interrupts another, whatever is lost or late and however long the bytes take:
\* the two steps of a handler in GbtPoll lose nothing of it.
THEOREM UninterruptedEngineSweeps == Spec => UninterruptedSweeps
<1>1. Init => Uninterrupted /\ Sweep!Init
  <2> SUFFICES ASSUME Init PROVE AloneInv /\ Sweep!Init
    BY DEF Uninterrupted
  <2>1. Place = "main" /\ Len(stack) = 0
    BY EmptySeq DEF Init, Place
  <2>2. PositionOf(tx_data) = 2 * GBT_DATA_WIDTH - 1 /\ Cursor = 0
    BY NestedAssumption DEF Init, PositionOf, Cursor, REQ_READ
  <2>3. InStep
    BY <2>2 DEF InStep, Sweep!Succ
  <2>4. AloneInv
    BY <2>1, <2>3, NestedAssumption DEF AloneInv, Init, REQ_IDLE, REQ_READ
  <2>5. Issued = 2 * GBT_DATA_WIDTH - 1 /\ ~ Unacknowledged
    BY <2>1, <2>2 DEF Issued, Unacknowledged, Making, Init
  <2> QED BY <2>4, <2>5 DEF Sweep!Init, Init
<1>2. TypeOK /\ Uninterrupted /\ [Next]_vars => Uninterrupted'
  BY AloneNext DEF Uninterrupted
<1>3. TypeOK /\ Uninterrupted /\ [Next]_vars
        => [nested' = 0 => Sweep!Next \/ UNCHANGED Sweep!vars]_vars
  BY AloneNext DEF SweepStep
<1> QED BY <1>1, <1>2, <1>3, GlobalsAreTyped, PTL DEF Spec, UninterruptedSweeps
=============================================================================
