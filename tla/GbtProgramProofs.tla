--------------------------- MODULE GbtProgramProofs -------------------------
(***************************************************************************)
(* Proofs about a whole program under Linux, for any number of other       *)
(* programs on its device, whichever calls fail and however deep the       *)
(* handlers nest that wait for the terminal.                               *)
(***************************************************************************)
EXTENDS GbtProgram, RS232BuildsProofs, SequenceTheorems

-----------------------------------------------------------------------------
(* The port within the program *)

\* To the port, the program is one of those of RS232Builds.
LEMMA PortStep == [PNext]_pvars => [Next]_vars
<1> SUFFICES ASSUME [PNext]_pvars PROVE [Next]_vars
  OBVIOUS
<1>1. CASE UNCHANGED port
  BY <1>1 DEF port, vars
<1>2. CASE Restart(me) \/ DoOpenCom(me) \/ DoCloseCom(me) \/ LinuxStep(me)
  BY <1>2, MeAssumption DEF Next, Step
<1>3. CASE Others
  BY <1>3 DEF Others, Next, Step
<1> QED BY <1>1, <1>2, <1>3
  DEF PNext, pvars, Key, ExitCommand, CallTimer, MainStep, Tick, Alarm, Handler, Transmitt,
      Receive, ReadTerminal, ReadInterrupted, Type, Answer, Lose, End

LEMMA ProgramPortInv == PSpec => []PortInv
<1>1. PInit => PortInv
  BY PortInvInit DEF PInit
<1>2. PortInv /\ [PNext]_pvars => PortInv'
  BY PortStep, PortInvNext
<1> QED BY <1>1, <1>2, PTL DEF PSpec

\* To the port, this program is one of those that contend for it: with its loop,
\* its timer and its handlers around the calls it does nothing that RS232Builds
\* does not allow, so that what is proved of the port holds here.
THEOREM ProgramImplementsPort == PSpec => Spec
<1>1. PInit => Init
  BY DEF PInit
<1> QED BY <1>1, PortStep, PTL DEF PSpec, Spec

\* So the port keeps its contract while handlers of the timer run between any two
\* of its calls, in this program or in others like it: it belongs to one of them
\* at a time, an open port can be used, no descriptor is lost, and the device
\* gets its settings back but for the cases that SettingsGivenBack names.
THEOREM ProgramKeepsContract ==
  PSpec => Contract!Safety /\ [](UsableWhenOpen /\ DescriptorsAccounted /\ SettingsGivenBack)
BY ProgramImplementsPort, BuildsKeepContract, OpenPortIsUsable, NoDescriptorIsLost,
   DeviceIsGivenBack, PTL

\* The engine looks at no status, and sends to the device all the same only on
\* a descriptor that has the lock and with the program's settings, except from
\* within an open or a close.
THEOREM EngineOnOwnPort == PSpec => []RequestsOnOwnPort
<1>1. PortInv => RequestsOnOwnPort
  <2> SUFFICES ASSUME PortInv, Sink = "device"
               PROVE  /\ lock = <<me, Cport[me]>> \/ pc[me] = "flock"
                      /\ \/ settings = new_port_settings(me)
                         \/ pc[me] \in {"flock", "getattr", "setattr", "close"}
    BY DEF RequestsOnOwnPort
  <2>1. Cport[me] \in fds[me]
    BY DEF Sink
  <2>2. build = "linux" /\ LockInv(me) /\ DeviceInv(me)
    BY MeAssumption DEF PortInv, PInv, TypeOK
  <2> QED BY <2>1, <2>2 DEF LockInv, DeviceInv
<1> QED BY ProgramPortInv, <1>1, PTL

-----------------------------------------------------------------------------
(* The timer *)

\* What any step of the program does to the timer.
LEMMA TimerAction ==
  [PNext]_pvars => StartTimer \/ StopTimer \/ TimerStep \/ TimerEnds \/ UNCHANGED timer
BY DEF PNext, pvars, Key, ExitCommand, CallTimer, MainStep, Tick, Alarm, Handler, Transmitt,
       Receive, ReadTerminal, ReadInterrupted, Type, Answer, Lose, End, Others

\* Between the calls of stop_timer() the timer is off.
TimerInv == AlarmIsHandled /\ (call = "restore" => armed = FALSE)

LEMMA TimerKept ==
  ASSUME TimerInv, StartTimer \/ StopTimer \/ TimerStep \/ TimerEnds \/ UNCHANGED timer
  PROVE  TimerInv'
<1> USE DEF TimerInv, AlarmIsHandled, Call
<1>1. CASE StartTimer
  BY <1>1 DEF StartTimer
<1>2. CASE StopTimer
  BY <1>2 DEF StopTimer
<1>3. CASE Setitimer
  BY <1>3 DEF Setitimer
<1>4. CASE Sigaction
  BY <1>4 DEF Sigaction
<1>5. CASE Disarm
  BY <1>5 DEF Disarm
<1>6. CASE Restore
  BY <1>6 DEF Restore
<1>7. CASE TimerEnds
  BY <1>7 DEF TimerEnds
<1>8. CASE UNCHANGED timer
  BY <1>8 DEF timer
<1> QED BY <1>1, <1>2, <1>3, <1>4, <1>5, <1>6, <1>7, <1>8 DEF TimerStep

\* An armed timer finds its handler, in whatever order it is started and
\* stopped, but for the two moments that the property names.
THEOREM AlarmFindsHandler == PSpec => []AlarmIsHandled
<1>1. PInit => TimerInv
  BY DEF PInit, TimerInit, TimerInv, AlarmIsHandled
<1>2. TimerInv /\ [PNext]_pvars => TimerInv'
  <2> SUFFICES ASSUME TimerInv, [PNext]_pvars PROVE TimerInv'
    OBVIOUS
  <2> QED BY TimerAction, TimerKept
<1>3. TimerInv => AlarmIsHandled
  BY DEF TimerInv
<1> QED BY <1>1, <1>2, <1>3, PTL DEF PSpec

-----------------------------------------------------------------------------
(* The handlers *)

Place == {"transmitt", "receive", "terminal", "interrupted"}

\* Only a handler that waits for the terminal is interrupted, and once an open
\* was tried the port has a descriptor, if an invalid one.
StackInv ==
  /\ stack \in Seq(Place)
  /\ \A i \in 1 .. Len(stack) - 1 : stack[i] = "terminal"
  /\ tried \in BOOLEAN
  /\ tried => Cport[me] # 0
  /\ KeysLeftToMain

\* The top handler returns.
LEMMA HandlerReturns ==
  ASSUME StackInv, stack # << >>, Return, UNCHANGED <<tried, Cport>>
  PROVE  StackInv'
<1>1. Len(stack) \in Nat /\ Len(stack) >= 1
  BY EmptySeq, LenProperties DEF StackInv
<1>2. /\ Len(stack') = Len(stack) - 1
      /\ \A i \in 1 .. Len(stack) - 1 :
           stack'[i] = IF i = Len(stack) - 1 THEN "interrupted" ELSE stack[i]
  BY <1>1 DEF Return
<1>3. stack' \in Seq(Place)
  BY <1>1 DEF StackInv, Return, Place
<1>4. tried => Len(stack) = 1
  <2> SUFFICES ASSUME tried, Len(stack) # 1 PROVE FALSE
    OBVIOUS
  <2>1. Len(stack) \in Nat /\ Len(stack) >= 2
    BY <1>1
  <2>2. 1 \in 1 .. Len(stack) - 1 /\ 1 \in 1 .. Len(stack)
    BY <2>1
  <2> QED BY <2>2 DEF StackInv, KeysLeftToMain
<1> QED BY <1>1, <1>2, <1>3, <1>4 DEF StackInv, KeysLeftToMain

\* The top handler goes on, to the terminal only when the port has none.
LEMMA HandlerGoesOn ==
  ASSUME StackInv, stack # << >>, NEW place \in Place, Goto(place), UNCHANGED <<tried, Cport>>,
         Cport[me] # 0 => place \in {"transmitt", "receive"}
  PROVE  StackInv'
<1>1. Len(stack) \in Nat /\ Len(stack) >= 1 /\ stack' \in Seq(Place) /\ Len(stack') = Len(stack)
  BY EmptySeq, LenProperties DEF StackInv, Goto
<1>2. DOMAIN stack = 1 .. Len(stack) /\ Len(stack) \in 1 .. Len(stack)
  BY <1>1, LenProperties DEF StackInv
<1>3. stack'[Len(stack)] = place
  BY <1>2 DEF Goto
<1>4. ASSUME NEW i \in 1 .. Len(stack), i # Len(stack) PROVE stack'[i] = stack[i]
  BY <1>2, <1>4 DEF Goto
<1>5. \A i \in 1 .. Len(stack') - 1 : stack'[i] = "terminal"
  BY <1>1, <1>4 DEF StackInv
<1>6. tried => KeysLeftToMain'
  BY <1>1, <1>3, <1>4 DEF StackInv, KeysLeftToMain
<1> QED BY <1>1, <1>5, <1>6 DEF StackInv, KeysLeftToMain

LEMMA NoHandler == << >> \in Seq(Place) /\ Len(<< >>) = 0
BY EmptySeq

\* StackInv of no handler and no open tried.
LEMMA StackInvAtStart == ASSUME stack = << >>, tried = FALSE PROVE StackInv
<1>1. stack \in Seq(Place) /\ Len(stack) = 0
  BY NoHandler
<1>2. /\ \A i \in 1 .. Len(stack) - 1 : FALSE
      /\ \A i \in 1 .. Len(stack) : FALSE
  BY <1>1
<1>3. tried \in BOOLEAN /\ ~ tried
  OBVIOUS
<1> QED BY <1>1, <1>2, <1>3, Zenon DEF StackInv, KeysLeftToMain

LEMMA StackInvNext ==
  ASSUME StackInv, PortInv, [PNext]_pvars
  PROVE  StackInv'
<1>0. Cport \in [Program -> {-1, 0} \cup Fd] /\ TypeOK
  BY DEF PortInv, TypeOK
<1>1. ASSUME UNCHANGED <<stack, tried, Cport>> PROVE StackInv'
  BY <1>1 DEF StackInv, KeysLeftToMain
<1>2. CASE Key
  BY <1>1, <1>2 DEF Key, engine, port, DoOpenCom, DoCloseCom
<1>3. CASE ExitCommand \/ Alarm
  <2>1. stack' = << >> /\ tried' = FALSE
    BY <1>3 DEF ExitCommand, Alarm, End
  <2>2. stack' \in Seq(Place) /\ Len(stack') = 0
    BY <2>1, NoHandler
  <2>3. /\ \A i \in 1 .. Len(stack') - 1 : FALSE
        /\ \A i \in 1 .. Len(stack') : FALSE
    BY <2>2
  <2>4. tried' \in BOOLEAN /\ ~ tried'
    BY <2>1
  <2> QED BY <2>2, <2>3, <2>4, Zenon DEF StackInv, KeysLeftToMain
<1>4. CASE CallTimer \/ Type \/ Answer \/ Lose \/ UNCHANGED pvars
  BY <1>1, <1>4 DEF CallTimer, Type, Answer, Lose, engine, port, pvars
<1>5. CASE MainStep
  <2>1. stack' = << >> /\ tried' \in BOOLEAN
    BY <1>5 DEF MainStep, MainRuns, engine, StackInv
  <2>2. tried' => Cport'[me] # 0
    <3>1. CASE Open(me)
      <4>1. Cport'[me] \in Fd \/ Cport'[me] = -1
        BY <1>0, <3>1, MeAssumption DEF Open, NewFd, NoFd
      <4> QED BY <4>1 DEF Fd
    <3>2. CASE LinuxStep(me) /\ ~ Open(me)
      <4>1. Cport' = Cport /\ pc[me] # "open"
        BY <3>2 DEF LinuxStep, Flock, GetAttr, SetAttr, ModemGet, ModemSet, CloseModem, CloseAttr,
                    Close, CloseUnlock, At, Fails
      <4> QED BY <1>5, <4>1 DEF MainStep, StackInv, port
    <3>3. CASE ~ LinuxStep(me)
      BY <1>5, <3>3 DEF MainStep, StackInv, port
    <3> QED BY <3>1, <3>2, <3>3
  <2> QED BY <2>1, <2>2, NoHandler DEF StackInv, KeysLeftToMain
<1>6. CASE Others
  <2>1. PICK p \in Program \ {me} : DoOpenCom(p) \/ DoCloseCom(p) \/ LinuxStep(p) \/ Restart(p)
    BY <1>6 DEF Others
  <2>2. OwnOnly(p)
    BY <1>0, <2>1, StepIsOwn DEF Step
  <2>3. Cport'[me] = Cport[me] /\ UNCHANGED <<stack, tried>>
    BY <1>0, <1>6, <2>2, MeAssumption DEF OwnOnly, Others, engine
  <2> QED BY <2>3 DEF StackInv, KeysLeftToMain
<1>7. CASE Tick
  <2>1. /\ stack' = Append(stack, "transmitt") /\ UNCHANGED <<tried, Cport>>
        /\ stack = << >> \/ (stack # << >> /\ stack[Len(stack)] = "terminal")
    BY <1>7 DEF Tick, port, MainRuns, HandlerAt, top
  <2>2. /\ stack' \in Seq(Place) /\ Len(stack) \in Nat /\ Len(stack') = Len(stack) + 1
        /\ \A i \in 1 .. Len(stack) : stack'[i] = stack[i]
        /\ stack'[Len(stack) + 1] = "transmitt"
    BY <2>1, AppendProperties, LenProperties DEF StackInv, Place
  <2>3. stack # << >> => Len(stack) \in 1 .. Len(stack)
    BY EmptySeq, <2>2 DEF StackInv
  <2>4. \A i \in 1 .. Len(stack) : stack[i] = "terminal"
    BY <2>1, <2>2, <2>3 DEF StackInv
  <2>5. tried => stack = << >>
    BY <2>3, <2>4 DEF StackInv, KeysLeftToMain
  <2>6. KeysLeftToMain'
    BY <2>1, <2>2, <2>5 DEF KeysLeftToMain
  <2> QED BY <2>1, <2>2, <2>4, <2>6 DEF StackInv
<1>8. CASE Transmitt
  BY <1>8, HandlerGoesOn DEF Transmitt, HandlerAt, port, Place
<1>9. CASE Receive
  BY <1>9, HandlerGoesOn, HandlerReturns DEF Receive, HandlerAt, port, Place, Sink
<1>10. CASE ReadTerminal \/ ReadInterrupted
  BY <1>10, HandlerReturns DEF ReadTerminal, ReadInterrupted, HandlerAt, port
<1> QED BY <1>2, <1>3, <1>4, <1>5, <1>6, <1>7, <1>8, <1>9, <1>10 DEF PNext, Handler

\* Once an open was tried no handler waits for the terminal: what is typed is
\* left to main(), whatever fails afterwards.
THEOREM KeysAreLeftToMain == PSpec => []KeysLeftToMain
<1>1. PInit => StackInv
  BY StackInvAtStart DEF PInit
<1>2. StackInv /\ PortInv /\ [PNext]_pvars => StackInv'
  BY StackInvNext
<1>3. StackInv => KeysLeftToMain
  BY DEF StackInv
<1> QED BY ProgramPortInv, <1>1, <1>2, <1>3, PTL DEF PSpec
-----------------------------------------------------------------------------
(* The types *)

\* The parts of ProgramTypeOK: the timer, the calls main() is in, and the rest.
TimerTypes ==
  /\ armed \in BOOLEAN /\ failed \in BOOLEAN
  /\ sigalrm \in {"default", "timer_sig_handler"}
  /\ old_handler \in {"default", "timer_sig_handler"}
  /\ call \in {"none", "setitimer", "sigaction", "disarm", "restore"}

OneCall == call # "none" => pc[me] = "idle"

EngineTypes ==
  /\ keys \in 0 .. MaxKeys
  /\ Len(stack) <= MaxDepth
  /\ TX_sentRequest \in {"idle", "read", "repeat"}
  /\ asked \in BOOLEAN /\ bytes \in BOOLEAN

LEMMA TypesAreParts == ProgramTypeOK <=> TimerTypes /\ OneCall /\ EngineTypes
                         /\ stack \in Seq(Place) /\ tried \in BOOLEAN
BY DEF ProgramTypeOK, TimerTypes, OneCall, EngineTypes, Place

LEMMA TimerTypesKept ==
  ASSUME TimerTypes, StartTimer \/ StopTimer \/ TimerStep \/ TimerEnds \/ UNCHANGED timer
  PROVE  TimerTypes'
<1> USE DEF TimerTypes, Call
<1>1. CASE StartTimer \/ StopTimer
  BY <1>1 DEF StartTimer, StopTimer
<1>2. CASE Setitimer
  BY <1>2 DEF Setitimer
<1>3. CASE Sigaction
  BY <1>3 DEF Sigaction
<1>4. CASE Disarm \/ Restore
  BY <1>4 DEF Disarm, Restore
<1>5. CASE TimerEnds \/ UNCHANGED timer
  BY <1>5 DEF TimerEnds, timer
<1> QED BY <1>1, <1>2, <1>3, <1>4, <1>5 DEF TimerStep

\* main() begins a call only between two others, and only a call of its own
\* moves it on; the other programs do not.
LEMMA OneCallKept ==
  ASSUME OneCall, PortInv, [PNext]_pvars
  PROVE  OneCall'
<1>0. pc \in [Program -> {"idle", "flock", "close", "cunlock", "handle"}
                           \cup LinuxCalls \cup WindowsCalls] /\ TypeOK /\ me \in Program
  BY MeAssumption DEF PortInv, TypeOK
<1>1. ASSUME pc'[me] = pc[me], call' = call PROVE OneCall'
  BY <1>1 DEF OneCall
<1>2. CASE Key
  BY <1>2 DEF Key, InLoop, timer, OneCall
<1>3. CASE ExitCommand \/ Alarm
  BY <1>3 DEF ExitCommand, Alarm, End, TimerEnds, OneCall
<1>4. CASE CallTimer
  BY <1>4 DEF CallTimer, InLoop, port, OneCall
<1>5. CASE MainStep
  <2>1. CASE LinuxStep(me) /\ UNCHANGED timer
    <3>1. pc[me] # "idle"
      BY <2>1 DEF LinuxStep, Open, Flock, GetAttr, SetAttr, ModemGet, ModemSet, CloseModem,
                  CloseAttr, Close, CloseUnlock, At, Fails
    <3> QED BY <2>1, <3>1 DEF OneCall, timer
  <2>2. CASE TimerStep /\ UNCHANGED port
    <3>1. call # "none"
      BY <2>2 DEF TimerStep, Setitimer, Sigaction, Disarm, Restore, Call
    <3> QED BY <2>2, <3>1 DEF OneCall, port
  <2> QED BY <1>5, <2>1, <2>2 DEF MainStep
<1>6. CASE Others
  <2>1. PICK p \in Program \ {me} : DoOpenCom(p) \/ DoCloseCom(p) \/ LinuxStep(p) \/ Restart(p)
    BY <1>6 DEF Others
  <2>2. OwnOnly(p)
    BY <1>0, <2>1, StepIsOwn DEF Step
  <2>3. pc'[me] = pc[me] /\ call' = call
    BY <1>0, <1>6, <2>2 DEF OwnOnly, Others, timer
  <2> QED BY <1>1, <2>3
<1>7. CASE Tick \/ Handler \/ Type \/ Answer \/ Lose \/ UNCHANGED pvars
  BY <1>1, <1>7 DEF Tick, Handler, Transmitt, Receive, ReadTerminal, ReadInterrupted, Type, Answer,
                    Lose, pvars, port, timer
<1> QED BY <1>2, <1>3, <1>4, <1>5, <1>6, <1>7 DEF PNext

\* Handlers nest only while one waits for the terminal, up to the bound.
LEMMA EngineTypesKept ==
  ASSUME EngineTypes, StackInv, [PNext]_pvars
  PROVE  EngineTypes'
<1>0. /\ MaxKeys \in Nat /\ MaxDepth \in Nat /\ MaxDepth # 0 /\ Len(stack) \in Nat
      /\ stack \in Seq(Place) /\ stack # << >> => Len(stack) # 0
  <2>1. stack \in Seq(Place)
    BY DEF StackInv
  <2> QED BY <2>1, MeAssumption, EmptySeq, LenProperties
<1>1. CASE Key \/ CallTimer \/ MainStep \/ Others \/ UNCHANGED pvars
  BY <1>0, <1>1 DEF Key, CallTimer, MainStep, Others, pvars, engine, line, EngineTypes
<1>2. CASE ExitCommand \/ Alarm
  <2>1. Len(stack') = 0
    BY <1>2, NoHandler DEF ExitCommand, Alarm, End
  <2> QED BY <1>0, <1>2, <2>1 DEF ExitCommand, Alarm, End, line, EngineTypes
<1>3. CASE Tick
  <2>1. Len(stack') = Len(stack) + 1
    BY <1>0, <1>3, AppendProperties DEF Tick, Place
  <2>2. Len(stack) = 0 \/ Len(stack) < MaxDepth
    BY <1>3, NoHandler DEF Tick, MainRuns
  <2> QED BY <1>0, <1>3, <2>1, <2>2 DEF Tick, line, EngineTypes
<1>4. CASE Type \/ Answer \/ Lose
  <2>1. asked' \in BOOLEAN /\ bytes' \in BOOLEAN
    BY <1>4, Zenon DEF Type, Answer, Lose, line, EngineTypes
  <2>2. keys' = keys \/ (keys < MaxKeys /\ keys' = keys + 1)
    BY <1>4 DEF Type, Answer, Lose
  <2>3. UNCHANGED <<stack, TX_sentRequest>>
    BY <1>4 DEF Type, Answer, Lose, engine
  <2>4. keys' \in 0 .. MaxKeys
    BY <1>0, <2>2 DEF EngineTypes
  <2> QED BY <2>1, <2>3, <2>4, Zenon DEF EngineTypes
<1>5. CASE Handler
  <2>1. stack # << >> /\ (Return \/ \E place : Goto(place))
    BY <1>5 DEF Handler, Transmitt, Receive, ReadTerminal, ReadInterrupted, HandlerAt
  <2>2. Len(stack') <= Len(stack)
    <3>1. CASE Return
      BY <1>0, <2>1, <3>1 DEF Return
    <3>2. ASSUME NEW place, Goto(place) PROVE Len(stack') = Len(stack)
      BY <1>0, <3>2 DEF Goto
    <3> QED BY <1>0, <2>1, <3>1, <3>2
  <2>3. keys' \in 0 .. MaxKeys /\ TX_sentRequest' \in {"idle", "read", "repeat"}
        /\ asked' \in BOOLEAN /\ bytes' \in BOOLEAN
    <3>1. CASE Transmitt
      BY <3>1 DEF Transmitt, EngineTypes
    <3>2. CASE Receive
      BY <3>2 DEF Receive, EngineTypes
    <3>3. CASE ReadTerminal \/ ReadInterrupted
      BY <1>0, <3>3 DEF ReadTerminal, ReadInterrupted, EngineTypes, line
    <3> QED BY <1>5, <3>1, <3>2, <3>3 DEF Handler
  <2> QED BY <1>0, <2>2, <2>3 DEF EngineTypes
<1> QED BY <1>1, <1>2, <1>3, <1>4, <1>5 DEF PNext

\* The types of the whole program: main() is never within a call of the port and
\* one of the timer at once, and handlers never nest deeper than the bound.
THEOREM ProgramIsTyped == PSpec => []ProgramTypeOK
<1> DEFINE Types2 == TimerTypes /\ OneCall /\ EngineTypes
<1>1. PInit => StackInv /\ Types2
  <2> SUFFICES ASSUME PInit PROVE StackInv /\ Types2
    OBVIOUS
  <2>1. StackInv /\ Len(stack) = 0
    BY StackInvAtStart, NoHandler DEF PInit
  <2>2. TimerTypes /\ OneCall
    BY DEF PInit, TimerInit, TimerTypes, OneCall
  <2>3. EngineTypes
    <3>1. MaxKeys \in Nat /\ MaxDepth \in Nat
      BY MeAssumption
    <3>2. keys \in 0 .. MaxKeys /\ Len(stack) <= MaxDepth
      BY <2>1, <3>1 DEF PInit
    <3> QED BY <3>2, Zenon DEF PInit, EngineTypes
  <2> QED BY <2>1, <2>2, <2>3
<1>2. StackInv /\ PortInv /\ [PNext]_pvars => StackInv'
  BY StackInvNext
<1>3. StackInv /\ PortInv /\ Types2 /\ [PNext]_pvars => Types2'
  <2> SUFFICES ASSUME StackInv, PortInv, Types2, [PNext]_pvars PROVE Types2'
    OBVIOUS
  <2>1. TimerTypes'
    BY TimerAction, TimerTypesKept
  <2> QED BY <2>1, OneCallKept, EngineTypesKept
<1>4. StackInv /\ Types2 => ProgramTypeOK
  BY TypesAreParts DEF StackInv
<1> QED BY ProgramPortInv, <1>1, <1>2, <1>3, <1>4, PTL DEF PSpec

=============================================================================
