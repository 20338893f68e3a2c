------------------------------ MODULE GbtProgram ----------------------------
(***************************************************************************)
(* One whole program under Linux: main()'s loop with the commands that     *)
(* open and close the port and the calls of the timer, and the polling     *)
(* engine in the handler of SIGALRM, which interrupts any of it and looks  *)
(* at no status: it sends to and polls Cport[cport_nr] as it finds it,     *)
(* which is 0, standard input, before the first open.  The other programs  *)
(* use the same device.                                                    *)
(*                                                                         *)
(* What is typed is a number of keys; which of them make a command is open *)
(* here.  Which request is next, and the bytes received, are in GbtPoll;   *)
(* handlers that interrupt handlers at other places than a blocked read    *)
(* are in GbtNested.                                                       *)
(***************************************************************************)
EXTENDS RS232Linux, LinuxTimer

CONSTANTS
  me,        \* the program that is looked at
  MaxKeys,   \* bound: keys typed and not read
  MaxDepth   \* bound: handlers blocked in a read inside one another

ASSUME MeAssumption ==
  /\ me \in Program /\ Builds = {"linux"}
  /\ MaxKeys \in Nat \ {0} /\ MaxDepth \in Nat \ {0}

VARIABLES
  keys,             \* the keys typed and not read
  stack,            \* the place of each running handler, the interrupted first
  TX_sentRequest,   \* as in GbtPoll: "idle", "read" or "repeat"
  asked,            \* has the FPGA a read request to answer?
  bytes,            \* are there received bytes in the driver's buffer?
  tried             \* history: has the process tried to open the port?

engine == <<stack, TX_sentRequest>>
line == <<asked, bytes>>
port == <<build, pc, cport_status, Cport, old_port_settings, fds, lock, device>>
pvars == <<port, timer, keys, engine, line, tried>>

\* Where what the engine sends goes, and what it polls comes from.
Sink ==
  IF Cport[me] = 0 THEN "terminal"
  ELSE IF Cport[me] \in fds[me] THEN "device" ELSE "nowhere"

-----------------------------------------------------------------------------
(* main() *)

\* The main thread runs; and it is in its loop, not in a call.
MainRuns == stack = << >>
InLoop == MainRuns /\ pc[me] = "idle" /\ call = "none"

\* The process ends, and is started again.
End ==
  /\ Restart(me)
  /\ TimerEnds
  /\ stack' = << >> /\ TX_sentRequest' = "idle"
  /\ tried' = FALSE
  /\ UNCHANGED <<keys, line>>

\* getch() takes a key; the Enter of a command has it executed.
Key ==
  /\ InLoop /\ keys > 0
  /\ keys' = keys - 1
  /\ UNCHANGED port \/ DoOpenCom(me) \/ DoCloseCom(me)
  /\ UNCHANGED <<timer, engine, line, tried>>

ExitCommand == InLoop /\ keys > 0 /\ End

\* main() has no call of these at this commit; it could make them anywhere.
CallTimer ==
  /\ InLoop
  /\ StartTimer \/ StopTimer
  /\ UNCHANGED <<port, keys, engine, line, tried>>

MainStep ==
  /\ MainRuns
  /\ \/ LinuxStep(me) /\ tried' = (tried \/ pc[me] = "open") /\ UNCHANGED timer
     \/ TimerStep /\ UNCHANGED <<port, tried>>
  /\ UNCHANGED <<keys, engine, line>>

-----------------------------------------------------------------------------
(* The engine *)

top == stack[Len(stack)]
HandlerAt(place) == stack # << >> /\ top = place
Goto(place) == stack' = [stack EXCEPT ![Len(stack)] = place]

\* Mutant: the interrupted read is restarted.
ReturnRestarting == stack' = SubSeq(stack, 1, Len(stack) - 1)

\* A read that a signal interrupted fails when the handler returns (no
\* SA_RESTART).
Return ==
  stack' = [i \in 1 .. Len(stack) - 1 |->
              IF i = Len(stack) - 1 THEN "interrupted" ELSE stack[i]]

\* SIGALRM in main(), or while a handler waits for the terminal.
Tick ==
  /\ armed /\ sigalrm = "timer_sig_handler"
  /\ MainRuns \/ (HandlerAt("terminal") /\ Len(stack) < MaxDepth)
  /\ stack' = Append(stack, "transmitt")
  /\ UNCHANGED <<port, timer, keys, TX_sentRequest, line, tried>>

\* SIGALRM without its handler.
Alarm == armed /\ sigalrm = "default" /\ End

\* A read may reach the FPGA; a write, or what does not, changes nothing here.
Transmitt ==
  /\ HandlerAt("transmitt")
  /\ Goto("receive")
  /\ TX_sentRequest' \in CASE TX_sentRequest = "idle"   -> {"idle", "read"}
                           [] TX_sentRequest = "repeat" -> {"read"}
                           [] OTHER                     -> {TX_sentRequest}
  /\ asked' = (asked \/ (Sink = "device" /\ TX_sentRequest # "read"
                                         /\ TX_sentRequest' = "read"))
  /\ UNCHANGED <<port, timer, keys, bytes, tried>>

\* Mutant: a read without an answer stays outstanding.
ReceiveWaiting ==
  /\ HandlerAt("receive")
  /\ IF TX_sentRequest = "read" /\ Sink = "terminal"
       THEN Goto("terminal") /\ UNCHANGED <<TX_sentRequest, bytes>>
     ELSE IF TX_sentRequest = "read" /\ Sink = "device" /\ bytes
       THEN Return /\ bytes' = FALSE /\ TX_sentRequest' = "idle"
     ELSE Return /\ UNCHANGED <<TX_sentRequest, bytes>>
  /\ UNCHANGED <<port, timer, keys, asked, tried>>

\* Nothing to read, or no descriptor: the request is to be repeated.
Receive ==
  /\ HandlerAt("receive")
  /\ IF TX_sentRequest = "read" /\ Sink = "terminal"
       THEN Goto("terminal") /\ UNCHANGED <<TX_sentRequest, bytes>>
     ELSE IF TX_sentRequest = "read"
       THEN /\ Return
            /\ bytes' = (bytes /\ Sink # "device")
            /\ TX_sentRequest' = IF bytes /\ Sink = "device" THEN "idle" ELSE "repeat"
     ELSE Return /\ UNCHANGED <<TX_sentRequest, bytes>>
  /\ UNCHANGED <<port, timer, keys, asked, tried>>

\* read() takes what was typed for an answer.
ReadTerminal ==
  /\ HandlerAt("terminal") /\ keys > 0
  /\ Return
  /\ keys' = 0
  /\ TX_sentRequest' = "idle"
  /\ UNCHANGED <<port, timer, line, tried>>

\* Mutant: REQ_FAILED is put to use.
ReadInterruptedFailing ==
  /\ HandlerAt("interrupted")
  /\ Return
  /\ TX_sentRequest' = "failed"
  /\ UNCHANGED <<port, timer, keys, line, tried>>

ReadInterrupted ==
  /\ HandlerAt("interrupted")
  /\ Return
  /\ TX_sentRequest' = "repeat"
  /\ UNCHANGED <<port, timer, keys, line, tried>>

Handler == Transmitt \/ Receive \/ ReadTerminal \/ ReadInterrupted

-----------------------------------------------------------------------------
(* Typist, line and the other programs *)

Type == keys < MaxKeys /\ keys' = keys + 1 /\ UNCHANGED <<port, timer, engine, line, tried>>

Answer == asked /\ asked' = FALSE /\ bytes' = TRUE /\ UNCHANGED <<port, timer, keys, engine, tried>>

Lose == asked /\ asked' = FALSE /\ UNCHANGED <<port, timer, keys, engine, bytes, tried>>

Others ==
  /\ \E p \in Program \ {me} : DoOpenCom(p) \/ DoCloseCom(p) \/ LinuxStep(p) \/ Restart(p)
  /\ UNCHANGED <<timer, keys, engine, line, tried>>

PInit ==
  /\ Init
  /\ TimerInit
  /\ keys = 0
  /\ stack = << >> /\ TX_sentRequest = "idle"
  /\ asked = FALSE /\ bytes = FALSE /\ tried = FALSE

PNext ==
  \/ Key \/ ExitCommand \/ CallTimer \/ MainStep
  \/ Tick \/ Alarm \/ Handler
  \/ Type \/ Answer \/ Lose \/ Others

PSpec == PInit /\ [][PNext]_pvars

\* System calls return, an armed timer fires, a handler goes on unless it
\* waits for a key, and not every answer is lost.
PFairSpec ==
  PSpec /\ WF_pvars(MainStep) /\ WF_pvars(Tick) /\ WF_pvars(Handler) /\ SF_pvars(Answer)
-----------------------------------------------------------------------------
(* Properties *)

\* The types, and that main() is in one call at a time.
ProgramTypeOK ==
  /\ {armed, failed} \subseteq BOOLEAN
  /\ {sigalrm, old_handler} \subseteq {"default", "timer_sig_handler"}
  /\ call \in {"none", "setitimer", "sigaction", "disarm", "restore"}
  /\ call # "none" => pc[me] = "idle"
  /\ keys \in 0 .. MaxKeys
  /\ stack \in Seq({"transmitt", "receive", "terminal", "interrupted"})
  /\ Len(stack) <= MaxDepth
  /\ TX_sentRequest \in {"idle", "read", "repeat"}
  /\ {asked, bytes, tried} \subseteq BOOLEAN

\* The handler that looks at no status sends to the device on a descriptor that
\* holds the lock and with the settings the program asked for.  The exceptions
\* are handlers that run within an open: before flock() another program may be
\* using the port, before tcsetattr() the settings are not set; or within a
\* close, after the settings were restored.
RequestsOnOwnPort ==
  HandlerAt("transmitt") /\ TX_sentRequest # "read" /\ Sink = "device" =>
    /\ lock = <<me, Cport[me]>> \/ pc[me] = "flock"
    /\ settings = new_port_settings(me) \/ pc[me] \in {"flock", "getattr", "setattr", "close"}

\* Once a program has tried to open the port, no handler waits for the terminal
\* and takes what is typed, whatever failed and however often the port is
\* closed and opened again.
KeysLeftToMain ==
  tried => \A i \in 1 .. Len(stack) : stack[i] \notin {"terminal", "interrupted"}

\* In whatever order the timer is started and stopped, again and again: an
\* armed timer finds its handler, unless the program is between the two calls of
\* start_timer() or the second of them has failed.
AlarmIsHandled ==
  armed /\ sigalrm = "default" => call = "sigaction" \/ failed

\* Handlers that wait for the terminal, inside one another, all end when
\* something is typed: main() runs again.
MainRunsAgain == []<>(keys > 0) => []<>MainRuns

\* However often the port was closed or failed to open while a read was
\* outstanding, with the port open and the timer running the engine goes on.
EngineGoesOn ==
  <>[](cport_status[me] = 1 /\ pc[me] = "idle" /\ armed /\ sigalrm = "timer_sig_handler")
    => []<>(TX_sentRequest = "idle")
=============================================================================
