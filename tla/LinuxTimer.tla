------------------------------ MODULE LinuxTimer ----------------------------
(***************************************************************************)
(* start_timer() and stop_timer() of timer.c under Linux, one step per     *)
(* system call.  A SIGALRM may come before any step while the timer is     *)
(* armed: it kills the process unless timer_sig_handler is installed.      *)
(***************************************************************************)
CONSTANT TimerFaults   \* the calls of start_timer() that may fail

ASSUME TimerFaultAssumption == TimerFaults \subseteq {"setitimer", "sigaction"}

VARIABLES
  armed,        \* does the interval timer run?
  sigalrm,      \* what SIGALRM does: "default" or "timer_sig_handler"
  old_handler,  \* what stop_timer() will have it do
  call,         \* the next system call of start or stop, or "none"
  failed        \* history: has start_timer() returned 1 with the timer armed?

timer == <<armed, sigalrm, old_handler, call, failed>>

Call(here, next) == call = here /\ call' = next

StartTimer == Call("none", "setitimer") /\ UNCHANGED <<armed, sigalrm, old_handler, failed>>

Setitimer ==
  /\ \/ Call("setitimer", "sigaction") /\ armed' = TRUE
     \/ "setitimer" \in TimerFaults /\ Call("setitimer", "none") /\ UNCHANGED armed
  /\ UNCHANGED <<sigalrm, old_handler, failed>>

Sigaction ==
  /\ Call("sigaction", "none")
  /\ \/ /\ sigalrm' = "timer_sig_handler" /\ old_handler' = sigalrm
        /\ UNCHANGED failed
     \/ /\ "sigaction" \in TimerFaults
        /\ failed' = TRUE
        /\ UNCHANGED <<sigalrm, old_handler>>
  /\ UNCHANGED armed

StopTimer == Call("none", "disarm") /\ UNCHANGED <<armed, sigalrm, old_handler, failed>>

\* Mutant: only the interval is cleared, the timer fires once more.
DisarmInterval == Call("disarm", "restore") /\ UNCHANGED <<armed, sigalrm, old_handler, failed>>

Disarm ==
  /\ Call("disarm", "restore")
  /\ armed' = FALSE /\ failed' = FALSE
  /\ UNCHANGED <<sigalrm, old_handler>>

\* Whatever was saved, the default if the timer was never started.
Restore ==
  /\ Call("restore", "none")
  /\ sigalrm' = old_handler
  /\ UNCHANGED <<armed, old_handler, failed>>

\* A process that has just started, or that is started again.
TimerInit ==
  /\ armed = FALSE /\ sigalrm = "default" /\ old_handler = "default"
  /\ call = "none" /\ failed = FALSE

TimerEnds ==
  /\ armed' = FALSE /\ sigalrm' = "default" /\ old_handler' = "default"
  /\ call' = "none" /\ failed' = FALSE

TimerStep == Setitimer \/ Sigaction \/ Disarm \/ Restore
=============================================================================
