# A verification project for the GBT SCA interface

The program talks over a serial line to an FPGA at the end of a GBT link. It
shows the values of 36 *switches* and 30 *probes*, is meant to keep the switches
at the values of a table, and takes commands on a small curses screen. It is
about 2400 lines of C (`main.c`, `cmds.c`, `signals.c`, `rs232.c`, `timer.c`).

This directory models it in TLA+, checks the models with TLC, and proves the
safety properties of all its parts with TLAPS. `PROJECT.json`
lists the components, runs, mutants, theorems, the source lines each definition
stands for, and the hazards that the properties are for.

## Inventory

| Part | State | Operations | Interacts with | Correct when |
|---|---|---|---|---|
| Polling engine (`main.c` 277-394) | `TX_sentRequest`, `TX_sentAddress`, `txReq`, `REQ_ADDRESS`, `tx_data`, the displayed data | `Transmitt`, `Receive`, called by `timer_handler` | timer (callback), port (calls), signals | requests go round in order, reads are repeated until something is received, writes carry the table, the display is right |
| Timer (`timer.c`) | the installed handler, the interval | `start_timer`, `stop_timer`, the signal handler | calls the engine between, or inside, any statements | one handler at a time; no signal without a handler |
| Serial port (`rs232.c`) | `Cport[]`, saved settings, lock, device settings and lines | open, close, poll, send, modem and flush helpers, for Linux and for Windows | kernel, other programs | one user at a time, nothing leaked, settings given back |
| Commands (`cmds.c`) | `cport_status`; the table is only read | `read`, `write`, `status`, `open`, `close`, `exit` | port, line editor | what is announced is what was asked for |
| Line editor and screen (`main.c` 80-257) | `myCmd`, `print_toggle` | keys, Enter, resizing, printing | commands, signals | no access outside `myCmd` and the arrays it is split into (which the code does not keep) |
| Signal table (`signals.c`) | arrays of signals: index, name, type, data | load from file, set, get, print, free, encode, decode | engine, screen | a signal is found at its address |
| Exit (`main.c` 376, `cmds.c` 21) | `exitFlag` | `exitProgram`, `do_exit` | timer, port, signals | everything released once, in order |
| FPGA and line (external) | a register per address, bytes under way | answer a read, execute a write; lose, delay, add noise | engine | - |

**What is hard.** The engine runs in a timer callback beside the main loop;
under Linux it may interrupt itself (`SA_NOMASK`), and it sends and polls without
looking at whether the port is open. Requests and answers are lost, repeated,
late. Opening a port is a chain of calls any of which can fail, in competition
with other programs. The signal table is what two text files say. Arithmetic is
done in unsigned chars. The list of hazards, each at its line, is in
`PROJECT.json`.

**State of the code.** At this commit `main()` does not call `start_timer`, and
nothing sets `exitFlag`. The engine is modelled as the handler that
`start_timer(RX_TIMER, timer_handler)` installs, which is what it is written
for; everything said below about the engine is about that configuration.
`GbtProgram` lets `main()` call `start_timer` and `stop_timer` at any time.
`read` and `write` only announce requests, and the table keeps its initial
value; the models have them do just that.

## Modules

| Module | What it is |
|---|---|
| `GbtWire` | Bytes on the line: request codes, the answer byte taken apart. |
| `GbtSignals` | Sizes and the address map: switches first, then probes; the address that `read` announces for a name. |
| `GbtSweep` | Abstract specification of the engine: reads in order, then writes in order, for ever; no read is left before a byte was received. |
| `GbtPoll` | The engine, one handler at a time, with the line and the FPGA. Refines `GbtSweep`. |
| `GbtPollHistory` | `GbtPoll` with history variables: which value of which register a byte, and a displayed signal, comes from, and how old each request on the line is. |
| `GbtNested` | The engine access by access, handlers interrupting handlers. Refines `GbtSweep` until the first of them does. |
| `PortContract` | Abstract specification of a port that several programs share: one owner, free, opening, open, closing. |
| `RS232Port` | What both halves of `rs232.c` have in common, with `do_openCom`, `do_closeCom` and the end of a program. |
| `RS232Linux`, `RS232Windows` | The system calls of open and close, one step each. |
| `RS232Builds` | Both halves together, the port's properties. Refines `PortContract`. |
| `LinuxTimer` | `start_timer` and `stop_timer`, one step per system call. |
| `GbtProgram` | One process under Linux: `main()`, timer, engine and port (`LinuxTimer`, `RS232Linux`), with other programs on the device. |
| `SignalTable` | Reading the signal files, and the initial data. |
| `LineEditor` | The keys of the command line and the split of a line. |
| `MainLoop` | `main()`: `SignalTable`, then `LineEditor`. |
| `Commands` | Dispatch and arguments of the commands. |
| `GbtPollProofs`, `GbtPollHistoryProofs`, `GbtNestedProofs`, `RS232BuildsProofs`, `GbtProgramProofs`, `MainLoopProofs`, `CommandsProofs` | Theorems. |
| `MCPoll`, `MCPollHistory`, `MCNested`, `MCPort`, `MCProgram`, `MCMain`, `MCCommands` | Values of the constants for TLC. |

Some modules hold *mutants*, operators marked so in their comment: variants of
the definition that follows them with a plausible bug. They are used nowhere;
replacing the definition by its mutant makes TLC report the property that
`PROJECT.json` names beside it, which shows that the property can fail.

### The engine: `GbtPoll`

Variables have the names of the globals. `handler` says which of the two calls
in `timer_handler` comes next, so answers can arrive between them. `txline` is
the requests sent and not yet at the FPGA, `rx` the received bytes in the
driver's buffer, `regs` the FPGA's registers.

- `Transmitt`: idle sends a new request (`SendNew`: code, address, cursor and,
  at the end of a sweep, the turn from reading to writing or back); `REQ_REPEAT`
  sends `tx_data` again. The write sweep visits all addresses: at those of
  probes, `GBT_SWTABLE[REQ_ADDRESS]` reads past the table, and the value is an
  arbitrary bit (`TableEntries`).
- `Receive`: after a read, up to `PollSize` bytes are taken and stored in order.
  The loop over the bytes is stated by its result: a signal gets the last value
  for it (`LastFor`, `Stored`). No byte: the read is to be repeated.
- The environment: the FPGA answers reads and executes writes in order; a
  request or its answer may be lost; noise adds bytes with addresses out of
  range, as main.c:301 reports; registers change by themselves.

`Transmitt` never waits and never looks at the result of `RS232_SendBuf`. The port
is opened with `O_NDELAY`, so a `write()` may fail while earlier requests are
still under way, and does fail when the driver's buffer is full: `SendBuf` adds the
request to the line or leaves the line alone, and the cursor moves in both cases.
A request that got onto the line may still be lost there, oldest first
(`LoseRequest`). A request of which only one byte is written counts as failed.

The requests on the line need not be consecutive, then, and the newest need not
be the one in `tx_data`. What remains true, `LineInOrder`, is stated with the
history variable `since` of `GbtPollHistory`: how many new requests were issued
after each one on the line, sent or not (counted up to one round, `Round`). Each
is that many positions before the one in `tx_data`; later ones are younger; and
of the same age there are only a read and its repetitions. `TX_sentAddress` is
assigned and never read; on a repetition it gets the cursor, not the address
that is sent.

### Nested handlers: `GbtNested`

timer.c:68 installs the Linux handler with `SA_NOMASK`. `GbtNested` has a stack
of handlers and one step for each condition, load and assignment of a global.
What a handler has loaded and not yet stored is with its place on the stack:
`Load` and `Store` split `REQ_ADDRESS++`, `Flip` and `Turn` the switch over `txReq`,
`Table` and `Code` the lookup and the assignment of `tx_data[0]`, `Poll`, `Idle`
and `Settle` the part of `Receive` that carries `n`. `TX_sentRequest` is read twice
(`Choose`, `Again`), and so is `txReq` (`Kind`, `Other`): when another handler
turns it in between, neither branch is taken, and `tx_data[0]` keeps the code of the
last request. The line is reduced to its newest request and to whether there
are bytes, since only the coherence of the globals is asked about; a `write()`
that fails is a request that is lost at once. As long as no
handler has been interrupted (`nested = 0`), its statements refine `GbtSweep`
(`UninterruptedSweeps`): a request counts as issued when it is sent, and the
unsent `tx_data` of `Making` as not yet there; a read counts as acknowledged when
`Poll` takes bytes, although `TX_sentRequest` follows two statements later. So
the two steps of `GbtPoll` are what the statements amount to. Nesting takes
a handler that is still running when the next signal comes. `RX_TIMER` is
10000 under Linux, "use microseconds" (main.c:26), while `start_timer` takes
milliseconds: with this argument the period would be ten seconds, not ten
milliseconds, and a handler has to be stopped for that long (by a
blocked write or a suspended machine). The model says what happens then, not how
often. One place where it always happens is in `GbtProgram`: a read that waits
for the terminal.

### The port: `RS232Port`, `RS232Linux`, `RS232Windows`, `RS232Builds`

One action per system call of `RS232_OpenComport` and `RS232_CloseComport`, per
program, with `do_openCom` and `do_closeCom` around them. `pc` is the next call.
The checks of number, baud rate and mode come first (`Legal`, with the tables of
the build). Every call named in `Faults` may fail; a program may be killed at any
point (`Restart`), which is also what `do_exit` amounts to. The kernel hands out
the lowest free descriptor and drops a lock with the descriptor that took it.

- Linux: `open`, `flock`, `tcgetattr`, `tcsetattr`, `TIOCMGET`, `TIOCMSET`; a
  failure of the last two leaves the locked descriptor behind. `flock` fails
  when somebody has the lock, and may fail otherwise (`Faults`). `CloseUnlock` is
  the `flock` after `close`, on a closed descriptor. `spoiled` is a history
  variable, read by no action: a program left with the port open, or could
  not restore the settings.
- Windows: `CreateFileA` with share mode 0 is the lock; every later failure
  closes the handle. Closing leaves the program's settings on the device, so
  `SettingsGivenBack` is about Linux alone.

`PortContract` knows an owner and a phase. The refinement mapping takes the
program with the lock for the owner, and reads the phase off `cport_status` and
`pc`: a Linux program that leaked its descriptor is "opening" until it is
restarted, which the contract allows, since an opening may fail or end.

### The program: `GbtProgram`

`stack` has the place of each running handler; `main()` takes a step when it is
empty. A handler may therefore run between any two system calls of an open, a
close, `start_timer` or `stop_timer`. `Sink` is where `RS232_SendBuf` sends to
and `RS232_PollComport` reads from: the terminal while `Cport` is 0, the device,
or nowhere (-1, or closed). A read from the terminal waits for a key, the next
SIGALRM runs a handler inside it, and when that returns the interrupted `read()`
fails with `EINTR` (no `SA_RESTART`), which `Receive` takes for no byte. SIGALRM
without its handler ends the process (`Alarm`). Which requests these are, and
what is displayed, is `GbtPoll`'s business: `GbtProgram` keeps only whether a
read is outstanding, whether the FPGA has one to answer, and whether bytes wait.
To the port, the process is one more program of `RS232Builds` (`PortStep`).

### `SignalTable`, `LineEditor`, `MainLoop`

A file is a sequence of lines, each with its index and whether text follows. Line
by line, `Signal_InitFromFile` appends a signal, exits (bad letter, index too
high) or crashes (`strlen(NULL)` at signals.c:376 on a line of one word);
`InitialData` is main.c:119-128, which dereferences every entry. Positions, not
indexes, are what the engine and the screen use from then on. `LineEditor`
keeps the length of the line and the cells written outside `myCmd`, `sCmd` and
`sArgs`: the code does write outside all three, see `line_overflow`.

### `Commands`

An argument is a tuple of its kind and the characters that matter, after `'0'`
was subtracted as unsigned chars. `said` is what a command announced. The loops of
`read` and `write` take one step per argument, `itok`, and `Advance` either goes on
to the next or leaves the function. `write` takes its bit from the first argument
(`WriteData`), any word that begins with 0 or 1, then goes through the names
(`WriteName`). `data` keeps its value from one iteration of the loop to the next,
as in the -O0 build of the makefile. Names are announced in upper or lower case
alike.

## Runs

Passing runs. All of them finish. `commands` and `main_loop` may deadlock, which
is where the program has been left or has crashed.

| Run | Bounds | Shows |
|---|---|---|
| `history_safety` | 2 switches, 1 probe, polls of 2 bytes, 2 requests on the line, noise at the first address out of range, 2 values of each volatile register | `TypeOK`, `CursorCoherent`, `LineInOrder`, `WritesCarryTable`, `BacklogBounded`, `DisplayGenuine`, `DisplayNeverGoesBack` |
| `poll_live` | 2 switches, 1 probe, 1 request on the line, noise at the last address of a byte | under `FairSpec`: `SwitchesRestored`, `DisplayConverges`, and `SweepsForever`, the refinement of `GbtSweep` with its fairness |
| `nested` | 2 switches, 2 probe addresses, 3 handlers deep, 3 interruptions | `TypeOK`, `OverrunBounded`, `UninterruptedSweeps`, the refinement of `GbtSweep` until a handler is interrupted, and under `FairSpec` `RecoversWhenHeard` |
| `ports` | both builds; 3 programs, one with a baud rate only Windows has; all faults, kills; descriptors 3 to 6 | `TypeOK`, `UsableWhenOpen`, `DescriptorsAccounted`, `SettingsGivenBack`, and `KeepsContract`, the refinement of `PortContract` with its fairness |
| `program` | 2 programs, one key typed ahead, 2 handlers deep, failing `open` and `TIOCMGET`, both timer calls | `ProgramTypeOK`, `RequestsOnOwnPort`, `KeysLeftToMain`, `AlarmIsHandled`; under `PFairSpec` `MainRunsAgain`, `EngineGoesOn` |
| `main_loop` | the arrays of main.c (36, 30, 66); 12 probe files and 11 switch files in all combinations; a line of 5 characters | `MainTypeOK`, `NamesAtTheirAddresses`, `StartupEnds` |
| `commands` | all lines of up to 3 of 43 arguments, indexes at 0, 29, 30, 35, 36, 65, 66 and two with characters that are no digits | `ReadsAgreeWithReceive`, `WritesAreAsked` |

The bounds: two switches and a probe have every boundary of the
address map (first, last, the step from switches to probes, the one past the
end), and both values in the table. A poll of two bytes with two requests under
way gives short, full and overfull buffers. One interruption, two
handlers deep, already stops the sweeps or overruns the last address; `nested`
goes one handler deeper and allows three interruptions. Three programs are a
holder, a contender and one whose parameters one build refuses; in `program` the
failures are one without a descriptor (`open`) and the one that leaks it. A
second key typed ahead is read by the same `read()`. The files of `main_loop`
are those that come with the program and those with one thing wrong: a line
short, a line too many, two exchanged, a name twice, a one-digit name, an index
too high, a line of one word, an empty line, another letter, the other file, no
file. The line of `main_loop` is short, since how long it is
matters to no property of that run; `line_overflow` has the sizes of the code.
`MaxInFlight` stands for what driver and line hold; writes beyond it fail, as
they do in the code, where the buffer is larger. A handler runs every 10 ms under
Windows and a request takes 0.35 ms to shift out, so two requests on the line are
already more than a line that works would hold. `BacklogBounded` says that the answers
exceed what line and noise hold by one at most, so that retries do not make
them pile up, however long the line; it does not say that the line is never full.

Runs that show a disagreement between the code and its own words; each has an
entry under "findings":

| Run | The words | What the code does |
|---|---|---|
| `poll_probe_writes` | probes are read only (signals.c:6, cmds.c:236) | write sweeps send writes to probes, with values from beyond the table |
| `history_read_answered` | a read without a byte is repeated (main.c:367) | a late duplicate counts as the answer to the next read |
| `port_locked` | "Another process has locked the comport." (rs232.c:207) | the program's own leaked descriptor has |
| `nested_stuck` | writes go on continuously (main.h:50) | a write is taken for a read without answer and repeated for ever |
| `line_overflow` | "Prevent overflow" (cmds.c:400), "Prevents overflowing" (main.c:193) | a word of more than 30 characters is written past `sCmd` before either statement has effect |

`line_overflow` checks `OverflowPrevented` with the sizes of the code. The property
does not even count `myCmd[100]`, `sCmd[30]` and `sArgs[100]`, the cells one past
the arrays that the two commented statements write themselves, on every key and
every Enter; its trace shows these too. How far it goes is proved:
`LineStaysBounded`, `SplitStaysBounded`.

`nested_stuck` needs the nesting described above, with the timer started. One
interruption is enough; without any, `GbtPoll` has the stronger `SweepsForever`.

Some properties name exceptions, which the runs do reach: a request goes out on a
port that is not locked yet, or on one whose settings are not made, from a
handler that runs within an open (`RequestsOnOwnPort`); SIGALRM kills the program
between the two calls of `start_timer`, or after the second failed
(`AlarmIsHandled`); before the first open, typed keys are taken for answers
(`KeysLeftToMain`).

Read in the source and not run: `write 0 S36` says "Write ignored." (cmds.c:229)
and then announces the write to address 36, the first probe's (cmds.c:232);
`read P30` passes the scope check of cmds.c:152, which looks at the index before
36 is added (154 says it is ignored); the `write` command changes no table
(main.h:49 says it does); a one-digit name, such as the P0 in the comment of
signals.c:5, gets an index below 0, since signals.c:91 checks only the upper
bound; a vertical tab as the only argument is counted by `countArgs` and skipped
by `sscanf`, which leaves `sArgs` unset; main.c:219-220 add the absolute row
that `Signal_PrintSet` returns to `gy`; a handler that interrupts another
between main.c:337 and 341 leaves one request's code with another's address.

### Fairness

`FairSpec` of `GbtPoll` has weak fairness of the two calls (the interval timer
keeps firing and the calls do not block), and a fair line: if `Transmitt` makes
the request for an address again and again (`Requests`, whether the `write()`
succeeds or not), then the FPGA takes such a request again and again. For reads
this is asked of every address, for writes only of the switches. It is about the
line, not the code; without it, nothing can be promised of a device that never
answers. `Glitch`, `LoseRequest` and `RegisterChange` have
no fairness. `GbtNested` has weak fairness of the running handler and of the timer,
and strong fairness of the answers. `FairSpec` of `RS232Builds` has weak fairness
of the system calls of each program: they return; nobody is obliged to open or
close. `PFairSpec` of `GbtProgram` has that of `main()`'s calls, of the armed
timer and of the handlers, except that a read from the terminal waits until
something is typed, and strong fairness of the answers; no command is ever
obliged to be typed. `MainSpec` has weak fairness of startup, which waits for
nobody. Nothing else assumes fairness.

## Proofs

The theorems hold for every value of the constants that the modules' named
assumptions admit; TLC evaluates these assumptions in the runs. "For every"
below means that.

**The engine** (`GbtPollProofs`), for every number of switches and probes up to
128 addresses, every table, poll size, noise and bound on the line:
`EngineIsTyped`, `CursorIsCoherent`, `SwitchWritesCarryTable`,
`BacklogStaysBounded`, and `PollImplementsSweep` (`Spec => Sweep!Safety`, the
safety part of `SweepsForever`). The inductive invariant is `IInv`, `TypeOK`
with `CursorCoherent`: the cursor is one position after the request in
`tx_data`, only a read is ever outstanding, and each state of `TX_sentRequest`
is possible at one of the two calls. All of it is needed: a repetition sends
`tx_data` unchanged, so that it repeats a read, and the right one, only because
of the second part, and `Transmitt` has no third case only because of the last.
`WritesCarryTable` is then inductive relative to `IInv`: a step appends the
newest request, takes the oldest, or leaves the line alone (`LineSteps`).
`BacklogBounded` is not inductive: it allows one read more than line and noise
hold, and says nothing of when. `BacklogInv` allows it only between a
`Transmitt` that sent a read and its `Receive`; a poll that leaves bytes behind
took at least one, and one that took none found none. Refinement follows from
`IInv` step by step.

**The display** (`GbtPollHistoryProofs`): `DisplayIsGenuine` and
`DisplayOnlyAdvances`. The history variables only watch (`HistoryOnlyWatches`,
`HSpec => Spec`), so that all that is proved of the engine holds with them
(`EngineInvariantsHold`). `RequestsInOrder` proves `LineInOrder` from `IInv` and the
types of the ages: when a request is issued, everything on the line gets one older,
the request in `tx_data` moves on by one position (`AfterOneMore`), and what is
appended, if the `write()` succeeds, has age 0; a repetition ages nothing. The
invariant `HInv` adds to `IInv` that every byte in the
buffer carries the value of its register that its version says, and that the
bytes for one address are in the order of their versions, none older than what
is displayed. What a poll does to one signal is `PollShows`: it shows the last of
the polled bytes for it, or nothing changes.

**Nested handlers** (`GbtNestedProofs`), for every depth and number of
interruptions: `GlobalsAreTyped` and `OverrunIsBounded`. A bound on the cursor
alone is not inductive, since a handler that has passed its check may be
interrupted by others that move the cursor. `CursorInv` says that the i-th
handler, between its check and its increment, leaves room for i steps: a handler
checks at the last address at the latest, and there are `MaxDepth` of them; one
that has loaded the byte stores its own value, and leaves room for those it
interrupted. `UninterruptedEngineSweeps` is the refinement of `GbtSweep` until the
first interruption. Its invariant `AloneInv` says for each statement what is
already true of the globals and what is not: `Fits` while a request is made and
sent, `InStep` (the cursor one position after the request) outside.

**The port** (`RS232BuildsProofs`), for both builds, any number of programs,
parameters and faults: `PortIsTyped`, `OpenPortIsUsable`, `NoDescriptorIsLost`,
`DeviceIsGivenBack`, `BuildsKeepContract` (`Spec => Contract!Safety`). The
invariant `PortInv` has four parts for each program: where it may be and with
which `cport_status` (`PlaceInv`), its descriptors and the lock (`LockInv`), the
device while it has the lock (`DeviceInv`), and what it saved (`SavedInv`). A
step is described once by what it does to its own program (`StepHasEffect`) and
once by what it leaves to the others (`Apart`, `OthersKeep`): it writes the
device only with the lock, and never another's lock.

**The program** (`GbtProgramProofs`): `EngineOnOwnPort`, `AlarmFindsHandler`,
`KeysAreLeftToMain`, `ProgramIsTyped`. Every step of the process is, to the port, a
step of `RS232Builds` or none (`PortStep`). So `PSpec => Spec`
(`ProgramImplementsPort`), and what is proved of the ports holds of the whole program
with its timer and its handlers (`ProgramKeepsContract`); `EngineOnOwnPort` follows
from `PortInv`. `TimerInv` adds that the timer is off between the calls
of `stop_timer`. `StackInv` says that only a handler waiting for the terminal is
interrupted, and that `Cport` is not 0 once an open was tried, whatever came of
it, so that no handler starts to wait again.

**Startup and the line** (`MainLoopProofs`), for all files, sizes and widths:
`TableIsTyped`, `NamesReachTheirSignals`, `LineStaysBounded`, `SplitStaysBounded`. The
invariant `Full` says that the arrays have their full length once the loop runs:
`InitialData` crashes on a missing entry. `NamesReachTheirSignals` rests on
`LineByLine`: entry k of an array is made of line k of its file, whatever was
refused before. `do_read` adds the literal 36 to the index of a probe (cmds.c:163),
so this theorem, like `ReadsAgree` below, is for `MAX_SWITCHES = 36`, as in
signals.h, and any number of probes. The other two say how far the overflow that
`line_overflow` shows can go, not that there is none: three cells around `myCmd`,
up to the cell `CMD_WIDTH` of `sCmd`, one cell behind `sArgs`.

**Commands** (`CommandsProofs`), for any set of arguments and lines of any length:
`OnlyAskedWrites` and `ReadsAgree`. The invariant `CInv` says that after k arguments
what `read` announced is one entry for each of them, and that beyond its first
argument `write` has in `data` the bit that this began with, and has reported no
error. That the loop leaves
at the first argument without a bit is what keeps the initial `data` from being
announced.

Only model-checked: liveness (`SwitchesRestored`, `DisplayConverges`,
`RecoversWhenHeard`, `MainRunsAgain`, `EngineGoesOn`, `StartupEnds`) and the
fairness parts of `SweepsForever` and `KeepsContract`, since liveness under
fairness and `ENABLED` are out of the prover's reach. Every invariant that a passing run
checks is also a theorem. No module that is proved about reaches a `RECURSIVE`
operator; where the code loops over data, the models state the result of the loop
(`LastFor`, `Cardinality`) or take one step for each turn (`SignalTable`,
`Commands`), so that no induction over data is needed.

## Not modelled, and why

- Creating and deleting the Windows timer: single calls, and `start_timer` has no
  caller. `WT_EXECUTEINTIMERTHREAD` runs one handler at a time, which is what
  `GbtPoll` assumes; that a Windows handler runs beside `main()` matters only for
  the order of output.
- `exitProgram` and the flush it calls: nothing sets `exitFlag`.
- `Signal_Encode` and `Signal_Decode` (signals.c:286-318): no caller, and "NOT WORKING
  PROPERLY ATM" (signals.c:303).
- Modem line and flush helpers, `RS232_SendByte`, `RS232_cputs`, `Signal_Free`,
  `Signal_FreeArray`, `Signal_PrintData`, `Signal_PrintIndex`: no caller, or only
  `exitProgram`.
- Curses output, formatting, resizing arithmetic: no state that matters later.
- What a stray write hits: it depends on the stack layout. `LineEditor` takes
  the cells around the arrays to be unused.
- Build files and `Debug/`.

## Plan

Done: all the modules above. What could still be added, in this order:

1. A statement-level composition of `GbtNested` with the blocked read of
   `GbtProgram`, to ask what a torn request (main.c:341) can do to a switch.
2. `exitProgram` and the Windows timer, when a commit gives them a caller.
