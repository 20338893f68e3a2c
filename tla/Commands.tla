------------------------------ MODULE Commands ------------------------------
(***************************************************************************)
(* The commands of cmds.c, as main()'s loop runs them when Enter is        *)
(* pressed: do_commandline() splits the line into a command and its        *)
(* arguments, do_cmd() looks the command up and calls its function.        *)
(*                                                                         *)
(* An argument is a tuple that starts with its kind:                       *)
(*   <<"word", w>>        a word; only those the commands know matter,     *)
(*   <<"bit", d>>         one of another length that begins with a         *)
(*                        character that is d after subtracting '0',       *)
(*   <<"name", c, t, u>>  three characters: c is S, P, 0, 1 or another,    *)
(*                        t and u are taken less '0', as bytes.            *)
(* What read and write announce is kept, in order: it is all they do.      *)
(* Their loops over the arguments take one step per argument.              *)
(***************************************************************************)
EXTENDS GbtSignals, Sequences

CONSTANTS
  WantedTable,   \* GBT_SWTABLE as main.c initializes it
  Tokens,        \* the arguments that can be typed ...
  MaxArgs        \* ... and how many of them (bound)

ASSUME CommandsAssumption ==
  /\ WantedTable \in [SwitchAdr -> 0 .. 1]
  /\ MaxArgs \in Nat
ASSUME TokensAssumption ==
  \A token \in Tokens :
    token[1] = "name" => token[3] \in 0 .. 255 /\ token[4] \in 0 .. 255

VARIABLES
  GBT_SWTABLE,   \* the table the writes are to carry
  cport_status,  \* 1 when the comport is open
  running,       \* the program has not left by its exit command
  command,       \* the command line: its name, "" at the prompt, ...
  args,          \* ... its arguments ...
  itok,          \* ... which of them is at hand, from 1, beyond the last when the
                 \* function has returned ...
  data,          \* ... the bit that do_write is to write ...
  said           \* ... and what read or write announced for it

line == <<command, args, itok, data, said>>
program == <<GBT_SWTABLE, cport_status, running>>
vars == <<program, line>>

-----------------------------------------------------------------------------
(* Arguments *)

\* "cont" and "all" end do_read and do_write at once.
IsMode(token) == token \in {<<"word", "cont">>, <<"word", "all">>}
IsName(token) == token[1] = "name"

\* The first character less '0', as far as it can be a bit.
Leading(token) ==
  CASE token[1] = "bit" -> token[2]
    [] IsName(token) /\ token[2] = "0" -> 0
    [] IsName(token) /\ token[2] = "1" -> 1
    [] OTHER -> 255
IsData(token) == Leading(token) \in {0, 1}

\* The loops go on to the next argument, or the function returns.
Advance(returns) == itok' = IF returns THEN Len(args) + 1 ELSE itok + 1
Over == itok \notin DOMAIN args

-----------------------------------------------------------------------------
(* do_read() *)

OutOfScope(token) == IndexOf(token) > GBT_DATA_WIDTH - 1

ReadSays(token) ==
  IF IsMode(token) THEN <<"mode">>
  ELSE IF ~ IsName(token) THEN <<"error">>
  ELSE IF OutOfScope(token) THEN <<"ignored", IndexOf(token)>>
  ELSE IF token[2] \in {"S", "P"} THEN <<"read", ReadAddress(token)>>
  ELSE <<"error">>

ReadEnds(token) ==
  ~ IsName(token) \/ (~ OutOfScope(token) /\ token[2] \notin {"S", "P"})

ReadArgument ==
  /\ command = "read" /\ ~ Over
  /\ said' = Append(said, ReadSays(args[itok]))
  /\ Advance(ReadEnds(args[itok]))
  /\ UNCHANGED <<program, command, args, data>>

-----------------------------------------------------------------------------
(* do_write() *)

\* The first argument must begin with the bit to write.
WriteData ==
  /\ command = "write" /\ ~ Over /\ itok = 1
  /\ said' = IF IsMode(args[1]) THEN << <<"mode">> >>
             ELSE IF ~ IsData(args[1]) THEN << <<"error">> >>
             ELSE << >>
  /\ data' = IF IsData(args[1]) THEN Leading(args[1]) ELSE data
  /\ Advance(~ IsData(args[1]))
  /\ UNCHANGED <<program, command, args>>

\* Mutant: a probe is written at its address.
WriteSaysProbes(token) ==
  IF ~ IsName(token) \/ token[2] \notin {"S", "P"} THEN << <<"error">> >>
  ELSE << <<"write", ReadAddress(token), data>> >>

\* An index out of scope is reported as ignored, and then announced.
WriteSays(token) ==
  IF ~ IsName(token) THEN << <<"error">> >>
  ELSE IF token[2] = "S"
    THEN IF IndexOf(token) > MAX_SWITCHES - 1
           THEN << <<"ignored", IndexOf(token)>>, <<"write", IndexOf(token), data>> >>
           ELSE << <<"write", IndexOf(token), data>> >>
  ELSE IF token[2] = "P" THEN << <<"ignored", IndexOf(token)>> >>
  ELSE << <<"error">> >>

WriteEnds(token) == ~ IsName(token) \/ token[2] \notin {"S", "P"}

\* In the build at hand (-O0) data keeps its value from one argument to the
\* next, although it is declared within the loop.
WriteName ==
  /\ command = "write" /\ ~ Over /\ itok > 1
  /\ said' = said \o WriteSays(args[itok])
  /\ Advance(WriteEnds(args[itok]))
  /\ UNCHANGED <<program, command, args, data>>

-----------------------------------------------------------------------------
(* do_commandline() and do_cmd() *)

\* A command line is typed at the prompt; there may be arguments to go through.
AtPrompt == running /\ command = ""
Typed(name, tokens, first) ==
  /\ command' = name /\ args' = tokens /\ itok' = first
  /\ UNCHANGED <<data, said>>

ReadOrWrite ==
  /\ AtPrompt
  /\ \E name \in {"read", "write"}, n \in 1 .. MaxArgs :
       \E tokens \in [1 .. n -> Tokens] : Typed(name, tokens, 1)
  /\ UNCHANGED program

\* The comport; RS232Port has the steps, any of which may fail.
Open ==
  /\ AtPrompt
  /\ \E token \in Tokens :
       /\ Typed("open", <<token>>, 2)
       /\ IF token = <<"word", "comport">> /\ cport_status = 0
            THEN cport_status' \in {0, 1}
            ELSE UNCHANGED cport_status
  /\ UNCHANGED <<GBT_SWTABLE, running>>

Close ==
  /\ AtPrompt
  /\ \E token \in Tokens :
       /\ Typed("close", <<token>>, 2)
       /\ cport_status' = IF token = <<"word", "comport">> THEN 0 ELSE cport_status
  /\ UNCHANGED <<GBT_SWTABLE, running>>

\* Only the first character is looked at; the port is not closed.
Exit ==
  /\ AtPrompt
  /\ \E token \in Tokens :
       /\ Typed("exit", <<token>>, 2)
       /\ running' = ~ IsData(token)
  /\ UNCHANGED <<GBT_SWTABLE, cport_status>>

\* A name without arguments, or one that is not in the table, prints at most
\* its usage; so does status whatever its arguments.
OnlyPrint ==
  /\ AtPrompt
  /\ \E name \in {"read", "write", "status", "open", "close", "exit", "other"} :
       Typed(name, << >>, 1)
  /\ UNCHANGED program

\* The function has returned: main() wipes the line and prompts for the next one.
Prompt ==
  /\ running
  /\ command # "" /\ Over
  /\ command' = "" /\ args' = << >> /\ itok' = 1 /\ data' = 0 /\ said' = << >>
  /\ UNCHANGED program

Init ==
  /\ GBT_SWTABLE = WantedTable
  /\ cport_status = 0
  /\ running = TRUE
  /\ command = "" /\ args = << >> /\ itok = 1 /\ data = 0 /\ said = << >>

Next ==
  \/ ReadOrWrite \/ ReadArgument \/ WriteData \/ WriteName
  \/ Open \/ Close \/ Exit \/ OnlyPrint \/ Prompt

Spec == Init /\ [][Next]_vars
-----------------------------------------------------------------------------
(* Properties *)

\* The signal a well-formed name stands for, in the words of main.c and of the
\* signal files: S00-S35 and P00-P29.
Named(token) ==
  CASE token[2] = "S" /\ IndexOf(token) < MAX_SWITCHES -> <<"switch", IndexOf(token)>>
    [] token[2] = "P" /\ IndexOf(token) < MAX_PROBES   -> <<"probe", IndexOf(token)>>
    [] OTHER -> <<"unknown", 0>>

\* The commands and the engine agree on the addresses: the one announced for a
\* signal that is read is the one under which Receive stores that signal.
ReadsAgreeWithReceive ==
  command = "read" =>
    \A i \in 1 .. Len(said) :
      said[i][1] = "read" /\ Named(args[i])[1] # "unknown"
        => SignalAt(said[i][2]) = Named(args[i])

\* Whatever the order of the arguments, and with errors among them, a probe or
\* a value that is no bit is never announced for a write: every write is one of
\* the S arguments with the bit of the first one. A bad argument ends it: what
\* was announced before stands, and nothing is after the error.
WritesAreAsked ==
  command = "write" =>
    /\ \A i \in 1 .. Len(said) : said[i][1] = "write" =>
         /\ Leading(args[1]) = said[i][3] /\ said[i][3] \in {0, 1}
         /\ \E j \in 2 .. Len(args) :
              IsName(args[j]) /\ args[j][2] = "S" /\ IndexOf(args[j]) = said[i][2]
    /\ \A i \in 1 .. Len(said) - 1 : said[i][1] # "error"
=============================================================================
