----------------------------- MODULE LineEditor -----------------------------
(***************************************************************************)
(* The keyboard side of main()'s loop in main.c: the command line myCmd    *)
(* and print_toggle.  The line is its length; Enter has do_commandline()   *)
(* of cmds.c split it, and what the command does is in Commands.  Every    *)
(* assignment to an element of an array is a write to a cell; the cells    *)
(* outside the array are kept, and are taken to hold what was written.     *)
(***************************************************************************)
EXTENDS Integers

CONSTANTS
  CMD_WIDTH,   \* the size of myCmd, 100 in main.c ...
  CMD_SIZE,    \* ... and of the arrays it is split into: sCmd, 30 ...
  ARGS_SIZE    \* ... and sArgs, 100 in cmds.c

ASSUME WidthAssumption ==
  CMD_WIDTH \in Nat \ {0} /\ CMD_SIZE \in Nat /\ ARGS_SIZE \in Nat

VARIABLES
  size,          \* strlen(myCmd)
  print_toggle,  \* what the signal window shows: switches, probes or both
  strays,        \* the cells outside myCmd that were written ...
  sCmd_strays,   \* ... outside sCmd ...
  sArgs_strays   \* ... and outside sArgs

split == <<sCmd_strays, sArgs_strays>>
lineVars == <<size, print_toggle, strays, split>>

Outside(width, cells) == cells \ (0 .. width - 1)
Write(cells) == strays' = strays \cup Outside(CMD_WIDTH, cells)

-----------------------------------------------------------------------------
KeyUp ==
  /\ print_toggle' = IF print_toggle < 2 THEN print_toggle + 1 ELSE print_toggle
  /\ UNCHANGED <<size, strays, split>>

KeyDown ==
  /\ print_toggle' = IF print_toggle > 0 THEN print_toggle - 1 ELSE print_toggle
  /\ UNCHANGED <<size, strays, split>>

\* myCmd[size-1] = '\0', on an empty line too.
Backspace ==
  /\ Write({size - 1})
  /\ size' = IF size > 0 THEN size - 1 ELSE 0
  /\ UNCHANGED <<print_toggle, split>>

\* append_str() writes the character and a terminator, and then the line is
\* cut at CMD_WIDTH.
Type ==
  /\ Write({size, size + 1, CMD_WIDTH})
  /\ size' = IF size < CMD_WIDTH THEN size + 1 ELSE CMD_WIDTH
  /\ UNCHANGED <<print_toggle, split>>

\* Control-@ is a NUL: it is appended like any character, and ends the line.
TypeNul ==
  /\ Write({size, size + 1, CMD_WIDTH})
  /\ UNCHANGED <<size, print_toggle, split>>

\* sscanf() splits the line into a first word of w characters and, after a
\* separator, the a that follow, and terminates both; no width limits it. The
\* cell after each array is written afterwards.
Enter ==
  /\ size > 0
  /\ \E w \in 0 .. size : \E a \in 0 .. size :
       /\ w + a + (IF a > 0 THEN 1 ELSE 0) <= size
       /\ a > 0 => w > 0
       /\ sCmd_strays' = sCmd_strays \cup Outside(CMD_SIZE, (0 .. w) \cup {CMD_SIZE})
       /\ sArgs_strays' = sArgs_strays \cup Outside(ARGS_SIZE, (0 .. a) \cup {ARGS_SIZE})
  /\ size' = 0
  /\ UNCHANGED <<print_toggle, strays>>

\* The window was resized.
Resize == size' = 0 /\ UNCHANGED <<print_toggle, strays, split>>

LineInit ==
  size = 0 /\ print_toggle = 0 /\ strays = {} /\ sCmd_strays = {} /\ sArgs_strays = {}

LineNext == KeyUp \/ KeyDown \/ Backspace \/ Type \/ TypeNul \/ Enter \/ Resize

LineSpec == LineInit /\ [][LineNext]_lineVars
-----------------------------------------------------------------------------
(* Properties *)

\* What the comments say of the line (main.c: "Prevents overflowing") and of
\* its split (cmds.c: "Prevent overflow"): no key and no Enter writes behind the
\* arrays. The first cell behind each, which the commented statements write
\* themselves every time, is not even counted.
OverflowPrevented ==
  /\ \A cell \in strays : cell <= CMD_WIDTH
  /\ \A cell \in sCmd_strays : cell <= CMD_SIZE
  /\ \A cell \in sArgs_strays : cell <= ARGS_SIZE
=============================================================================
