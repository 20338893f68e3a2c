----------------------------- MODULE MCCommands -----------------------------
(***************************************************************************)
(* Commands with the sizes of signals.h and the table of main.c.  The      *)
(* characters of a name are digits around the boundaries (29, 30, 35, 36,  *)
(* 65, 66), and 'J' and '-', which are no digits ("SJ0" is 4, modulo 256). *)
(***************************************************************************)
EXTENDS Commands

MCTable == [k \in 0 .. 35 |-> IF k \in {0, 5, 7} THEN 1 ELSE 0]

MCIndexes ==
  {<<0, 0>>, <<2, 9>>, <<3, 0>>, <<3, 5>>, <<3, 6>>, <<6, 5>>, <<6, 6>>, <<26, 0>>, <<253, 9>>}
MCTokens ==
  {<<"word", w>> : w \in {"cont", "all", "comport", "none"}}
  \cup {<<"bit", d>> : d \in 0 .. 2}
  \cup {<<"name", c, i[1], i[2]>> : c \in {"S", "P", "X", "1"}, i \in MCIndexes}
=============================================================================
