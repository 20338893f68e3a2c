-------------------------------- MODULE MCMain ------------------------------
(***************************************************************************)
(* MainLoop with the arrays of main.c and files around those that come     *)
(* with the program: in order, and with one thing wrong.                   *)
(***************************************************************************)
EXTENDS MainLoop

Named(letter, k) == [index |-> <<"name", letter, k \div 10, k % 10>>, text |-> TRUE]
Ordered(letter, n) == [k \in 1 .. n |-> Named(letter, k - 1)]
With(file, k, line) == [file EXCEPT ![k] = line]

MCTable == [k \in SwitchAdr |-> IF k \in {0, 5, 7} THEN 1 ELSE 0]

Good(letter, n) ==
  {Ordered(letter, n),
   Ordered(letter, n) \o <<Named(letter, 0)>>,                         \* a line too many
   With(With(Ordered(letter, n), 1, Named(letter, 1)), 2, Named(letter, 0)),
   With(Ordered(letter, n), n, Named(letter, 0)),                     \* named twice
   With(Ordered(letter, n), 2, [index |-> <<"name", letter, 0, -1>>, text |-> TRUE])}

Bad(letter, n) ==
  {Ordered(letter, n - 1),
   With(Ordered(letter, n), n, Named(letter, n)),
   With(Ordered(letter, n), 3, [Named("", 0) EXCEPT !.text = FALSE]),
   With(Ordered(letter, n), 3, [Named(letter, 2) EXCEPT !.text = FALSE]),
   With(Ordered(letter, n), 3, Named("T", 2))}

MCProbeFiles == Good("P", MAX_PROBES) \cup Bad("P", MAX_PROBES)
                  \cup {Missing, Ordered("S", MAX_PROBES)}
MCSwitchFiles == Good("S", MAX_SWITCHES) \cup Bad("S", MAX_SWITCHES) \cup {Missing}
=============================================================================
