----------------------------- MODULE MCImageBoard -----------------------------
(* Instances of ImageBoard for TLC. *)
EXTENDS ImageBoard, TLC

PlainKind == [cyclic |-> FALSE, stickied |-> FALSE, locked |-> FALSE]

Plain == {PlainKind}
PlainAndCyclic == {PlainKind, [PlainKind EXCEPT !.cyclic = TRUE]}
Cyclic == {[PlainKind EXCEPT !.cyclic = TRUE]}
AllKinds == {PlainKind, [PlainKind EXCEPT !.cyclic = TRUE], [PlainKind EXCEPT !.stickied = TRUE],
             [PlainKind EXCEPT !.locked = TRUE]}

\* Requests and filenames are interchangeable (safety only).
Symmetry == Permutations(Requests) \cup Permutations(Filenames)
===============================================================================
