--------------------------- MODULE MCConfigSync ---------------------------
(* ConfigSync on small instances: the last edit reverts the one before it.        *)
EXTENDS ConfigSync, TLC

\* Contents a, b, a for the edits 1, 2, 3.
Reverting == [d \in 1..MaxEdits |-> IF d % 2 = 1 THEN "a" ELSE "b"]

\* Exchanges are interchangeable, and so are the ids of rows (rank orders them).
Symmetry == Permutations(Conns) \cup Permutations(Rows)
===========================================================================
