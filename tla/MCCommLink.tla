----------------------------- MODULE MCCommLink -----------------------------
(* CommLink for TLC: threads are interchangeable; Nat and Seq are bounded. *)
EXTENDS CommLink, TLC

CallerSym == Permutations(Callers)
=============================================================================
