-------------------------- MODULE MCPassThruStack --------------------------
(* PassThruStack for TLC. *)
EXTENDS PassThruStack, TLC

MCBodies == Commands
MCUpBodies == StackUpBodies
CallerSym == Permutations(Callers)
=============================================================================
