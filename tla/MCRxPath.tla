------------------------------ MODULE MCRxPath ------------------------------
(* RxPath for TLC. *)
EXTENDS RxPath

MCBodies == {"open", "close"}
MCUpBodies == Data \cup Answers
=============================================================================
