----------------------------- MODULE MCApiLocks -----------------------------
(* Instances of ApiLocks for TLC. *)
EXTENDS ApiLocks

MCApps == {AllOps, AllOps \ {"close"}, AllOps \ {"close", "disconnect", "badId"}}
=============================================================================
