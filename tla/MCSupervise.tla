---------------------------- MODULE MCSupervise -----------------------------
(***************************************************************************)
(* Instances of Supervise for TLC: one path is a link, to a guarded file   *)
(* or to an ordinary one.                                                  *)
(***************************************************************************)
EXTENDS Supervise

LinkToEnv == {[f \in Paths |-> IF f = "link" THEN to ELSE f] : to \in {"env", "a"}}
=============================================================================
