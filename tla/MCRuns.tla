------------------------------- MODULE MCRuns -------------------------------
(***************************************************************************)
(* An instance of Runs for TLC: two processes and one phased task, with no *)
(* dependencies.                                                           *)
(***************************************************************************)
EXTENDS Runs

CONSTANT t1

OneTask == {t1}
NoOrder == {}
=============================================================================
