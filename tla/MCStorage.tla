----------------------------- MODULE MCStorage ------------------------------
(***************************************************************************)
(* Instances of Storage for TLC: one workspace with two databases, and a   *)
(* backup directory of another workspace, taken by an older build.         *)
(***************************************************************************)
EXTENDS Storage

TwoVersions == <<2, 2>>
=============================================================================
