------------------------------ MODULE MCProcman ------------------------------
(***************************************************************************)
(* Instances of Procman for TLC.                                           *)
(***************************************************************************)
EXTENDS Procman

\* The inference server, which is probed, and a child that is not.
OnlyFirst == {1}
=============================================================================
