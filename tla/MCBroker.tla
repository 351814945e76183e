------------------------------ MODULE MCBroker ------------------------------
(***************************************************************************)
(* Instances of Broker for TLC.                                            *)
(***************************************************************************)
EXTENDS Broker

\* broker.DefaultPolicy with a timeout.
DefaultPolicy ==
    [breaking |-> TRUE, outOfScope |-> TRUE, apply |-> TRUE, plan |-> FALSE,
     maxBreakingAuto |-> 0, timeout |-> TRUE]

\* The kind whose need for a gate depends on the evidence.
ScopeOnly == {"out_of_scope"}
=============================================================================
