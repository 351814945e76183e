------------------------------ MODULE MCIndex -------------------------------
(***************************************************************************)
(* Instances of Index for TLC: a workspace that is one repository, and two *)
(* analyzers of which the first refers to what the second declares.        *)
(***************************************************************************)
EXTENDS Index

OneRepository == [r \in {WsRoot} |-> Files]
TwoAnalyzers == <<"go", "sql">>
=============================================================================
