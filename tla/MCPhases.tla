------------------------------ MODULE MCPhases ------------------------------
(***************************************************************************)
(* Instances of Phases for TLC.                                            *)
(***************************************************************************)
EXTENDS Phases

\* No preset generates anything.
NoGenerator == [c \in Codes |-> c]

\* One frozen generate preset that rewrites "src" into "gen" and leaves
\* everything else alone.
OneGenerator == [c \in Codes |-> IF c = "src" THEN "gen" ELSE c]

AllPoints == Points

\* Everywhere but inside the three windows in which a handler relies on a
\* candidate it computed earlier.
OutsideWindows == Points \ {"phase", "carded", "committing"}

\* Between runs and between phases.
Boundaries == {"idle", "top"}

Nowhere == {}
=============================================================================
