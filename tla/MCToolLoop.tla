----------------------------- MODULE MCToolLoop -----------------------------
(***************************************************************************)
(* Instances of ToolLoop for TLC.                                          *)
(***************************************************************************)
EXTENDS ToolLoop

\* Batches of one and two calls with every kind of tool, and one the engine
\* refuses because done is not alone.
SomeBatches == {<<"edit", "recipe">>, <<"read", "edit">>, <<"recipe">>,
                <<"denied", "edit">>, <<"done">>, <<"read", "done">>}

TwoTrees == {"a", "b"}
=============================================================================
