----------------------------- MODULE MCRecipes ------------------------------
(***************************************************************************)
(* Instances of Recipes for TLC: a service to bring up and down, and a     *)
(* generator, both declared in .le/verify.yaml.                            *)
(***************************************************************************)
EXTENDS Recipes

Service == [kind |-> "integration", name |-> "i", minutes |-> 20, outputs |-> {},
            up |-> TRUE, down |-> TRUE]
Generator == [kind |-> "generate", name |-> "g", minutes |-> 10, outputs |-> {"x"},
              up |-> FALSE, down |-> FALSE]
ServiceAndGenerator ==
    {[level |-> "high", frozen |-> FALSE, gomod |-> TRUE,
      declared |-> <<Service, Generator>>, config |-> <<>>, walk |-> <<>>]}
=============================================================================
