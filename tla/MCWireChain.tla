---------------------------- MODULE MCWireChain ----------------------------
(***************************************************************************)
(* Instances of WireChain.  Chain is a story of one line of versions,      *)
(* 1 <- 2 <- 3 (<- 4); Fork is one whose first version has two updates.    *)
(***************************************************************************)
EXTENDS WireChain

Chain == [g \in Items |-> g - 1]
Fork == [g \in Items |-> IF g \in {2, 3} THEN 1 ELSE IF g = 1 THEN NoItem ELSE g - 1]
OneStory == [g \in Items |-> "story"]

Once == [g \in Items |-> 1]
Twice == [g \in Items |-> 2]
OneTwice == [g \in Items |-> IF g = 1 THEN 2 ELSE 1]
=============================================================================
