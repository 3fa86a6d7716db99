---------------------------- MODULE VersionFeed ----------------------------
(***************************************************************************)
(* What the wire promises its readers about versions, whatever the order   *)
(* in which the pushes arrive and however their steps interleave: a        *)
(* version is published once and for all, and it leaves the search results *)
(* (it is superseded) only when an update of it can be found there.        *)
(*                                                                         *)
(* WireChain, the detailed specification of newsroom/push, implements it.  *)
(***************************************************************************)
EXTENDS Naturals

CONSTANTS
    Items,        \* the guids the feed may carry, as positive integers
    EvolvedFrom   \* EvolvedFrom[g]: the guid g is an update of, or NoItem

NoItem == 0

VARIABLES
    published,    \* guids the items collection holds
    superseded    \* published guids that have a nextversion

vars == <<published, superseded>>

HasUpdate(g) == \E h \in published : EvolvedFrom[h] = g

Init == published = {} /\ superseded = {}

(***************************************************************************)
(* A version arrives.  When its update is already there (it comes late) it *)
(* may be superseded from the start.                                       *)
(***************************************************************************)
Publish(g) ==
    /\ g \notin published
    /\ published' = published \cup {g}
    /\ \/ superseded' = superseded
       \/ HasUpdate(g) /\ superseded' = superseded \cup {g}

\* A published version with a published update leaves the search results.
Supersede(g) ==
    /\ g \in published \ superseded
    /\ HasUpdate(g)
    /\ superseded' = superseded \cup {g}
    /\ UNCHANGED published

Next == \E g \in Items : Publish(g) \/ Supersede(g)

Spec == Init /\ [][Next]_vars
=============================================================================
