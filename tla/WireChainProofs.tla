-------------------------- MODULE WireChainProofs --------------------------
(***************************************************************************)
(* Theorems of WireChain, for every set of guids, every shape of stories,  *)
(* any number of workers and every combination of faults.                  *)
(***************************************************************************)
EXTENDS WireChain, FiniteSetTheorems, SequenceTheorems, TLAPS

USE DEF NoItem

\* Sequences of guids stay sequences of guids.
LEMMA AppendType ==
    ASSUME NEW S, NEW s \in Seq(S), NEW e \in S
    PROVE  Append(s, e) \in Seq(S)
  OBVIOUS

\* So do two of them joined.
LEMMA ConcatType ==
    ASSUME NEW S, NEW s \in Seq(S), NEW t \in Seq(S)
    PROVE  s \o t \in Seq(S)
  OBVIOUS

\* Every reachable state is well typed, whatever races and fails.
THEOREM TypeCorrect == Spec => []TypeOK
<1>1. Init => TypeOK
  BY DEF Init, TypeOK, Handling
<1>2. TypeOK /\ [Next]_vars => TypeOK'
  <2> SUFFICES ASSUME TypeOK, [Next]_vars PROVE TypeOK'
    OBVIOUS
  <2> USE DEF Handling, Goto, dbVars, docVars, jobVars, fixVars, histVars
  <2>1. ASSUME NEW w \in Workers, NEW g \in Items, Receive(w, g) PROVE TypeOK'
    <3> USE <2>1 DEF Receive
    <3>1. /\ guid' \in [Workers -> Items \cup {NoItem}]
          /\ parent' \in [Workers -> Items \cup {NoItem}]
          /\ docOriginal' \in [Workers -> Items \cup {NoItem}]
          /\ docNext' \in [Workers -> Items \cup {NoItem}]
          /\ target' \in [Workers -> Items \cup {NoItem}]
      BY DEF TypeOK
    <3>2. docAncestors' \in [Workers -> Seq(Items)]
      BY DEF TypeOK
    <3>3. fixes' \in [Workers -> Nat] /\ pushes' \in [Items -> Nat]
      BY DEF TypeOK
    <3>4. lock' \in [Items -> Workers \cup {NoWorker}] /\ unfinished' \subseteq Items
      BY DEF TypeOK
    <3>5. pc' \in [Workers -> Handling \cup {"idle"}]
      BY DEF TypeOK
    <3>6. \A v \in Workers : pc'[v] \in Handling => guid'[v] \in Items
      BY DEF TypeOK
    <3> QED
      BY <3>1, <3>2, <3>3, <3>4, <3>5, <3>6 DEF TypeOK
  <2>2. ASSUME NEW w \in Workers, ReadOriginal(w) PROVE TypeOK'
    BY <2>2 DEF ReadOriginal, TypeOK
  <2>3. ASSUME NEW w \in Workers, ReadParent(w) PROVE TypeOK'
    <3> USE <2>3 DEF ReadParent
    <3>1. guid[w] \in Items
      BY DEF TypeOK
    <3>2. parent' \in [Workers -> Items \cup {NoItem}]
      BY <3>1 DEF TypeOK
    <3>3. docOriginal' \in [Workers -> Items \cup {NoItem}]
      <4>1. \/ docOriginal' = docOriginal
            \/ \E from \in Items : docOriginal' = [docOriginal EXCEPT ![w] = original[from]]
        BY DEF TypeOK
      <4>2. docOriginal \in [Workers -> Items \cup {NoItem}] /\ original \in [Items -> Items \cup {NoItem}]
        BY DEF TypeOK
      <4> HIDE <2>3 DEF ReadParent
      <4> QED
        BY <4>1, <4>2
    <3>4. docAncestors' \in [Workers -> Seq(Items)]
      <4> DEFINE from == EvolvedFrom[guid[w]]
      <4>1. CASE from \in stored
        <5>1. ancestors[from] \in Seq(Items) /\ from \in Items
          BY <4>1 DEF TypeOK
        <5>2. Append(ancestors[from], from) \in Seq(Items)
          BY <5>1, AppendType
        <5> QED
          BY <5>2, <4>1 DEF TypeOK
      <4>2. CASE from \notin stored
        BY <4>2 DEF TypeOK
      <4> QED
        BY <4>1, <4>2
    <3>5. pc' \in [Workers -> Handling \cup {"idle"}]
      BY DEF TypeOK
    <3> QED
      BY <3>1, <3>2, <3>3, <3>4, <3>5 DEF TypeOK
  <2>4. ASSUME NEW w \in Workers, FindUpdate(w) PROVE TypeOK'
    <3> USE <2>4 DEF FindUpdate
    <3>1. docNext' \in [Workers -> Items \cup {NoItem}]
      BY DEF TypeOK
    <3>2. target' \in [Workers -> Items \cup {NoItem}]
      BY DEF TypeOK
    <3>4. targetAnc' \in [Workers -> Seq(Items)]
      <4>1. \/ targetAnc' = targetAnc
            \/ \E h \in Items : targetAnc' = [targetAnc EXCEPT ![w] = ancestors[h]]
        OBVIOUS
      <4>2. targetAnc \in [Workers -> Seq(Items)] /\ \A h \in Items : ancestors[h] \in Seq(Items)
        BY DEF TypeOK
      <4> HIDE <2>4 DEF FindUpdate
      <4> QED
        BY <4>1, <4>2
    <3>3. pc' \in [Workers -> Handling \cup {"idle"}]
      <4>1. pc' = [pc EXCEPT ![w] = "fix"] \/ pc' = [pc EXCEPT ![w] = "store"]
        OBVIOUS
      <4>2. pc \in [Workers -> Handling \cup {"idle"}]
        BY DEF TypeOK
      <4> HIDE <2>4 DEF FindUpdate
      <4> QED
        BY <4>1, <4>2 DEF Handling
    <3> QED
      BY <3>1, <3>2, <3>3, <3>4 DEF TypeOK
  <2>5. ASSUME NEW w \in Workers, FixDescendant(w) PROVE TypeOK'
    <3> USE <2>5 DEF FixDescendant
    <3>1. /\ guid[w] \in Items
          /\ docAncestors[w] \in Seq(Items)
          /\ targetAnc[w] \in Seq(Items)
      BY DEF TypeOK
    <3>2. ancestors' \in [Items -> Seq(Items)]
      <4>1. Append(docAncestors[w], guid[w]) \o targetAnc[w] \in Seq(Items)
        BY <3>1, AppendType, ConcatType
      <4> QED
        BY <4>1 DEF TypeOK
    <3>3. original' \in [Items -> Items \cup {NoItem}]
      BY DEF TypeOK
    <3>4. fixes' \in [Workers -> Nat]
      BY DEF TypeOK
    <3>5. pc' \in [Workers -> Handling \cup {"idle"}]
      BY DEF TypeOK
    <3> QED
      BY <3>1, <3>2, <3>3, <3>4, <3>5 DEF TypeOK
  <2>6. ASSUME NEW w \in Workers, FindDescendant(w) PROVE TypeOK'
    <3> USE <2>6 DEF FindDescendant
    <3>1. target' \in [Workers -> Items \cup {NoItem}]
      BY DEF TypeOK
    <3>2. targetAnc' \in [Workers -> Seq(Items)]
      <4>1. \/ targetAnc' = targetAnc
            \/ \E h \in Items : targetAnc' = [targetAnc EXCEPT ![w] = ancestors[h]]
        OBVIOUS
      <4>2. targetAnc \in [Workers -> Seq(Items)] /\ \A h \in Items : ancestors[h] \in Seq(Items)
        BY DEF TypeOK
      <4> HIDE DEF FindDescendant
      <4> QED
        BY <4>1, <4>2
    <3>3. pc' \in [Workers -> Handling \cup {"idle"}]
      BY DEF TypeOK
    <3>4. \A v \in Workers : pc'[v] \in Handling => guid'[v] \in Items
      BY DEF TypeOK
    <3> QED
      BY <3>1, <3>2, <3>3, <3>4 DEF TypeOK
  <2>7. ASSUME NEW w \in Workers, StoreItem(w) PROVE TypeOK'
    <3> USE <2>7 DEF StoreItem
    <3>1. stored' \subseteq Items
      BY DEF TypeOK
    <3>2. ancestors' \in [Items -> Seq(Items)]
      BY DEF TypeOK
    <3>3. /\ original' \in [Items -> Items \cup {NoItem}]
          /\ nextversion' \in [Items -> Items \cup {NoItem}]
      BY DEF TypeOK
    <3>4. pc' \in [Workers -> Handling \cup {"idle"}]
      BY DEF TypeOK
    <3> QED
      BY <3>1, <3>2, <3>3, <3>4 DEF TypeOK
  <2>8. ASSUME NEW w \in Workers, LinkParent(w) PROVE TypeOK'
    <3> USE <2>8 DEF LinkParent
    <3>1. nextversion' \in [Items -> Items \cup {NoItem}]
      BY DEF TypeOK
    <3>2. pc' \in [Workers -> Handling \cup {"idle"}]
      BY DEF TypeOK
    <3> QED
      BY <3>1, <3>2 DEF TypeOK
  <2>9. ASSUME NEW w \in Workers, Announce(w) PROVE TypeOK'
    <3>1. announced' \subseteq [item : Items, topics : BOOLEAN]
      <4>1. guid[w] \in Items /\ isNew[w] \in BOOLEAN
        BY <2>9 DEF Announce, TypeOK, Handling
      <4> QED
        BY <2>9, <4>1 DEF Announce, TypeOK
    <3>2. pc' \in [Workers -> Handling \cup {"idle"}]
      BY <2>9 DEF Announce, TypeOK, Handling
    <3>3. /\ UNCHANGED <<dbVars, lock, jobVars, fixVars, histVars>>
          /\ \A v \in Workers : pc'[v] \in Handling => pc[v] \in Handling
      BY <2>9 DEF Announce, TypeOK, Handling
    <3> QED
      BY <3>1, <3>2, <3>3 DEF TypeOK
  <2>10. ASSUME NEW w \in Workers, Finish(w) PROVE TypeOK'
    <3> USE <2>10 DEF Finish
    <3>1. lock' \in [Items -> Workers \cup {NoWorker}]
      <4>1. guid[w] \in Items
        BY DEF TypeOK
      <4>2. CASE lock' = [lock EXCEPT ![guid[w]] = NoWorker]
        BY <4>1, <4>2 DEF TypeOK
      <4>3. CASE UNCHANGED lock
        BY <4>3 DEF TypeOK
      <4> QED
        BY <4>2, <4>3 DEF Unlock, TypeOK
    <3> QED
      BY <3>1 DEF TypeOK
  <2>11. ASSUME NEW w \in Workers, Fail(w) PROVE TypeOK'
    <3> USE <2>11 DEF Fail
    <3>1. lock' \in [Items -> Workers \cup {NoWorker}]
      <4>1. guid[w] \in Items
        BY DEF TypeOK
      <4>2. CASE lock' = [lock EXCEPT ![guid[w]] = NoWorker]
        BY <4>1, <4>2 DEF TypeOK
      <4>3. CASE UNCHANGED lock
        BY <4>3 DEF TypeOK
      <4> QED
        BY <4>2, <4>3 DEF Unlock, TypeOK
    <3> QED
      BY <3>1 DEF TypeOK
  <2>12. ASSUME NEW w \in Workers, Crash(w) PROVE TypeOK'
    BY <2>12 DEF Crash, TypeOK
  <2>13. ASSUME NEW g \in Items, LockExpires(g) PROVE TypeOK'
    BY <2>13 DEF LockExpires, TypeOK
  <2>14. CASE UNCHANGED vars
    BY <2>14 DEF vars, TypeOK
  <2> QED
    BY <2>1, <2>2, <2>3, <2>4, <2>5, <2>6, <2>7, <2>8, <2>9, <2>10, <2>11, <2>12, <2>13, <2>14
    DEF Next, Step
<1> QED
  BY <1>1, <1>2, PTL DEF Spec

-----------------------------------------------------------------------------

(***************************************************************************)
(* A nextversion always leads to a stored update, however the pushes of a  *)
(* story interleave and wherever they fail.                                *)
(***************************************************************************)
LEMMA LinkInvInit == Init => LinkInv
  BY DEF Init, LinkInv, NextversionSound

LEMMA LinkInvStep == TypeOK /\ TypeOK' /\ LinkInv /\ [Next]_vars => LinkInv'
<1> SUFFICES ASSUME TypeOK, TypeOK', LinkInv, [Next]_vars PROVE LinkInv'
  OBVIOUS
<1> USE DEF LinkInv, NextversionSound, IsUpdateOf, Goto, dbVars, docVars, jobVars, fixVars, histVars
<1>1. ASSUME NEW w \in Workers, NEW g \in Items, Receive(w, g) PROVE LinkInv'
  BY <1>1 DEF Receive, TypeOK
<1>2. ASSUME NEW w \in Workers, ReadOriginal(w) PROVE LinkInv'
  BY <1>2 DEF ReadOriginal, TypeOK
<1>3. ASSUME NEW w \in Workers, ReadParent(w) PROVE LinkInv'
  BY <1>3 DEF ReadParent, TypeOK
<1>4. ASSUME NEW w \in Workers, FindUpdate(w) PROVE LinkInv'
  BY <1>4 DEF FindUpdate, TypeOK
<1>5. ASSUME NEW w \in Workers, FixDescendant(w) PROVE LinkInv'
  BY <1>5 DEF FixDescendant, TypeOK
<1>6. ASSUME NEW w \in Workers, FindDescendant(w) PROVE LinkInv'
  BY <1>6 DEF FindDescendant, TypeOK
<1>7. ASSUME NEW w \in Workers, StoreItem(w) PROVE LinkInv'
  BY <1>7 DEF StoreItem, TypeOK
<1>8. ASSUME NEW w \in Workers, LinkParent(w) PROVE LinkInv'
  BY <1>8 DEF LinkParent, TypeOK
<1>9. ASSUME NEW w \in Workers, Announce(w) PROVE LinkInv'
  BY <1>9 DEF Announce, TypeOK
<1>10. ASSUME NEW w \in Workers, Finish(w) PROVE LinkInv'
  BY <1>10 DEF Finish, TypeOK
<1>11. ASSUME NEW w \in Workers, Fail(w) PROVE LinkInv'
  BY <1>11 DEF Fail, TypeOK
<1>12. ASSUME NEW w \in Workers, Crash(w) PROVE LinkInv'
  BY <1>12 DEF Crash, TypeOK
<1>13. ASSUME NEW g \in Items, LockExpires(g) PROVE LinkInv'
  BY <1>13 DEF LockExpires
<1>14. CASE UNCHANGED vars
  BY <1>14 DEF vars
<1> QED
  BY <1>1, <1>2, <1>3, <1>4, <1>5, <1>6, <1>7, <1>8, <1>9, <1>10, <1>11, <1>12, <1>13, <1>14
  DEF Next, Step

THEOREM LinksAreSound == Spec => []NextversionSound
<1>1. LinkInv => NextversionSound
  BY DEF LinkInv
<1> QED
  BY <1>1, LinkInvInit, LinkInvStep, TypeCorrect, PTL DEF Spec

-----------------------------------------------------------------------------

\* A finite set of numbers has a greatest one: finite sets are well founded by
\* inclusion, and the least of the sets {x \in S : x > h} belongs to it.
LEMMA GreatestOfFinite ==
    ASSUME NEW S, IsFiniteSet(S), S \subseteq Nat, S # {}
    PROVE  \E m \in S : \A x \in S : x <= m
<1> DEFINE above(h) == {x \in S : x > h}
           sets == {above(h) : h \in S}
<1>1. \A h \in S : above(h) \in FiniteSubsetsOf(S)
  BY FS_Subset DEF FiniteSubsetsOf
<1>2. ASSUME NEW h \in S, NEW k \in S, k > h
      PROVE  <<above(k), above(h)>> \in StrictSubsetOrdering(S)
  <2> USE <1>2
  <2>1. ASSUME NEW x \in S, x > k PROVE x > h
    <3>1. x \in Nat /\ h \in Nat /\ k \in Nat
      OBVIOUS
    <3> QED
      BY <3>1, <2>1
  <2>2. above(k) \subseteq above(h)
    BY <2>1
  <2>3. k \in above(h) /\ k \notin above(k)
    OBVIOUS
  <2> QED
    BY <2>2, <2>3 DEF StrictSubsetOrdering
<1>3. sets \subseteq FiniteSubsetsOf(S) /\ sets # {}
  <2>1. sets \subseteq FiniteSubsetsOf(S)
    BY <1>1
  <2>2. PICK h \in S : TRUE
    OBVIOUS
  <2>3. above(h) \in sets
    OBVIOUS
  <2> QED
    BY <2>1, <2>3
<1> HIDE DEF above
<1>4. IsWellFoundedOn(StrictSubsetOrdering(S), FiniteSubsetsOf(S))
  BY FS_StrictSubsetOrderingWellFounded
<1> HIDE DEF sets
<1>5. \E s \in sets : \A t \in sets : ~(<<t, s>> \in StrictSubsetOrdering(S))
  BY <1>3, <1>4, WFMin
<1>6. PICK m \in S : \A h \in S : ~(<<above(h), above(m)>> \in StrictSubsetOrdering(S))
  BY <1>5 DEF sets
<1>7. \A x \in S : ~(x > m)
  BY <1>2, <1>6
<1> QED
  BY <1>7

(***************************************************************************)
(* Readers always find some version of a stored story: the newest stored   *)
(* version of it cannot have a nextversion.                                *)
(***************************************************************************)
LEMMA NewestHasNoNext ==
    ASSUME TypeOK, NextversionSound
    PROVE  StoryAlwaysVisible
<1> SUFFICES ASSUME NEW g \in stored
             PROVE  \E h \in Items : Story[h] = Story[g] /\ Visible(h)
  BY DEF StoryAlwaysVisible
<1> DEFINE versions == {h \in stored : Story[h] = Story[g]}
<1>1. versions \subseteq Items /\ versions \subseteq Nat /\ g \in versions
  BY ItemsAssumption DEF TypeOK
<1>2. IsFiniteSet(versions)
  BY <1>1, ItemsAssumption, FS_Subset
<1>3. PICK m \in versions : \A x \in versions : x <= m
  BY <1>1, <1>2, GreatestOfFinite
<1>4. CASE nextversion[m] = NoItem
  BY <1>1, <1>4 DEF Visible
<1>5. CASE nextversion[m] # NoItem
  <2> DEFINE n == nextversion[m]
  <2>1. n \in stored /\ n \in Items /\ EvolvedFrom[n] = m
    BY <1>1, <1>5 DEF NextversionSound, IsUpdateOf, TypeOK
  <2>2. m \in Nat /\ m # NoItem /\ n \in Nat /\ m < n
    BY <2>1, <1>1, ItemsAssumption
  <2>3. n \in versions
    BY <2>1, <2>2, ItemsAssumption
  <2> QED
    BY <2>2, <2>3, <1>3
<1> QED
  BY <1>4, <1>5

THEOREM StoriesStayVisible == Spec => []StoryAlwaysVisible
  BY NewestHasNoNext, TypeCorrect, LinksAreSound, PTL

-----------------------------------------------------------------------------

(***************************************************************************)
(* A superseded version never comes back to the search results.            *)
(***************************************************************************)
LEMMA NextversionKept ==
    ASSUME TypeOK, LinkInv, [Next]_vars
    PROVE  \A g \in stored : nextversion[g] # NoItem => nextversion'[g] # NoItem
<1> SUFFICES ASSUME NEW g \in stored, nextversion[g] # NoItem
             PROVE  nextversion'[g] # NoItem
  OBVIOUS
<1>1. CASE UNCHANGED nextversion
  BY <1>1
<1>2. ASSUME NEW w \in Workers, StoreItem(w) PROVE nextversion'[g] # NoItem
  BY <1>2 DEF StoreItem, TypeOK
<1>3. ASSUME NEW w \in Workers, LinkParent(w) PROVE nextversion'[g] # NoItem
  BY <1>3, ItemsAssumption DEF LinkParent, TypeOK, Handling
<1> QED
  BY <1>1, <1>2, <1>3 DEF Next, Step, vars, dbVars, Receive, ReadOriginal, ReadParent, FindUpdate,
     FixDescendant, FindDescendant, Announce, Finish, Fail, Crash, LockExpires

THEOREM SupersededForGood == Spec => NeverResurfaces
<1>1. TypeOK /\ LinkInv /\ [Next]_vars =>
        [\A g \in stored : nextversion[g] # NoItem => nextversion'[g] # NoItem]_vars
  BY NextversionKept
<1> QED
  BY <1>1, TypeCorrect, LinkInvInit, LinkInvStep, PTL DEF Spec, NeverResurfaces

-----------------------------------------------------------------------------

(***************************************************************************)
(* Until a lock expires under a push, an item has one writer of its own.   *)
(***************************************************************************)
LEMMA HolderInvStep ==
    ASSUME TypeOK, HolderInv, [Next]_vars
    PROVE  HolderInv'
<1> USE WorkersAssumption DEF HolderInv, Goto, dbVars, docVars, jobVars, fixVars, histVars
<1>1. ASSUME NEW w \in Workers, NEW g \in Items, Receive(w, g) PROVE HolderInv'
  BY <1>1 DEF Receive, TypeOK
<1>2. ASSUME NEW w \in Workers, Step(w), ~Finish(w) PROVE HolderInv'
  <2>1. /\ pc[w] \in Handling
        /\ UNCHANGED <<guid, lock, lapsed>>
        /\ \A v \in Workers : v # w => pc'[v] = pc[v]
    BY <1>2 DEF Step, ReadOriginal, ReadParent, FindUpdate, FixDescendant, FindDescendant,
       StoreItem, LinkParent, Announce, TypeOK, Handling
  <2> QED
    BY <2>1
<1>3. ASSUME NEW w \in Workers, Finish(w) \/ Fail(w) PROVE HolderInv'
  <2>1. pc[w] \in Handling /\ guid[w] \in Items
    BY <1>3 DEF Finish, Fail, Handling, TypeOK
  <2>2. pc' = [pc EXCEPT ![w] = "idle"] /\ UNCHANGED <<guid, lapsed>>
    BY <1>3 DEF Finish, Fail
  <2>3. lock' = [lock EXCEPT ![guid[w]] = NoWorker] \/ UNCHANGED lock
    BY <1>3 DEF Finish, Fail, Unlock
  <2> SUFFICES ASSUME NEW v \in Workers, pc'[v] \in Handling, guid[v] \notin lapsed
               PROVE  lock'[guid[v]] = v
    BY <2>2
  <2>4. v # w /\ pc[v] \in Handling /\ guid[v] \in Items
    BY <2>1, <2>2 DEF TypeOK, Handling
  <2>5. lock[guid[v]] = v
    BY <2>4
  <2>6. guid[v] # guid[w]
    BY <2>1, <2>4, <2>5
  <2> QED
    BY <2>3, <2>1, <2>4, <2>5, <2>6 DEF TypeOK
<1>4. ASSUME NEW w \in Workers, Crash(w) PROVE HolderInv'
  BY <1>4 DEF Crash, TypeOK, Handling
<1>5. ASSUME NEW g \in Items, LockExpires(g) PROVE HolderInv'
  <2> SUFFICES ASSUME NEW v \in Workers, pc[v] \in Handling, guid[v] \notin lapsed'
               PROVE  lock'[guid[v]] = v
    BY <1>5 DEF LockExpires
  <2>1. guid[v] \in Items /\ guid[v] \notin lapsed
    BY <1>5 DEF LockExpires, TypeOK
  <2>2. lock[guid[v]] = v
    BY <2>1
  <2>3. guid[v] # g
    BY <1>5, <2>2 DEF LockExpires
  <2> QED
    BY <1>5, <2>1, <2>2, <2>3 DEF LockExpires, TypeOK
<1>6. CASE UNCHANGED vars
  BY <1>6 DEF vars
<1> QED
  BY <1>1, <1>2, <1>3, <1>4, <1>5, <1>6 DEF Next

THEOREM WritersExclude == Spec => []OneWriterPerItem
<1>1. Init => HolderInv
  BY DEF Init, HolderInv, Handling
<1>2. TypeOK /\ HolderInv /\ [Next]_vars => HolderInv'
  BY HolderInvStep
<1>3. HolderInv => OneWriterPerItem
  BY DEF HolderInv, OneWriterPerItem
<1> QED
  BY <1>1, <1>2, <1>3, TypeCorrect, PTL DEF Spec

-----------------------------------------------------------------------------

(***************************************************************************)
(* The pushes implement the version feed: storing an item publishes it,    *)
(* and a nextversion is written only over a stored update.                 *)
(***************************************************************************)
LEMMA FeedStep ==
    ASSUME TypeOK, LinkInv, LinkInv', [Next]_vars
    PROVE  [Feed!Next]_(Feed!vars)
<1> USE DEF Feed!Next, Feed!vars, Feed!Publish, Feed!Supersede, Feed!HasUpdate
<1>1. ASSUME NEW w \in Workers, StoreItem(w) PROVE [Feed!Next]_(Feed!vars)
  <2> DEFINE g == guid[w]
             old == {h \in stored : nextversion[h] # NoItem}
             new == {h \in stored' : nextversion'[h] # NoItem}
  <2>1. g \in Items /\ stored' = stored \cup {g}
    BY <1>1 DEF StoreItem, TypeOK, Handling
  <2>2. new = old \/ (docNext[w] # NoItem /\ new = old \cup {g})
    BY <1>1, <2>1 DEF StoreItem, TypeOK, LinkInv, NextversionSound
  <2>3. docNext[w] # NoItem => docNext[w] \in stored /\ EvolvedFrom[docNext[w]] = g
    BY DEF LinkInv, IsUpdateOf
  <2>4. CASE g \notin stored
    BY <2>1, <2>2, <2>3, <2>4
  <2>5. CASE g \in stored
    BY <2>1, <2>2, <2>3, <2>5
  <2> QED
    BY <2>4, <2>5
<1>2. ASSUME NEW w \in Workers, LinkParent(w) PROVE [Feed!Next]_(Feed!vars)
  <2> DEFINE g == parent[w]
             old == {h \in stored : nextversion[h] # NoItem}
             new == {h \in stored' : nextversion'[h] # NoItem}
  <2>1. stored' = stored
    BY <1>2 DEF LinkParent
  <2>2. CASE parent[w] = NoItem
    BY <1>2, <2>1, <2>2 DEF LinkParent
  <2>3. CASE parent[w] # NoItem
    <3>1. g \in stored /\ g \in Items /\ EvolvedFrom[guid[w]] = g /\ guid[w] \in stored /\ guid[w] # NoItem
      BY <1>2, <2>3, ItemsAssumption DEF LinkParent, LinkInv, TypeOK
    <3>2. new = old \cup {g}
      BY <1>2, <2>1, <2>3, <3>1 DEF LinkParent, TypeOK
    <3> QED
      BY <2>1, <3>1, <3>2
  <2> QED
    BY <2>2, <2>3
<1>3. CASE UNCHANGED <<stored, nextversion>>
  BY <1>3
<1> QED
  BY <1>1, <1>2, <1>3 DEF Next, Step, vars, dbVars, Receive, ReadOriginal, ReadParent, FindUpdate,
     FixDescendant, FindDescendant, Announce, Finish, Fail, Crash, LockExpires

THEOREM ImplementsFeed == Spec => FeedSpec
<1>1. Init => Feed!Init
  BY DEF Init, Feed!Init
<1>2. TypeOK /\ LinkInv /\ LinkInv' /\ [Next]_vars => [Feed!Next]_(Feed!vars)
  BY FeedStep
<1> QED
  BY <1>1, <1>2, TypeCorrect, LinkInvInit, LinkInvStep, PTL DEF Spec, FeedSpec, Feed!Spec

-----------------------------------------------------------------------------
(* Retries *)

\* With one worker, a push that fails leaves no link missing that the next push
\* of the same item does not set.
LEMMA RepairInvStep ==
    ASSUME FixUpdates = TRUE, \A v, w \in Workers : v = w,
           TypeOK, LinkInv, RepairInv, [Next]_vars
    PROVE  RepairInv'
<1> USE DEF Goto, dbVars, docVars, jobVars, fixVars, histVars
<1> DEFINE from(w) == EvolvedFrom[guid[w]]
           Linked == \A h \in stored :
                EvolvedFrom[h] \in stored /\ nextversion[EvolvedFrom[h]] = NoItem => h \in unfinished
           StepOK(w) ==
                /\ pc[w] \in Handling => guid[w] \in unfinished
                /\ NewnessKnown(w)
                /\ pc[w] \in {"update", "fix", "descend", "store", "link"} /\ from(w) \in stored => parent[w] = from(w)
                /\ pc[w] \in {"fix", "descend", "store"} /\ guid[w] \notin stored /\ docNext[w] = NoItem =>
                      \A h \in Items : ~IsUpdateOf(h, guid[w])
                /\ pc[w] \in {"announce", "unlock"} /\ from(w) \in stored => nextversion[from(w)] # NoItem
<1>1. RepairInv <=> Linked /\ \A w \in Workers : StepOK(w)
  BY DEF RepairInv
<1>2. RepairInv' <=> Linked' /\ \A w \in Workers : StepOK(w)'
  BY DEF RepairInv
<1>3. ASSUME NEW w \in Workers, Linked', StepOK(w)' PROVE RepairInv'
  BY <1>2, <1>3
<1>4. ASSUME NEW w \in Workers, NEW g \in Items, Receive(w, g) PROVE RepairInv'
  <2>1. /\ UNCHANGED <<stored, nextversion>>
        /\ unfinished' = unfinished \cup {g} /\ guid'[w] = g /\ pc'[w] = "original"
    BY <1>4 DEF Receive, TypeOK
  <2> QED
    BY <1>1, <1>3, <2>1 DEF NewnessKnown, Preparing
<1>5. ASSUME NEW w \in Workers, ReadOriginal(w) PROVE RepairInv'
  <2>1. /\ UNCHANGED <<stored, nextversion, unfinished, guid>>
        /\ pc[w] = "original" /\ pc'[w] = "parent" /\ (isNew'[w] <=> guid[w] \notin stored)
    BY <1>5 DEF ReadOriginal, TypeOK
  <2> QED
    BY <1>1, <1>3, <2>1 DEF NewnessKnown, Preparing, Handling
<1>6. ASSUME NEW w \in Workers, ReadParent(w) PROVE RepairInv'
  <2>1. /\ UNCHANGED <<stored, nextversion, unfinished, guid, isNew>>
        /\ pc[w] = "parent" /\ pc'[w] = "update"
        /\ from(w) \in stored => parent'[w] = from(w)
    BY <1>6 DEF ReadParent, TypeOK
  <2> QED
    BY <1>1, <1>3, <2>1 DEF NewnessKnown, Preparing, Handling
<1>7. ASSUME NEW w \in Workers, FindUpdate(w) PROVE RepairInv'
  <2>1. /\ UNCHANGED <<stored, nextversion, unfinished, guid, isNew, parent>>
        /\ pc[w] = "update" /\ pc'[w] \in {"fix", "store"}
    BY <1>7 DEF FindUpdate, TypeOK
  <2>2. guid[w] \notin stored /\ docNext'[w] = NoItem => \A h \in Items : ~IsUpdateOf(h, guid[w])
    <3>1. isNew[w] <=> guid[w] \notin stored
      BY <1>1, <2>1 DEF NewnessKnown, Preparing
    <3> QED
      BY <1>7, <3>1, ItemsAssumption DEF FindUpdate, TypeOK
  <2> QED
    BY <1>1, <1>3, <2>1, <2>2 DEF NewnessKnown, Preparing, Handling, IsUpdateOf
<1>8. ASSUME NEW w \in Workers, FixDescendant(w) \/ FindDescendant(w) PROVE RepairInv'
  <2>1. /\ UNCHANGED <<stored, nextversion, unfinished, guid, isNew, parent, docNext>>
        /\ pc[w] \in {"fix", "descend"} /\ pc'[w] \in {"fix", "descend", "store"}
    BY <1>8 DEF FixDescendant, FindDescendant, TypeOK
  <2> QED
    BY <1>1, <1>3, <2>1 DEF NewnessKnown, Preparing, Handling, IsUpdateOf
<1>9. ASSUME NEW w \in Workers, StoreItem(w) PROVE RepairInv'
  <2> DEFINE g == guid[w]
  <2>1. /\ UNCHANGED <<unfinished, guid, parent>>
        /\ stored' = stored \cup {g}
        /\ pc[w] = "store" /\ pc'[w] = "link"
        /\ g \in Items /\ g \in unfinished
    BY <1>1, <1>9 DEF StoreItem, TypeOK, Handling
  <2>2. /\ \A h \in Items : h # g => nextversion'[h] = nextversion[h]
        /\ nextversion'[g] = IF docNext[w] # NoItem THEN docNext[w] ELSE nextversion[g]
    BY <1>9, <2>1 DEF StoreItem, TypeOK
  <2>3. ASSUME NEW h \in stored', EvolvedFrom[h] \in stored', nextversion'[EvolvedFrom[h]] = NoItem
        PROVE  h \in unfinished'
    <3>1. h \in Items /\ EvolvedFrom[h] \in Items
      BY <2>1, <2>3 DEF TypeOK
    <3>2. CASE h = g
      BY <2>1, <3>2
    <3>3. CASE h # g /\ EvolvedFrom[h] # g
      BY <1>1, <2>1, <2>2, <2>3, <3>1, <3>3
    <3>4. CASE h # g /\ EvolvedFrom[h] = g /\ g \in stored
      BY <1>1, <2>1, <2>2, <2>3, <3>1, <3>4
    <3>5. CASE h # g /\ EvolvedFrom[h] = g /\ g \notin stored
      <4>1. IsUpdateOf(h, g)
        BY <2>1, <3>5 DEF IsUpdateOf
      <4>2. docNext[w] = NoItem
        BY <2>2, <2>3, <3>5
      <4> QED
        BY <1>1, <2>1, <3>1, <3>5, <4>1, <4>2
    <3> QED
      BY <3>2, <3>3, <3>4, <3>5
  <2>4. from(w) # g
    <3>1. EvolvedFrom[g] < g /\ g \in Nat
      BY <2>1, ItemsAssumption
    <3>2. EvolvedFrom[g] # g
      BY <3>1
    <3> QED
      BY <3>2
  <2>5. StepOK(w)'
    <3>1. guid'[w] = guid[w] /\ from(w) \in stored' => parent'[w] = from(w)
      BY <1>1, <2>1, <2>4
    <3> QED
      BY <2>1, <3>1 DEF NewnessKnown, Preparing
  <2> QED
    BY <1>3, <2>3, <2>5
<1>10. ASSUME NEW w \in Workers, LinkParent(w) PROVE RepairInv'
  <2> DEFINE g == guid[w]
  <2>1. /\ UNCHANGED <<stored, unfinished, guid>>
        /\ pc[w] = "link" /\ pc'[w] = "announce"
        /\ g \in Items /\ g # NoItem
    BY <1>10, ItemsAssumption DEF LinkParent, TypeOK, Handling
  <2>2. \A h \in Items : nextversion[h] # NoItem => nextversion'[h] # NoItem
    BY <1>10, <2>1 DEF LinkParent, TypeOK
  <2>3. ASSUME from(w) \in stored PROVE nextversion'[from(w)] # NoItem
    <3>1. parent[w] = from(w) /\ from(w) \in Items /\ from(w) # NoItem
      BY <1>1, <2>1, <2>3, ItemsAssumption DEF TypeOK
    <3> QED
      BY <1>10, <2>1, <3>1 DEF LinkParent, TypeOK
  <2>4. Linked'
    BY <1>1, <2>1, <2>2 DEF TypeOK
  <2>5. StepOK(w)'
    BY <1>1, <2>1, <2>3 DEF NewnessKnown, Preparing, Handling
  <2> QED
    BY <1>3, <2>4, <2>5
<1>11. ASSUME NEW w \in Workers, Announce(w) PROVE RepairInv'
  <2>1. UNCHANGED <<stored, nextversion, unfinished, guid>> /\ pc[w] = "announce" /\ pc'[w] = "unlock"
    BY <1>11 DEF Announce, TypeOK
  <2> QED
    BY <1>1, <1>3, <2>1 DEF NewnessKnown, Preparing, Handling
<1>12. ASSUME NEW w \in Workers, Finish(w) PROVE RepairInv'
  <2>1. /\ UNCHANGED <<stored, nextversion, guid>>
        /\ unfinished' = unfinished \ {guid[w]}
        /\ pc[w] = "unlock" /\ pc'[w] = "idle"
    BY <1>12 DEF Finish, TypeOK
  <2>2. Linked'
    BY <1>1, <2>1
  <2> QED
    BY <1>3, <2>1, <2>2 DEF NewnessKnown, Preparing, Handling
<1>13. ASSUME NEW w \in Workers, Fail(w) \/ Crash(w) PROVE RepairInv'
  <2>1. UNCHANGED <<stored, nextversion, unfinished, guid>> /\ pc'[w] = "idle"
    BY <1>13 DEF Fail, Crash, TypeOK
  <2> QED
    BY <1>1, <1>3, <2>1 DEF NewnessKnown, Preparing, Handling
<1>14. CASE UNCHANGED <<stored, nextversion, unfinished, guid, pc, isNew, parent, docNext>>
  BY <1>1, <1>2, <1>14 DEF NewnessKnown, IsUpdateOf
<1>15. ASSUME (\E g \in Items : LockExpires(g)) \/ UNCHANGED vars
       PROVE  UNCHANGED <<stored, nextversion, unfinished, guid, pc, isNew, parent, docNext>>
  BY <1>15 DEF LockExpires, vars
<1> HIDE DEF from, Linked, StepOK
<1> QED
  BY <1>4, <1>5, <1>6, <1>7, <1>8, <1>9, <1>10, <1>11, <1>12, <1>13, <1>14, <1>15 DEF Next, Step

\* Pushes that fail and are sent again leave the links between versions as if
\* they had not failed, for one push at a time.
THEOREM RetriesRepair ==
    ASSUME FixUpdates = TRUE, \A v, w \in Workers : v = w
    PROVE  Spec => []RetryRepairsLinks
<1>1. Init => RepairInv
  BY DEF Init, RepairInv, NewnessKnown, Preparing, Handling
<1>2. TypeOK /\ LinkInv /\ RepairInv /\ [Next]_vars => RepairInv'
  BY RepairInvStep
<1>3. TypeOK /\ LinkInv /\ RepairInv => RetryRepairsLinks
  <2> SUFFICES ASSUME TypeOK, LinkInv, RepairInv, unfinished = {}, NEW g \in stored
               PROVE  nextversion[g] # NoItem <=> \E h \in Items : IsUpdateOf(h, g)
    BY DEF RetryRepairsLinks
  <2>1. ASSUME nextversion[g] # NoItem PROVE \E h \in Items : IsUpdateOf(h, g)
    BY <2>1 DEF LinkInv, NextversionSound, TypeOK
  <2>2. ASSUME NEW h \in Items, IsUpdateOf(h, g) PROVE nextversion[g] # NoItem
    BY <2>2 DEF RepairInv, IsUpdateOf
  <2> QED
    BY <2>1, <2>2
<1> QED
  BY <1>1, <1>2, <1>3, TypeCorrect, LinkInvInit, LinkInvStep, PTL DEF Spec

-----------------------------------------------------------------------------
(* Announcements *)

\* Whoever stores an item first announces it to the topic subscribers, unless an
\* update of it is there.
LEMMA NewsInvStep ==
    ASSUME "expiry" \notin Faults, TypeOK, LinkInv, HolderInv, NewsInv, [Next]_vars
    PROVE  NewsInv'
<1> USE DEF Goto, dbVars, docVars, jobVars, fixVars, histVars
<1> DEFINE Announced(g) == [item |-> g, topics |-> TRUE] \in announced
           HasUpdate(g) == \E h \in Items : IsUpdateOf(h, g)
           Soon(g) == \E w \in Workers : pc[w] \in {"link", "announce"} /\ guid[w] = g /\ isNew[w]
           Told(g) == Announced(g) \/ HasUpdate(g) \/ Soon(g)
<1>1. lapsed = {} /\ (\A w \in Workers : NewnessKnown(w)) /\ (clean => \A g \in stored : Told(g))
  BY DEF NewsInv
<1>2. ASSUME lapsed' = {}, \A w \in Workers : NewnessKnown(w)', clean' => \A g \in stored' : Told(g)'
      PROVE  NewsInv'
  BY <1>2 DEF NewsInv
<1>3. ASSUME stored \subseteq stored', announced \subseteq announced' PROVE
        \A g \in Items : (Announced(g) => Announced(g)') /\ (HasUpdate(g) => HasUpdate(g)')
  BY <1>3 DEF IsUpdateOf
<1>4. ASSUME NEW w \in Workers, Fail(w) \/ Crash(w) PROVE NewsInv'
  <2>1. /\ clean' = FALSE /\ UNCHANGED <<stored, guid, isNew, lapsed>>
        /\ \A v \in Workers : pc'[v] = pc[v] \/ pc'[v] = "idle"
    BY <1>4 DEF Fail, Crash, TypeOK
  <2> QED
    BY <1>1, <1>2, <2>1 DEF NewnessKnown, Preparing
<1>5. ASSUME NEW w \in Workers, NEW g \in Items, Receive(w, g) PROVE NewsInv'
  <2>1. /\ UNCHANGED <<stored, announced, isNew, clean, lapsed>>
        /\ pc[w] = "idle" /\ pc'[w] = "original"
        /\ \A v \in Workers : v # w => pc'[v] = pc[v] /\ guid'[v] = guid[v]
    BY <1>5 DEF Receive, TypeOK
  <2>2. \A v \in Workers : NewnessKnown(v)'
    BY <1>1, <2>1 DEF NewnessKnown, Preparing
  <2>3. \A x \in stored : Told(x) => Told(x)'
    BY <2>1 DEF IsUpdateOf
  <2> QED
    BY <1>1, <1>2, <2>1, <2>2, <2>3
<1>6. ASSUME NEW w \in Workers, ReadOriginal(w) PROVE NewsInv'
  <2>1. /\ UNCHANGED <<stored, announced, guid, clean, lapsed>>
        /\ pc[w] = "original" /\ (isNew'[w] <=> guid[w] \notin stored)
        /\ \A v \in Workers : v # w => pc'[v] = pc[v] /\ isNew'[v] = isNew[v]
    BY <1>6 DEF ReadOriginal, TypeOK
  <2>2. \A v \in Workers : NewnessKnown(v)'
    BY <1>1, <2>1 DEF NewnessKnown
  <2>3. \A x \in stored : Told(x) => Told(x)'
    BY <2>1 DEF IsUpdateOf
  <2> QED
    BY <1>1, <1>2, <2>1, <2>2, <2>3
<1>7. ASSUME NEW w \in Workers,
             ReadParent(w) \/ FindUpdate(w) \/ FixDescendant(w) \/ FindDescendant(w)
      PROVE  NewsInv'
  <2>1. /\ UNCHANGED <<stored, announced, guid, isNew, clean, lapsed>>
        /\ pc[w] \in Preparing /\ pc'[w] \in Preparing
        /\ \A v \in Workers : v # w => pc'[v] = pc[v]
    BY <1>7 DEF ReadParent, FindUpdate, FixDescendant, FindDescendant, TypeOK, Preparing
  <2>2. \A v \in Workers : NewnessKnown(v)'
    BY <1>1, <2>1 DEF NewnessKnown
  <2>3. \A x \in stored : Told(x) => Told(x)'
    BY <2>1 DEF IsUpdateOf, Preparing
  <2> QED
    BY <1>1, <1>2, <2>1, <2>2, <2>3
<1>8. ASSUME NEW w \in Workers, StoreItem(w) PROVE NewsInv'
  <2>1. /\ UNCHANGED <<announced, guid, isNew, clean, lapsed>>
        /\ pc[w] = "store" /\ pc'[w] = "link" /\ guid[w] \in Items
        /\ stored' = stored \cup {guid[w]}
        /\ \A v \in Workers : v # w => pc'[v] = pc[v]
    BY <1>8 DEF StoreItem, TypeOK, Handling
  <2>2. ASSUME NEW v \in Workers PROVE NewnessKnown(v)'
    <3>1. CASE v = w
      BY <2>1, <3>1 DEF NewnessKnown, Preparing
    <3>2. CASE v # w /\ pc[v] \in Preparing
      <4>1. guid[v] # guid[w]
        BY <1>1, <2>1, <3>2 DEF HolderInv, Handling, Preparing
      <4> QED
        BY <1>1, <2>1, <3>2, <4>1 DEF NewnessKnown
    <3>3. CASE v # w /\ pc[v] \notin Preparing
      BY <2>1, <3>3 DEF NewnessKnown
    <3> QED
      BY <3>1, <3>2, <3>3
  <2>3. \A x \in stored : Told(x) => Told(x)'
    BY <2>1 DEF IsUpdateOf
  <2>4. guid[w] \notin stored => Soon(guid[w])'
    BY <1>1, <2>1 DEF NewnessKnown, Preparing
  <2> QED
    BY <1>1, <1>2, <2>1, <2>2, <2>3, <2>4
<1>9. ASSUME NEW w \in Workers, LinkParent(w) PROVE NewsInv'
  <2>1. /\ UNCHANGED <<stored, announced, guid, isNew, clean, lapsed>>
        /\ pc[w] = "link" /\ pc'[w] = "announce"
        /\ \A v \in Workers : v # w => pc'[v] = pc[v]
    BY <1>9 DEF LinkParent, TypeOK
  <2>2. \A v \in Workers : NewnessKnown(v)'
    BY <1>1, <2>1 DEF NewnessKnown, Preparing
  <2>3. \A x \in stored : Told(x) => Told(x)'
    BY <2>1 DEF IsUpdateOf
  <2> QED
    BY <1>1, <1>2, <2>1, <2>2, <2>3
<1>10. ASSUME NEW w \in Workers, Announce(w) PROVE NewsInv'
  <2>1. /\ UNCHANGED <<stored, guid, isNew, clean, lapsed>>
        /\ announced \subseteq announced'
        /\ pc[w] = "announce" /\ pc'[w] = "unlock" /\ guid[w] \in Items
        /\ \A v \in Workers : v # w => pc'[v] = pc[v]
    BY <1>10 DEF Announce, TypeOK, Handling
  <2>2. \A v \in Workers : NewnessKnown(v)'
    BY <1>1, <2>1 DEF NewnessKnown, Preparing
  <2>3. isNew[w] => Announced(guid[w])' \/ HasUpdate(guid[w])'
    <3>1. CASE docNext[w] = NoItem
      BY <1>10, <3>1 DEF Announce, TypeOK
    <3>2. CASE docNext[w] # NoItem
      <4>1. docNext[w] \in Items /\ IsUpdateOf(docNext[w], guid[w])
        BY <3>2 DEF LinkInv, TypeOK
      <4> QED
        BY <2>1, <4>1 DEF IsUpdateOf
    <3> QED
      BY <3>1, <3>2
  <2>4. \A x \in stored : Told(x) => Told(x)'
    BY <2>1, <2>3 DEF IsUpdateOf
  <2> QED
    BY <1>1, <1>2, <2>1, <2>2, <2>4
<1>11. ASSUME NEW w \in Workers, Finish(w) PROVE NewsInv'
  <2>1. /\ UNCHANGED <<stored, announced, guid, isNew, clean, lapsed>>
        /\ pc[w] = "unlock" /\ pc'[w] = "idle"
        /\ \A v \in Workers : v # w => pc'[v] = pc[v]
    BY <1>11 DEF Finish, TypeOK
  <2>2. \A v \in Workers : NewnessKnown(v)'
    BY <1>1, <2>1 DEF NewnessKnown, Preparing
  <2>3. \A x \in stored : Told(x) => Told(x)'
    BY <2>1 DEF IsUpdateOf
  <2> QED
    BY <1>1, <1>2, <2>1, <2>2, <2>3
<1>12. ASSUME NEW g \in Items, LockExpires(g) PROVE FALSE
  BY <1>12 DEF LockExpires
<1>13. CASE UNCHANGED vars
  BY <1>13 DEF vars, NewsInv, NewnessKnown, IsUpdateOf
<1> HIDE DEF Told
<1> QED
  BY <1>4, <1>5, <1>6, <1>7, <1>8, <1>9, <1>10, <1>11, <1>12, <1>13 DEF Next, Step

\* However many pushes run at a time and in whatever order the versions come: if
\* no lock expires and no push fails, the newest versions are announced.
THEOREM NewestIsAnnounced ==
    ASSUME "expiry" \notin Faults
    PROVE  Spec => []NewestAnnounced
<1>1. Init => HolderInv /\ NewsInv
  BY DEF Init, HolderInv, NewsInv, NewnessKnown, Preparing, Handling
<1>2. TypeOK /\ HolderInv /\ [Next]_vars => HolderInv'
  BY HolderInvStep
<1>3. TypeOK /\ LinkInv /\ HolderInv /\ NewsInv /\ [Next]_vars => NewsInv'
  BY NewsInvStep
<1>4. NewsInv => NewestAnnounced
  BY DEF NewsInv, NewestAnnounced, Quiet
<1> QED
  BY <1>1, <1>2, <1>3, <1>4, TypeCorrect, LinkInvInit, LinkInvStep, PTL DEF Spec

-----------------------------------------------------------------------------
(* Lineages *)

\* A set of numbers has a least one.
LEMMA LeastOfNonempty ==
    ASSUME NEW S, S \subseteq Nat, S # {}
    PROVE  \E m \in S : \A x \in S : m <= x
<1>1. \E m \in S : \A x \in S : ~(<<x, m>> \in OpToRel(<, Nat))
  BY NatLessThanWellFounded, WFMin
<1>2. PICK m \in S : \A x \in S : ~(x < m)
  BY <1>1 DEF OpToRel
<1> QED
  BY <1>2

\* The recursive definition of the lineages in S has a solution, for versions have
\* greater numbers than what they evolved from.
LEMMA LineageDef ==
    ASSUME NEW S, S \subseteq Items
    PROVE  LineageIn(S) = [g \in Items |->
              IF EvolvedFrom[g] \in S THEN Append(LineageIn(S)[EvolvedFrom[g]], EvolvedFrom[g]) ELSE <<>>]
<1> DEFINE Upto(n) == {g \in Items : g < n}
           Step1(f, g) == IF EvolvedFrom[g] \in S THEN Append(f[EvolvedFrom[g]], EvolvedFrom[g]) ELSE <<>>
           Fits(f, n) == f = [g \in Upto(n) |-> Step1(f, g)]
           Bad == {n \in Nat : ~\E f : Fits(f, n)}
<1>1. Bad = {}
  <2> SUFFICES ASSUME Bad # {} PROVE FALSE
    OBVIOUS
  <2>1. PICK n \in Bad : \A x \in Bad : n <= x
    BY LeastOfNonempty
  <2>2. CASE n = 0
    <3>1. Upto(n) = {}
      BY <2>2, ItemsAssumption
    <3>2. Fits([g \in {} |-> <<>>], n)
      BY <3>1
    <3> QED
      BY <2>1, <3>2
  <2>3. CASE n # 0
    <3>0. n \in Nat /\ n - 1 \in Nat /\ \A g \in Items : g \in Nat /\ EvolvedFrom[g] < g
      BY <2>1, <2>3, ItemsAssumption
    <3>1. n - 1 \notin Bad
      <4>1. ~(n <= n - 1)
        BY <3>0
      <4> QED
        BY <2>1, <4>1
    <3>2. PICK f : Fits(f, n - 1)
      BY <3>0, <3>1
    <3> DEFINE h == [g \in Upto(n) |-> Step1(f, g)]
    <3>3. \A g \in Upto(n - 1) : h[g] = f[g]
      <4>1. Upto(n - 1) \subseteq Upto(n)
        BY <3>0
      <4>2. \A g \in Upto(n - 1) : f[g] = Step1(f, g)
        BY <3>2
      <4> HIDE DEF Upto, Step1
      <4> QED
        BY <4>1, <4>2
    <3>4. \A g \in Upto(n) : EvolvedFrom[g] \in S => EvolvedFrom[g] \in Upto(n - 1)
      <4>1. ASSUME NEW g \in Upto(n), EvolvedFrom[g] \in S PROVE EvolvedFrom[g] < n - 1
        <5>1. g \in Nat /\ EvolvedFrom[g] \in Nat /\ EvolvedFrom[g] < g /\ g < n
          BY <3>0, <4>1
        <5> QED
          BY <3>0, <5>1
      <4> QED
        BY <4>1
    <3>5. \A g \in Upto(n) : Step1(f, g) = Step1(h, g)
      <4> HIDE DEF h, Upto
      <4> QED
        BY <3>3, <3>4
    <3>6. Fits(h, n)
      <4> HIDE DEF Step1, Upto
      <4> QED
        BY <3>5
    <3> QED
      BY <2>1, <3>6
  <2> QED
    BY <2>2, <2>3
<1>2. PICK n \in Nat : Upto(n) = Items
  <2>1. CASE Items = {}
    BY <2>1
  <2>2. CASE Items # {}
    <3>1. PICK m \in Items : \A x \in Items : x <= m
      BY <2>2, ItemsAssumption, GreatestOfFinite
    <3>2. m + 1 \in Nat /\ \A x \in Items : x < m + 1
      BY <3>1, ItemsAssumption
    <3> QED
      BY <3>2
  <2> QED
    BY <2>1, <2>2
<1>3. \E f : f = [g \in Items |-> Step1(f, g)]
  <2>1. PICK f : Fits(f, n)
    BY <1>1, <1>2
  <2> HIDE DEF Step1, Upto
  <2> QED
    BY <1>2, <2>1
<1>4. LineageIn(S) = CHOOSE f : f = [g \in Items |-> Step1(f, g)]
  BY DEF LineageIn
<1> HIDE DEF Step1
<1>5. LineageIn(S) = [g \in Items |-> Step1(LineageIn(S), g)]
  BY <1>3, <1>4
<1> QED
  BY <1>5 DEF Step1

\* In a set of versions there is one whose parent is not: with it inductions over
\* a story start.
LEMMA FirstOf ==
    ASSUME NEW Bad, Bad \subseteq Items, Bad # {}
    PROVE  \E h \in Bad : EvolvedFrom[h] \notin Bad
<1>1. Bad \subseteq Nat
  BY ItemsAssumption
<1>2. PICK h \in Bad : \A x \in Bad : h <= x
  BY <1>1, LeastOfNonempty
<1>3. ASSUME EvolvedFrom[h] \in Bad PROVE FALSE
  <2>1. h \in Nat /\ EvolvedFrom[h] \in Nat /\ EvolvedFrom[h] < h
    BY <1>1, <1>2, <1>3, ItemsAssumption
  <2>2. h <= EvolvedFrom[h]
    BY <1>2, <1>3
  <2> QED
    BY <2>1, <2>2
<1> QED
  BY <1>2, <1>3

\* So every lineage is a sequence of versions.
LEMMA LineageType ==
    ASSUME NEW S, S \subseteq Items
    PROVE  LineageIn(S) \in [Items -> Seq(Items)]
<1> DEFINE L == LineageIn(S)
           Bad == {h \in Items : L[h] \notin Seq(Items)}
<1>1. L = [g \in Items |-> IF EvolvedFrom[g] \in S THEN Append(L[EvolvedFrom[g]], EvolvedFrom[g]) ELSE <<>>]
  BY LineageDef
<1> HIDE DEF L
<1>2. Bad = {}
  <2> SUFFICES ASSUME Bad # {} PROVE FALSE
    OBVIOUS
  <2>2. PICK h \in Bad : EvolvedFrom[h] \notin Bad
    BY FirstOf
  <2>3. h \in Items /\ L[h] = IF EvolvedFrom[h] \in S THEN Append(L[EvolvedFrom[h]], EvolvedFrom[h]) ELSE <<>>
    BY <1>1
  <2>4. ASSUME EvolvedFrom[h] \in S PROVE L[h] \in Seq(Items)
    <3>3. L[EvolvedFrom[h]] \in Seq(Items)
      BY <2>2, <2>4
    <3>4. Append(L[EvolvedFrom[h]], EvolvedFrom[h]) \in Seq(Items)
      BY <3>3, <2>3, <2>4
    <3> QED
      BY <2>3, <2>4, <3>4
  <2>5. ASSUME EvolvedFrom[h] \notin S PROVE L[h] \in Seq(Items)
    <3>1. L[h] = <<>>
      BY <2>3, <2>5
    <3> QED
      BY <3>1
  <2>6. L[h] \in Seq(Items)
    BY <2>4, <2>5
  <2> QED
    BY <2>2, <2>6
<1> QED
  BY <1>1, <1>2 DEF L

\* h descends from x, and every version between the two is in S.
Below(S, h, x) == \E i \in DOMAIN LineageIn(S)[h] : LineageIn(S)[h][i] = x

LEMMA DescendsBelow ==
    ASSUME NEW h, NEW x
    PROVE  Descends(h, x) <=> Below(stored, h, x)
  BY DEF Descends, Below, Lineage

\* A version is below its parent and whatever that is below.
LEMMA BelowStep ==
    ASSUME NEW S, S \subseteq Items, NEW h \in Items, NEW x
    PROVE  Below(S, h, x) <=> EvolvedFrom[h] \in S /\ (x = EvolvedFrom[h] \/ Below(S, EvolvedFrom[h], x))
<1> DEFINE L == LineageIn(S)
           from == EvolvedFrom[h]
<1>1. L[h] = IF from \in S THEN Append(L[from], from) ELSE <<>>
  BY LineageDef
<1>2. CASE from \notin S
  <2>1. DOMAIN L[h] = {}
    BY <1>1, <1>2
  <2> QED
    BY <1>2, <2>1 DEF Below
<1>3. CASE from \in S
  <2>1. L[from] \in Seq(Items) /\ from \in Items
    BY <1>3, LineageType
  <2>2. L[h] = Append(L[from], from)
    BY <1>1, <1>3
  <2> HIDE DEF L, from
  <2>3. Len(L[from]) \in Nat /\ DOMAIN L[from] = 1 .. Len(L[from]) /\ DOMAIN L[h] = 1 .. (Len(L[from]) + 1)
    BY <2>1, <2>2
  <2>4. \A i \in 1 .. Len(L[from]) : L[h][i] = L[from][i]
    BY <2>1, <2>2
  <2>5. L[h][Len(L[from]) + 1] = from
    BY <2>1, <2>2
  <2>6. ASSUME NEW i \in DOMAIN L[h], L[h][i] = x PROVE x = from \/ \E j \in DOMAIN L[from] : L[from][j] = x
    <3>1. i \in 1 .. Len(L[from]) \/ i = Len(L[from]) + 1
      BY <2>3, <2>6
    <3> QED
      BY <2>3, <2>4, <2>5, <2>6, <3>1
  <2>7. ASSUME x = from PROVE \E i \in DOMAIN L[h] : L[h][i] = x
    BY <2>3, <2>5, <2>7
  <2>8. ASSUME NEW j \in DOMAIN L[from], L[from][j] = x PROVE \E i \in DOMAIN L[h] : L[h][i] = x
    <3>1. j \in DOMAIN L[h]
      BY <2>3, <2>8
    <3> QED
      BY <2>3, <2>4, <2>8, <3>1
  <2>9. (\E i \in DOMAIN L[h] : L[h][i] = x) <=> x = from \/ \E j \in DOMAIN L[from] : L[from][j] = x
    BY <2>6, <2>7, <2>8
  <2> QED
    BY <1>3, <2>9 DEF Below, L, from
<1> QED
  BY <1>2, <1>3

\* What a version is below came before it.
LEMMA BelowEarlier ==
    ASSUME NEW S, S \subseteq Items
    PROVE  \A h \in Items : \A x : Below(S, h, x) => x \in S /\ x < h
<1> DEFINE Bad == {h \in Items : \E x : Below(S, h, x) /\ ~(x \in S /\ x < h)}
<1>1. Bad = {}
  <2> SUFFICES ASSUME Bad # {} PROVE FALSE
    OBVIOUS
  <2>1. PICK h \in Bad : EvolvedFrom[h] \notin Bad
    BY FirstOf
  <2>2. PICK x : Below(S, h, x) /\ ~(x \in S /\ x < h)
    BY <2>1
  <2>3. h \in Items /\ EvolvedFrom[h] \in S /\ EvolvedFrom[h] \in Items
    BY <2>1, <2>2, BelowStep
  <2>4. h \in Nat /\ EvolvedFrom[h] \in Nat /\ EvolvedFrom[h] < h
    BY <2>3, ItemsAssumption
  <2>5. x = EvolvedFrom[h] \/ Below(S, EvolvedFrom[h], x)
    BY <2>2, <2>3, BelowStep
  <2>6. CASE x = EvolvedFrom[h]
    BY <2>2, <2>3, <2>4, <2>6
  <2>7. CASE Below(S, EvolvedFrom[h], x)
    <3>1. x \in S /\ x < EvolvedFrom[h]
      BY <2>1, <2>3, <2>7
    <3>2. x \in Nat
      BY <3>1, ItemsAssumption
    <3> QED
      BY <2>2, <2>4, <3>1, <3>2
  <2> QED
    BY <2>5, <2>6, <2>7
<1> QED
  BY <1>1

\* Between a version and what it is below there is an update of the latter.
LEMMA BelowThrough ==
    ASSUME NEW S, S \subseteq Items
    PROVE  \A h \in S : \A t : Below(S, h, t) =>
              \E n \in S : EvolvedFrom[n] = t /\ (h = n \/ Below(S, h, n))
<1> DEFINE Through(h, t) == \E n \in S : EvolvedFrom[n] = t /\ (h = n \/ Below(S, h, n))
           Bad == {h \in S : \E t : Below(S, h, t) /\ ~Through(h, t)}
<1>1. Bad = {}
  <2> SUFFICES ASSUME Bad # {} PROVE FALSE
    OBVIOUS
  <2>1. PICK h \in Bad : EvolvedFrom[h] \notin Bad
    BY FirstOf
  <2>2. PICK t : Below(S, h, t) /\ ~Through(h, t)
    BY <2>1
  <2>3. h \in S /\ h \in Items
    BY <2>1
  <2>4. EvolvedFrom[h] \in S /\ EvolvedFrom[h] \in Items /\ (t = EvolvedFrom[h] \/ Below(S, EvolvedFrom[h], t))
    BY <2>2, <2>3, BelowStep
  <2>5. CASE t = EvolvedFrom[h]
    BY <2>2, <2>3, <2>5
  <2>6. CASE Below(S, EvolvedFrom[h], t)
    <3>1. PICK n \in S : EvolvedFrom[n] = t /\ (EvolvedFrom[h] = n \/ Below(S, EvolvedFrom[h], n))
      BY <2>1, <2>4, <2>6
    <3>2. Below(S, h, n)
      BY <2>3, <2>4, <3>1, BelowStep
    <3> QED
      BY <2>2, <3>1, <3>2
  <2> QED
    BY <2>4, <2>5, <2>6
<1> QED
  BY <1>1

\* More versions make no lineage shorter.
LEMMA LineageGrows ==
    ASSUME NEW S, NEW T, S \subseteq T, T \subseteq Items
    PROVE  \A h \in Items : Len(LineageIn(S)[h]) <= Len(LineageIn(T)[h])
<1> DEFINE L == LineageIn(S)
           M == LineageIn(T)
           Bad == {h \in Items : ~(Len(L[h]) <= Len(M[h]))}
<1>1. L \in [Items -> Seq(Items)] /\ M \in [Items -> Seq(Items)]
  BY LineageType
<1>2. \A h \in Items : L[h] = IF EvolvedFrom[h] \in S THEN Append(L[EvolvedFrom[h]], EvolvedFrom[h]) ELSE <<>>
  BY LineageDef
<1>3. \A h \in Items : M[h] = IF EvolvedFrom[h] \in T THEN Append(M[EvolvedFrom[h]], EvolvedFrom[h]) ELSE <<>>
  BY LineageDef
<1> HIDE DEF L, M
<1>4. Bad = {}
  <2> SUFFICES ASSUME Bad # {} PROVE FALSE
    OBVIOUS
  <2>1. PICK h \in Bad : EvolvedFrom[h] \notin Bad
    BY FirstOf
  <2>2. h \in Items /\ Len(L[h]) \in Nat /\ Len(M[h]) \in Nat /\ ~(Len(L[h]) <= Len(M[h]))
    BY <1>1, <2>1
  <2>3. CASE EvolvedFrom[h] \notin S
    <3>1. Len(L[h]) = 0
      BY <1>2, <2>2, <2>3
    <3> QED
      BY <2>2, <3>1
  <2>4. CASE EvolvedFrom[h] \in S
    <3> DEFINE from == EvolvedFrom[h]
    <3>1. from \in T /\ from \in Items /\ L[from] \in Seq(Items) /\ M[from] \in Seq(Items)
      BY <1>1, <2>4
    <3>2. L[h] = Append(L[from], from) /\ M[h] = Append(M[from], from)
      BY <1>2, <1>3, <2>2, <2>4, <3>1
    <3>3. Len(L[from]) <= Len(M[from])
      BY <2>1, <3>1
    <3> HIDE DEF from
    <3>4. Len(L[h]) = Len(L[from]) + 1 /\ Len(M[h]) = Len(M[from]) + 1 /\ Len(L[from]) \in Nat /\ Len(M[from]) \in Nat
      BY <3>1, <3>2
    <3> QED
      BY <2>2, <3>3, <3>4
  <2> QED
    BY <2>3, <2>4
<1> QED
  BY <1>4 DEF L, M

\* The oldest version in S that g descends from without a gap.
RootIn(S, g) == Head(Append(LineageIn(S)[g], g))

LEMMA RootStep ==
    ASSUME NEW S, S \subseteq Items, NEW h \in Items
    PROVE  RootIn(S, h) = IF EvolvedFrom[h] \in S THEN RootIn(S, EvolvedFrom[h]) ELSE h
<1> DEFINE L == LineageIn(S)
           from == EvolvedFrom[h]
<1>1. L[h] = IF from \in S THEN Append(L[from], from) ELSE <<>>
  BY LineageDef
<1>2. CASE from \notin S
  <2>1. RootIn(S, h) = Head(Append(<<>>, h))
    BY <1>1, <1>2 DEF RootIn
  <2>2. Head(Append(<<>>, h)) = h
    OBVIOUS
  <2> QED
    BY <1>2, <2>1, <2>2
<1>3. CASE from \in S
  <2>1. L[from] \in Seq(Items) /\ from \in Items
    BY <1>3, LineageType
  <2>2. L[h] = Append(L[from], from)
    BY <1>1, <1>3
  <2> HIDE DEF L, from
  <2>3. Head(Append(Append(L[from], from), h)) = Head(Append(L[from], from))
    <3>1. Append(L[from], from) \in Seq(Items) /\ Len(Append(L[from], from)) = Len(L[from]) + 1 /\ Len(L[from]) \in Nat
      BY <2>1
    <3> DEFINE s == Append(L[from], from)
    <3>2. s \in Seq(Items) /\ Len(s) \in Nat /\ Len(s) >= 1
      BY <3>1
    <3> HIDE DEF s
    <3>3. Append(s, h)[1] = s[1]
      BY <3>2
    <3>4. Head(Append(s, h)) = Append(s, h)[1] /\ Head(s) = s[1]
      BY <3>2
    <3> QED
      BY <3>3, <3>4 DEF s
  <2> QED
    BY <1>3, <2>2, <2>3 DEF RootIn, L, from
<1> QED
  BY <1>2, <1>3

\* A version has the root of what it is below ...
LEMMA RootBelow ==
    ASSUME NEW S, S \subseteq Items
    PROVE  \A h \in Items : \A x : Below(S, h, x) => RootIn(S, h) = RootIn(S, x)
<1> DEFINE Bad == {h \in Items : \E x : Below(S, h, x) /\ RootIn(S, h) # RootIn(S, x)}
<1>1. Bad = {}
  <2> SUFFICES ASSUME Bad # {} PROVE FALSE
    OBVIOUS
  <2>1. PICK h \in Bad : EvolvedFrom[h] \notin Bad
    BY FirstOf
  <2>2. PICK x : Below(S, h, x) /\ RootIn(S, h) # RootIn(S, x)
    BY <2>1
  <2>3. EvolvedFrom[h] \in S /\ EvolvedFrom[h] \in Items /\ (x = EvolvedFrom[h] \/ Below(S, EvolvedFrom[h], x))
    BY <2>1, <2>2, BelowStep
  <2>4. RootIn(S, h) = RootIn(S, EvolvedFrom[h])
    BY <2>1, <2>3, RootStep
  <2> QED
    BY <2>1, <2>2, <2>3, <2>4
<1> QED
  BY <1>1

\* ... and is below its own root, unless it is that.
LEMMA RootFirst ==
    ASSUME NEW S, S \subseteq Items
    PROVE  \A h \in Items : RootIn(S, h) = h \/ Below(S, h, RootIn(S, h))
<1> DEFINE Bad == {h \in Items : ~(RootIn(S, h) = h \/ Below(S, h, RootIn(S, h)))}
<1>1. Bad = {}
  <2> SUFFICES ASSUME Bad # {} PROVE FALSE
    OBVIOUS
  <2>1. PICK h \in Bad : EvolvedFrom[h] \notin Bad
    BY FirstOf
  <2>2. h \in Items /\ RootIn(S, h) # h /\ ~Below(S, h, RootIn(S, h))
    BY <2>1
  <2>3. EvolvedFrom[h] \in S /\ EvolvedFrom[h] \in Items /\ RootIn(S, h) = RootIn(S, EvolvedFrom[h])
    BY <2>2, RootStep
  <2>4. RootIn(S, h) = EvolvedFrom[h] \/ Below(S, EvolvedFrom[h], RootIn(S, h))
    BY <2>1, <2>3
  <2> QED
    BY <2>2, <2>3, <2>4, BelowStep
<1> QED
  BY <1>1

\* No two versions have the same parent.
Unforked == \A g, h \in Items : EvolvedFrom[g] = EvolvedFrom[h] /\ EvolvedFrom[g] # NoItem => g = h

\* In a chain, what is below the same version is below one another.
LEMMA BelowTotal ==
    ASSUME Unforked, NEW S, S \subseteq Items, NEW g \in S, NEW r, g = r \/ Below(S, g, r)
    PROVE  \A h \in S : h = r \/ Below(S, h, r) => h = g \/ Below(S, h, g) \/ Below(S, g, h)
<1> DEFINE Comparable(h) == h = g \/ Below(S, h, g) \/ Below(S, g, h)
           Bad == {h \in S : (h = r \/ Below(S, h, r)) /\ ~Comparable(h)}
<1>1. Bad = {}
  <2> SUFFICES ASSUME Bad # {} PROVE FALSE
    OBVIOUS
  <2>1. PICK h \in Bad : EvolvedFrom[h] \notin Bad
    BY FirstOf
  <2>2. h \in S /\ h \in Items /\ ~Comparable(h) /\ (h = r \/ Below(S, h, r))
    BY <2>1
  <2>3. CASE h = r
    BY <2>2, <2>3
  <2>4. CASE Below(S, h, r)
    <3> DEFINE from == EvolvedFrom[h]
    <3>1. from \in S /\ from \in Items /\ (r = from \/ Below(S, from, r))
      BY <2>2, <2>4, BelowStep
    <3>2. Comparable(from)
      BY <2>1, <3>1
    <3>3. CASE from = g \/ Below(S, from, g)
      BY <2>2, <3>1, <3>3, BelowStep
    <3>4. CASE Below(S, g, from)
      <4>1. PICK n \in S : EvolvedFrom[n] = from /\ (g = n \/ Below(S, g, n))
        BY <3>4, BelowThrough
      <4>2. n = h
        BY <2>2, <3>1, <4>1, ItemsAssumption DEF Unforked
      <4> QED
        BY <2>2, <4>1, <4>2
    <3> QED
      BY <3>2, <3>3, <3>4
  <2> QED
    BY <2>2, <2>3, <2>4
<1> QED
  BY <1>1

\* Between g, which is not in S, and h there are only versions in S.
Hangs(S, h, g) == EvolvedFrom[h] = g \/ \E n \in S : EvolvedFrom[n] = g /\ Below(S, h, n)

LEMMA HangsStep ==
    ASSUME NEW S, S \subseteq Items, NEW h \in Items, NEW g \in Items \ S
    PROVE  Hangs(S, h, g) <=> EvolvedFrom[h] = g \/ (EvolvedFrom[h] \in S /\ Hangs(S, EvolvedFrom[h], g))
<1> DEFINE from == EvolvedFrom[h]
<1>1. ASSUME NEW n \in S, EvolvedFrom[n] = g, Below(S, h, n)
      PROVE  from \in S /\ Hangs(S, from, g)
  <2>1. from \in S /\ (n = from \/ Below(S, from, n))
    BY <1>1, BelowStep
  <2> QED
    BY <1>1, <2>1 DEF Hangs
<1>2. ASSUME from \in S, Hangs(S, from, g)
      PROVE  \E n \in S : EvolvedFrom[n] = g /\ Below(S, h, n)
  <2>1. CASE EvolvedFrom[from] = g
    BY <1>2, <2>1, BelowStep
  <2>2. ASSUME NEW n \in S, EvolvedFrom[n] = g, Below(S, from, n)
        PROVE  \E m \in S : EvolvedFrom[m] = g /\ Below(S, h, m)
    BY <1>2, <2>2, BelowStep
  <2> QED
    BY <1>2, <2>1, <2>2 DEF Hangs
<1> QED
  BY <1>1, <1>2 DEF Hangs

\* Storing g leaves the lineages that do not reach it ...
LEMMA LineageElsewhere ==
    ASSUME NEW S, S \subseteq Items, NEW g \in Items \ S
    PROVE  \A h \in Items : ~Hangs(S, h, g) => LineageIn(S \cup {g})[h] = LineageIn(S)[h]
<1> DEFINE T == S \cup {g}
           L == LineageIn(S)
           M == LineageIn(T)
           Bad == {h \in Items : ~Hangs(S, h, g) /\ M[h] # L[h]}
<1>1. \A h \in Items : L[h] = IF EvolvedFrom[h] \in S THEN Append(L[EvolvedFrom[h]], EvolvedFrom[h]) ELSE <<>>
  BY LineageDef
<1>2. \A h \in Items : M[h] = IF EvolvedFrom[h] \in T THEN Append(M[EvolvedFrom[h]], EvolvedFrom[h]) ELSE <<>>
  <2>1. T \subseteq Items
    OBVIOUS
  <2> HIDE DEF T
  <2> QED
    BY <2>1, LineageDef
<1> HIDE DEF L, M
<1>3. Bad = {}
  <2> SUFFICES ASSUME Bad # {} PROVE FALSE
    OBVIOUS
  <2>1. PICK h \in Bad : EvolvedFrom[h] \notin Bad
    BY FirstOf
  <2>2. h \in Items /\ ~Hangs(S, h, g) /\ M[h] # L[h]
    BY <2>1
  <2>3. EvolvedFrom[h] # g
    BY <2>2 DEF Hangs
  <2>4. CASE EvolvedFrom[h] \in S
    <3>1. ~Hangs(S, EvolvedFrom[h], g)
      BY <2>2, <2>4, HangsStep
    <3>2. M[EvolvedFrom[h]] = L[EvolvedFrom[h]]
      BY <2>1, <2>4, <3>1
    <3>3. EvolvedFrom[h] \in T
      BY <2>4
    <3> QED
      BY <1>1, <1>2, <2>2, <2>4, <3>2, <3>3
  <2>5. CASE EvolvedFrom[h] \notin S
    <3>1. EvolvedFrom[h] \notin T
      BY <2>3, <2>5
    <3> QED
      BY <1>1, <1>2, <2>2, <2>5, <3>1
  <2> QED
    BY <2>4, <2>5
<1> QED
  BY <1>3 DEF L, M

LEMMA AppendConcat == \A s, t \in Seq(Items) : \A x \in Items : Append(s \o t, x) = s \o Append(t, x)
  OBVIOUS

\* ... and puts the lineage of g and g itself before the others, which is what
\* fix_updates does to the ancestors of g's descendants.
LEMMA LineageThrough ==
    ASSUME NEW S, S \subseteq Items, NEW g \in Items \ S
    PROVE  \A h \in Items : Hangs(S, h, g) =>
              LineageIn(S \cup {g})[h] = Append(LineageIn(S)[g], g) \o LineageIn(S)[h]
<1> DEFINE T == S \cup {g}
           L == LineageIn(S)
           M == LineageIn(T)
           A == Append(L[g], g)
           Bad == {h \in Items : Hangs(S, h, g) /\ M[h] # A \o L[h]}
<1>1. \A h \in Items : L[h] = IF EvolvedFrom[h] \in S THEN Append(L[EvolvedFrom[h]], EvolvedFrom[h]) ELSE <<>>
  BY LineageDef
<1>2. \A h \in Items : M[h] = IF EvolvedFrom[h] \in T THEN Append(M[EvolvedFrom[h]], EvolvedFrom[h]) ELSE <<>>
  <2>1. T \subseteq Items
    OBVIOUS
  <2> HIDE DEF T
  <2> QED
    BY <2>1, LineageDef
<1>3. L \in [Items -> Seq(Items)]
  BY LineageType
<1>4. M[g] = L[g]
  <2>1. ~Hangs(S, g, g)
    <3>1. EvolvedFrom[g] # g
      BY ItemsAssumption
    <3>2. ASSUME NEW n \in S, EvolvedFrom[n] = g, Below(S, g, n) PROVE FALSE
      <4>1. n < g /\ n \in Nat /\ g \in Nat
        BY <3>2, BelowEarlier, ItemsAssumption
      <4>2. g < n
        BY <3>2, ItemsAssumption
      <4> QED
        BY <4>1, <4>2
    <3> QED
      BY <3>1, <3>2 DEF Hangs
  <2> QED
    BY <2>1, LineageElsewhere
<1> HIDE DEF L, M
<1>5. A \in Seq(Items)
  BY <1>3
<1>6. Bad = {}
  <2> SUFFICES ASSUME Bad # {} PROVE FALSE
    OBVIOUS
  <2>1. PICK h \in Bad : EvolvedFrom[h] \notin Bad
    BY FirstOf
  <2>2. h \in Items /\ Hangs(S, h, g) /\ M[h] # A \o L[h]
    BY <2>1
  <2>3. CASE EvolvedFrom[h] = g
    <3>1. M[h] = A
      BY <1>2, <1>4, <2>2, <2>3
    <3>2. L[h] = <<>>
      BY <1>1, <2>2, <2>3
    <3>3. A \o <<>> = A
      <4> HIDE DEF A
      <4> QED
        BY <1>5, ConcatEmptySeq
    <3> QED
      BY <2>2, <3>1, <3>2, <3>3
  <2>4. CASE EvolvedFrom[h] # g
    <3> DEFINE from == EvolvedFrom[h]
    <3>1. from \in S /\ Hangs(S, from, g) /\ from \in Items /\ from \in T
      BY <2>2, <2>4, HangsStep
    <3>2. M[from] = A \o L[from]
      BY <2>1, <3>1
    <3>3. M[h] = Append(M[from], from) /\ L[h] = Append(L[from], from)
      BY <1>1, <1>2, <2>2, <3>1
    <3>4. L[from] \in Seq(Items)
      BY <1>3, <3>1
    <3>5. Append(A \o L[from], from) = A \o Append(L[from], from)
      <4> DEFINE s == L[from]
      <4>1. s \in Seq(Items) /\ A \in Seq(Items) /\ from \in Items
        BY <1>5, <3>1, <3>4
      <4> HIDE DEF A, from, s
      <4>2. Append(A \o s, from) = A \o Append(s, from)
        BY <4>1, AppendConcat
      <4> QED
        BY <4>2 DEF s
    <3> QED
      BY <2>2, <3>2, <3>3, <3>5
  <2> QED
    BY <2>3, <2>4
<1> QED
  BY <1>6 DEF L, M, A

\* Lineages change with the set of stored versions only.
LEMMA SameLineage ==
    ASSUME stored' = stored
    PROVE  /\ Lineage' = Lineage
           /\ \A h : Root(h)' = Root(h)
           /\ \A h, x : Descends(h, x)' <=> Descends(h, x)
<1>1. Lineage' = Lineage
  BY DEF Lineage
<1> QED
  BY <1>1 DEF Root, Descends

LEMMA StoredLineage ==
    ASSUME stored \subseteq Items
    PROVE  \A h \in Items :
              /\ Lineage[h] = IF EvolvedFrom[h] \in stored
                              THEN Append(Lineage[EvolvedFrom[h]], EvolvedFrom[h]) ELSE <<>>
              /\ Lineage[h] \in Seq(Items)
              /\ Root(h) = IF EvolvedFrom[h] \in stored THEN Root(EvolvedFrom[h]) ELSE h
<1>1. \A h \in Items : Lineage[h] = IF EvolvedFrom[h] \in stored
                                    THEN Append(Lineage[EvolvedFrom[h]], EvolvedFrom[h]) ELSE <<>>
  BY LineageDef DEF Lineage
<1>2. \A h \in Items : Lineage[h] \in Seq(Items)
  BY LineageType DEF Lineage
<1>3. \A h : Root(h) = RootIn(stored, h)
  BY DEF Root, RootIn, Lineage
<1>4. \A h \in Items : RootIn(stored, h) = IF EvolvedFrom[h] \in stored THEN RootIn(stored, EvolvedFrom[h]) ELSE h
  BY RootStep
<1> QED
  BY <1>1, <1>2, <1>3, <1>4

LEMMA StoredBelow ==
    ASSUME stored \subseteq Items
    PROVE  /\ \A h \in Items : \A x : Descends(h, x) <=>
                 EvolvedFrom[h] \in stored /\ (x = EvolvedFrom[h] \/ Descends(EvolvedFrom[h], x))
           /\ \A h \in Items : ~Descends(h, h)
           /\ \A h \in stored : \A t : Descends(h, t) =>
                 \E n \in stored : EvolvedFrom[n] = t /\ (h = n \/ Descends(h, n))
<1>1. \A h, x : Descends(h, x) <=> Below(stored, h, x)
  BY DescendsBelow
<1>2. \A h \in Items : \A x : Below(stored, h, x) <=>
         EvolvedFrom[h] \in stored /\ (x = EvolvedFrom[h] \/ Below(stored, EvolvedFrom[h], x))
  BY BelowStep
<1>3. ASSUME NEW h \in Items, Below(stored, h, h) PROVE FALSE
  <2>1. h \in Nat /\ h < h
    BY <1>3, BelowEarlier, ItemsAssumption
  <2> QED
    BY <2>1
<1>4. \A h \in stored : \A t : Below(stored, h, t) =>
         \E n \in stored : EvolvedFrom[n] = t /\ (h = n \/ Below(stored, h, n))
  BY BelowThrough
<1> QED
  BY <1>1, <1>2, <1>3, <1>4

LEMMA DescendsOnward ==
    ASSUME stored \subseteq Items, NEW u \in stored, EvolvedFrom[u] \in stored
    PROVE  \A h \in Items : Descends(h, u) => Descends(h, EvolvedFrom[u])
<1> DEFINE t == EvolvedFrom[u]
           Bad == {h \in Items : Descends(h, u) /\ ~Descends(h, t)}
<1>1. Bad = {}
  <2> SUFFICES ASSUME Bad # {} PROVE FALSE
    OBVIOUS
  <2>1. PICK h \in Bad : EvolvedFrom[h] \notin Bad
    BY FirstOf
  <2>2. h \in Items /\ EvolvedFrom[h] \in stored /\ ~Descends(h, t) /\ (u = EvolvedFrom[h] \/ Descends(EvolvedFrom[h], u))
    BY <2>1, StoredBelow
  <2>3. Descends(u, t)
    BY StoredBelow
  <2>4. Descends(EvolvedFrom[h], t)
    BY <2>1, <2>2, <2>3
  <2> QED
    BY <2>2, <2>4, StoredBelow
<1> QED
  BY <1>1

\* Outside fix_updates every version carries its lineage.
LEMMA AtRest ==
    ASSUME NEW w \in Workers, LinesInv, pc[w] \notin {"fix", "descend", "store"}
    PROVE  \A h \in stored : ancestors[h] = Lineage[h] /\ original[h] = Root(h)
  BY DEF LinesInv, Carries, Behind

LEMMA StaysAtRest ==
    ASSUME NEW w \in Workers, LinesInv, pc[w] \notin {"fix", "descend", "store"},
           pc'[w] \notin {"fix", "descend", "store"},
           stored' = stored, ancestors' = ancestors, original' = original
    PROVE  \A h \in stored' : Carries(w, h)'
<1>1. \A h \in stored : ancestors[h] = Lineage[h] /\ original[h] = Root(h)
  BY AtRest
<1>2. Lineage' = Lineage /\ \A h : Root(h)' = Root(h)
  BY SameLineage
<1>3. \A h : ~Behind(w, h)'
  BY DEF Behind
<1> QED
  BY <1>1, <1>2, <1>3 DEF Carries

\* A push that begins.
LEMMA ReceiveLines ==
    ASSUME TypeOK, LinesInv, \A v, w \in Workers : v = w,
           NEW w \in Workers, NEW g \in Items, Receive(w, g)
    PROVE  LinesInv'
<1>1. /\ stored' = stored /\ ancestors' = ancestors /\ original' = original
      /\ pc[w] = "idle" /\ pc'[w] = "original" /\ guid'[w] = g
      /\ docAncestors'[w] = <<>> /\ docOriginal'[w] = g /\ docNext'[w] = NoItem /\ fixes'[w] = 0
      /\ unfinished' = unfinished \cup {g}
  BY DEF Receive, Goto, TypeOK, dbVars
<1>2. unfinished = {}
  BY <1>1 DEF LinesInv, Handling
<1>3. PushInv(w)'
  BY <1>1 DEF PushInv
<1>4. \A h \in stored' : Carries(w, h)'
  BY <1>1, StaysAtRest
<1>5. \A x \in unfinished' : \E v \in Workers : pc'[v] \in Handling /\ guid'[v] = x
  BY <1>1, <1>2 DEF Handling
<1>6. \A x \in Items \ stored' : ancestors'[x] = <<>>
  BY <1>1 DEF LinesInv
<1> QED
  BY <1>3, <1>4, <1>5, <1>6 DEF LinesInv

\* Nothing has been read when the handler looks for the item itself.
LEMMA ReadOriginalLines ==
    ASSUME TypeOK, LinesInv, \A v, w \in Workers : v = w,
           NEW w \in Workers, ReadOriginal(w)
    PROVE  LinesInv'
<1>1. /\ stored' = stored /\ ancestors' = ancestors /\ original' = original
      /\ pc[w] = "original" /\ pc'[w] = "parent" /\ guid' = guid
      /\ docAncestors' = docAncestors /\ docOriginal' = docOriginal /\ docNext' = docNext /\ fixes' = fixes
      /\ unfinished' = unfinished
  BY DEF ReadOriginal, Goto, TypeOK, dbVars, docVars, fixVars, histVars
<1>2. PushInv(w)'
  BY <1>1 DEF PushInv, LinesInv
<1>3. \A h \in stored' : Carries(w, h)'
  BY <1>1, StaysAtRest
<1>4. \A x \in unfinished' : \E v \in Workers : pc'[v] \in Handling /\ guid'[v] = x
  BY <1>1 DEF LinesInv, Handling
<1>5. \A x \in Items \ stored' : ancestors'[x] = <<>>
  BY <1>1 DEF LinesInv
<1> QED
  BY <1>2, <1>3, <1>4, <1>5 DEF LinesInv

\* What the push takes from the parent are its lineage and its root.
LEMMA ReadParentLines ==
    ASSUME TypeOK, LinesInv, \A v, w \in Workers : v = w,
           NEW w \in Workers, ReadParent(w)
    PROVE  LinesInv'
<1> DEFINE g == guid[w]
           from == EvolvedFrom[g]
<1>1. /\ stored' = stored /\ ancestors' = ancestors /\ original' = original
      /\ pc[w] = "parent" /\ pc'[w] = "update" /\ guid' = guid
      /\ docNext' = docNext /\ fixes' = fixes /\ unfinished' = unfinished
  BY DEF ReadParent, Goto, TypeOK, dbVars, fixVars, histVars
<1>2. g \in Items /\ stored \subseteq Items /\ docAncestors[w] = <<>> /\ docOriginal[w] = g /\ docNext[w] = NoItem /\ fixes[w] = 0
  BY <1>1 DEF TypeOK, Handling, LinesInv, PushInv
<1>3. Lineage' = Lineage /\ \A h : Root(h)' = Root(h)
  BY <1>1, SameLineage
<1>4. /\ Lineage[g] = IF from \in stored THEN Append(Lineage[from], from) ELSE <<>>
      /\ Root(g) = IF from \in stored THEN Root(from) ELSE g
  BY <1>2, StoredLineage
<1>5. docAncestors'[w] = Lineage[g] /\ docOriginal'[w] = Root(g)
  <2>1. CASE from \in stored
    <3>1. ancestors[from] = Lineage[from] /\ original[from] = Root(from)
      BY <1>1, <2>1, AtRest
    <3>2. docAncestors'[w] = Append(ancestors[from], from) /\ docOriginal'[w] = original[from]
      BY <2>1 DEF ReadParent, TypeOK
    <3> QED
      BY <1>4, <2>1, <3>1, <3>2
  <2>2. CASE from \notin stored
    <3>1. docAncestors'[w] = docAncestors[w] /\ docOriginal'[w] = docOriginal[w]
      BY <2>2 DEF ReadParent
    <3> QED
      BY <1>2, <1>4, <2>2, <3>1
  <2> QED
    BY <2>1, <2>2
<1>6. docAncestors'[w] = Lineage'[guid'[w]] /\ docOriginal'[w] = Root(guid[w])'
  <2>1. guid'[w] = g
    BY <1>1
  <2>2. Root(guid[w])' = Head(Append(Lineage'[guid'[w]], guid'[w])) /\ Root(g) = Head(Append(Lineage[g], g))
    BY DEF Root
  <2> QED
    BY <1>3, <1>5, <2>1, <2>2
<1>7. PushInv(w)'
  BY <1>1, <1>2, <1>6 DEF PushInv
<1>8. \A h \in stored' : Carries(w, h)'
  BY <1>1, StaysAtRest
<1>9. \A x \in unfinished' : \E v \in Workers : pc'[v] \in Handling /\ guid'[v] = x
  BY <1>1 DEF LinesInv, Handling
<1>10. \A x \in Items \ stored' : ancestors'[x] = <<>>
  BY <1>1 DEF LinesInv
<1> QED
  BY <1>7, <1>8, <1>9, <1>10 DEF LinesInv

\* The descendants to repair are those below the update that was found.
LEMMA FindUpdateLines ==
    ASSUME TypeOK, LinesInv, RepairInv, \A v, w \in Workers : v = w,
           NEW w \in Workers, FindUpdate(w)
    PROVE  LinesInv'
<1> DEFINE g == guid[w]
<1>1. /\ stored' = stored /\ ancestors' = ancestors /\ original' = original
      /\ pc[w] = "update" /\ guid' = guid /\ unfinished' = unfinished
      /\ docAncestors' = docAncestors /\ docOriginal' = docOriginal /\ fixes' = fixes
      /\ pc'[w] \in {"fix", "store"}
  BY DEF FindUpdate, Goto, TypeOK, dbVars, histVars
<1>2. /\ g \in Items /\ stored \subseteq Items
      /\ docAncestors[w] = Lineage[g] /\ docOriginal[w] = Root(g) /\ docNext[w] = NoItem /\ fixes[w] = 0
  BY <1>1 DEF TypeOK, Handling, LinesInv, PushInv
<1>3. Lineage' = Lineage /\ (\A h : Root(h)' = Root(h)) /\ \A h, x : Descends(h, x)' <=> Descends(h, x)
  BY <1>1, SameLineage
<1>4. docAncestors'[w] = Lineage'[guid'[w]] /\ docOriginal'[w] = Root(guid[w])'
  <2>1. guid'[w] = g
    BY <1>1
  <2>2. Root(guid[w])' = Head(Append(Lineage'[guid'[w]], guid'[w])) /\ Root(g) = Head(Append(Lineage[g], g))
    BY DEF Root
  <2> QED
    BY <1>1, <1>2, <1>3, <2>1, <2>2
<1>5. \A h \in stored : ancestors[h] = Lineage[h] /\ original[h] = Root(h)
  BY <1>1, AtRest
<1>6. PushInv(w)' /\ \A h \in stored' : Carries(w, h)'
  <2>1. ASSUME NEW n \in Items, isNew[w], IsUpdateOf(n, g), pc'[w] = "fix",
               docNext'[w] = n, target'[w] = n, targetAnc'[w] = ancestors[n]
        PROVE  PushInv(w)' /\ \A h \in stored' : Carries(w, h)'
    <3>1. g \notin stored
      BY <1>1, <2>1 DEF RepairInv, NewnessKnown, Preparing
    <3>2. n \in stored /\ n # NoItem
      BY <2>1, ItemsAssumption DEF IsUpdateOf
    <3>3. Lineage[n] = <<>>
      BY <1>2, <2>1, <3>1, StoredLineage DEF IsUpdateOf
    <3>4. targetAnc'[w] = Lineage'[target'[w]] /\ fixes'[w] = Len(Lineage'[target'[w]])
      <4>1. fixes'[w] = 0 /\ Len(Lineage'[target'[w]]) = 0
        BY <1>1, <1>2, <1>3, <2>1, <3>3
      <4> QED
        BY <1>3, <1>5, <2>1, <3>2, <4>1
    <3>5. PushInv(w)'
      <4>1. guid'[w] \notin stored' /\ target'[w] = docNext'[w] /\ target'[w] \in stored' /\ docNext'[w] # NoItem
        BY <1>1, <2>1, <3>1, <3>2
      <4> QED
        BY <1>4, <2>1, <3>4, <4>1 DEF PushInv
    <3>6. \A h : ~Behind(w, h)'
      BY <2>1 DEF Behind, Ahead
    <3> QED
      BY <1>1, <1>3, <1>5, <3>5, <3>6 DEF Carries
  <2>2. ASSUME pc'[w] = "store", docNext'[w] = docNext[w]
        PROVE  PushInv(w)' /\ \A h \in stored' : Carries(w, h)'
    <3>1. docNext'[w] = NoItem
      BY <1>2, <2>2
    <3>2. PushInv(w)'
      BY <1>4, <2>2, <3>1 DEF PushInv
    <3>3. \A h : ~Behind(w, h)'
      BY <3>1 DEF Behind
    <3> QED
      BY <1>1, <1>3, <1>5, <3>2, <3>3 DEF Carries
  <2> QED
    BY <2>1, <2>2 DEF FindUpdate, Goto, TypeOK
<1>7. \A x \in unfinished' : \E v \in Workers : pc'[v] \in Handling /\ guid'[v] = x
  BY <1>1 DEF LinesInv, Handling
<1>8. \A x \in Items \ stored' : ancestors'[x] = <<>>
  BY <1>1 DEF LinesInv
<1> QED
  BY <1>6, <1>7, <1>8 DEF LinesInv

\* fix_updates writes what a descendant will have above it, and goes on below it.
LEMMA FixDescendantLines ==
    ASSUME TypeOK, LinesInv, \A v, w \in Workers : v = w,
           NEW w \in Workers, FixDescendant(w)
    PROVE  LinesInv'
<1> DEFINE t == target[w]
           n == docNext[w]
           A == Append(docAncestors[w], guid[w])
<1>1. /\ stored' = stored /\ guid' = guid /\ unfinished' = unfinished
      /\ pc[w] = "fix" /\ pc'[w] = "descend"
      /\ docAncestors' = docAncestors /\ docOriginal' = docOriginal /\ docNext' = docNext
      /\ target' = target /\ targetAnc' = targetAnc
      /\ ancestors' = [ancestors EXCEPT ![t] = A \o targetAnc[w]]
      /\ original' = [original EXCEPT ![t] = docOriginal[w]]
      /\ fixes'[w] = fixes[w] + 1
  BY DEF FixDescendant, Goto, TypeOK, histVars, jobVars, docVars
<1>2. /\ guid[w] \in Items /\ stored \subseteq Items
      /\ ancestors \in [Items -> Seq(Items)] /\ original \in [Items -> Items \cup {NoItem}]
  BY <1>1 DEF TypeOK, Handling
<1>3. /\ docAncestors[w] = Lineage[guid[w]] /\ docOriginal[w] = Root(guid[w])
      /\ guid[w] \notin stored
      /\ n # NoItem /\ t \in stored /\ (t = n \/ Descends(t, n))
      /\ targetAnc[w] = Lineage[t] /\ fixes[w] = Len(Lineage[t])
  BY <1>1 DEF LinesInv, PushInv
<1>4. Lineage' = Lineage /\ (\A h : Root(h)' = Root(h)) /\ \A h, x : Descends(h, x)' <=> Descends(h, x)
  BY <1>1, SameLineage
<1>5. PushInv(w)'
  <2>1. guid'[w] = guid[w] /\ target'[w] = t /\ docNext'[w] = n
    BY <1>1
  <2>2. docAncestors'[w] = Lineage'[guid'[w]] /\ docOriginal'[w] = Root(guid[w])'
    <3>1. Root(guid[w])' = Head(Append(Lineage'[guid'[w]], guid'[w])) /\ Root(guid[w]) = Head(Append(Lineage[guid[w]], guid[w]))
      BY DEF Root
    <3> QED
      BY <1>1, <1>3, <1>4, <2>1, <3>1
  <2>3. target'[w] = docNext'[w] \/ Descends(target[w], docNext[w])'
    BY <1>3, <2>1, <1>4 DEF Descends
  <2>4. fixes'[w] = Len(Lineage'[target'[w]]) + 1
    BY <1>1, <1>3, <1>4, <2>1
  <2>5. guid'[w] \notin stored' /\ target'[w] \in stored' /\ docNext'[w] # NoItem
    BY <1>1, <1>3, <2>1
  <2> QED
    BY <1>1, <2>2, <2>3, <2>4, <2>5 DEF PushInv
<1>6. ~Descends(t, t)
  BY <1>2, <1>3, StoredBelow
<1>7. \A h : Behind(w, h)' <=> Behind(w, h) \/ h = t
  <2>1. \A h : Ahead(w, h) <=> h = t \/ Descends(h, t)
    BY <1>1 DEF Ahead
  <2>2. \A h : Ahead(w, h)' <=> Descends(h, t)
    BY <1>1, <1>4 DEF Ahead, Descends
  <2>3. \A h : Behind(w, h) <=> (h = n \/ Descends(h, n)) /\ ~Ahead(w, h)
    BY <1>1, <1>3 DEF Behind
  <2>4. \A h : Behind(w, h)' <=> (h = n \/ Descends(h, n)) /\ ~Ahead(w, h)'
    BY <1>1, <1>3, <1>4 DEF Behind, Descends
  <2> QED
    BY <1>3, <1>6, <2>1, <2>2, <2>3, <2>4
<1>8. ASSUME NEW h \in stored PROVE Carries(w, h)'
  <2>1. CASE h = t
    <3>1. ancestors'[h] = A \o Lineage[h] /\ original'[h] = docOriginal[w]
      BY <1>1, <1>2, <1>3, <2>1
    <3> QED
      BY <1>1, <1>4, <1>7, <2>1, <3>1 DEF Carries
  <2>2. CASE h # t
    <3>1. ancestors'[h] = ancestors[h] /\ original'[h] = original[h]
      BY <1>1, <1>2, <2>2
    <3>2. Behind(w, h)' <=> Behind(w, h)
      BY <1>7, <2>2
    <3>3. Carries(w, h)
      BY DEF LinesInv
    <3> QED
      BY <1>1, <1>4, <3>1, <3>2, <3>3 DEF Carries
  <2> QED
    BY <2>1, <2>2
<1>9. \A x \in unfinished' : \E v \in Workers : pc'[v] \in Handling /\ guid'[v] = x
  BY <1>1 DEF LinesInv, Handling
<1>10. \A x \in Items \ stored' : ancestors'[x] = <<>>
  BY <1>1, <1>2, <1>3 DEF LinesInv
<1> QED
  BY <1>1, <1>5, <1>8, <1>9, <1>10 DEF LinesInv

\* No version has more ancestors than fix_updates repairs.
Shallow == \A g \in Items : Len(LineageIn(Items)[g]) <= FixLimit

\* fix_updates does not give up before it has reached the last descendant.
LEMMA LimitNotReached ==
    ASSUME Shallow, NEW S, S \subseteq Items, NEW g \in Items \ S, NEW t \in S, NEW h \in S,
           EvolvedFrom[h] = t, Hangs(S, t, g)
    PROVE  Len(LineageIn(S)[t]) + 1 # FixLimit
<1> DEFINE L == LineageIn(S)
           T == S \cup {g}
           M == LineageIn(T)
           W == LineageIn(Items)
<1>1. /\ L \in [Items -> Seq(Items)] /\ T \subseteq Items
      /\ M[t] = Append(L[g], g) \o L[t]
      /\ Hangs(S, h, g)
  BY LineageType, LineageThrough, HangsStep
<1>2. M[h] = Append(L[g], g) \o L[h] /\ L[h] = Append(L[t], t)
  BY <1>1, LineageThrough, LineageDef
<1>3. Len(M[h]) <= Len(W[h]) /\ W \in [Items -> Seq(Items)]
  <2>1. Items \subseteq Items
    OBVIOUS
  <2> HIDE DEF T
  <2> QED
    BY <1>1, <2>1, LineageGrows, LineageType
<1>4. Len(W[h]) <= FixLimit
  BY DEF Shallow
<1> HIDE DEF L, M, W
<1>5. L[g] \in Seq(Items) /\ L[t] \in Seq(Items) /\ t \in Items
  BY <1>1
<1>6. Len(L[h]) = Len(L[t]) + 1 /\ L[h] \in Seq(Items)
  BY <1>1, <1>2, <1>5
<1>7. Len(M[h]) = Len(Append(L[g], g)) + Len(L[h]) /\ Len(Append(L[g], g)) = Len(L[g]) + 1
  BY <1>2, <1>5, <1>6, ConcatProperties
<1>8. Len(L[g]) \in Nat /\ Len(L[t]) \in Nat /\ Len(W[h]) \in Nat
  BY <1>3, <1>5
<1> DEFINE i == Len(L[g])
           j == Len(L[t])
           k == Len(M[h])
           l == Len(W[h])
<1>9. /\ i \in Nat /\ j \in Nat /\ l \in Nat /\ FixLimit \in Nat
      /\ k = (i + 1) + (j + 1) /\ k <= l /\ l <= FixLimit
  BY <1>3, <1>4, <1>6, <1>7, <1>8, ParametersAssumption
<1>10. j + 1 # FixLimit
  <2> HIDE DEF i, j, k, l
  <2> QED
    BY <1>9
<1> QED
  BY <1>10 DEF L

\* ... so that nothing is left to be repaired when it stops.
LEMMA FindDescendantLines ==
    ASSUME TypeOK, LinesInv, LinkInv, Unforked, Shallow, \A v, w \in Workers : v = w,
           NEW w \in Workers, FindDescendant(w)
    PROVE  LinesInv'
<1> DEFINE t == target[w]
           n == docNext[w]
           g == guid[w]
<1>1. /\ stored' = stored /\ ancestors' = ancestors /\ original' = original
      /\ pc[w] = "descend" /\ guid' = guid /\ unfinished' = unfinished
      /\ docAncestors' = docAncestors /\ docOriginal' = docOriginal /\ docNext' = docNext
      /\ fixes' = fixes
      /\ pc'[w] \in {"fix", "store"}
  BY DEF FindDescendant, Goto, TypeOK, dbVars, histVars, jobVars, docVars
<1>2. g \in Items /\ stored \subseteq Items
  BY <1>1 DEF TypeOK, Handling
<1>3. /\ docAncestors[w] = Lineage[g] /\ docOriginal[w] = Root(g)
      /\ g \notin stored
      /\ n # NoItem /\ t \in stored /\ (t = n \/ Descends(t, n))
      /\ fixes[w] = Len(Lineage[t]) + 1
  BY <1>1 DEF LinesInv, PushInv
<1>4. EvolvedFrom[n] = g /\ n \in stored
  BY <1>3 DEF LinkInv, IsUpdateOf
<1>5. Lineage' = Lineage /\ (\A h : Root(h)' = Root(h)) /\ \A h, x : Descends(h, x)' <=> Descends(h, x)
  BY <1>1, SameLineage
<1>6. \A h : Ahead(w, h) <=> Descends(h, t)
  BY <1>1 DEF Ahead
<1>7. \A h : Behind(w, h) <=> (h = n \/ Descends(h, n)) /\ ~Descends(h, t)
  BY <1>1, <1>3, <1>6 DEF Behind
<1>8. docAncestors'[w] = Lineage'[guid'[w]] /\ docOriginal'[w] = Root(guid[w])' /\ guid'[w] = g /\ docNext'[w] = n
  <2>1. guid'[w] = g /\ docNext'[w] = n
    BY <1>1
  <2>2. Root(guid[w])' = Head(Append(Lineage'[guid'[w]], guid'[w])) /\ Root(g) = Head(Append(Lineage[g], g))
    BY DEF Root
  <2> QED
    BY <1>1, <1>3, <1>5, <2>1, <2>2
<1>9. ASSUME NEW u \in Items, IsUpdateOf(u, t), target'[w] = u, targetAnc'[w] = ancestors[u], pc'[w] = "fix"
      PROVE  PushInv(w)' /\ \A h \in stored' : Carries(w, h)'
  <2>1. u \in stored /\ EvolvedFrom[u] = t /\ t \in Items
    BY <1>2, <1>3, <1>9 DEF IsUpdateOf
  <2>2. Descends(u, t) /\ Descends(u, n)
    BY <1>2, <1>3, <2>1, StoredBelow
  <2>3. ancestors[u] = Lineage[u]
    BY <1>7, <2>1, <2>2 DEF LinesInv, Carries
  <2>4. Lineage[u] = Append(Lineage[t], t) /\ Lineage[t] \in Seq(Items)
    BY <1>2, <1>3, <2>1, StoredLineage
  <2>5. Len(Lineage[u]) = Len(Lineage[t]) + 1
    <3> DEFINE s == Lineage[t]
    <3>1. s \in Seq(Items)
      BY <2>4
    <3> HIDE DEF s
    <3>2. Len(Append(s, t)) = Len(s) + 1
      BY <2>1, <3>1
    <3> QED
      BY <2>4, <3>2 DEF s
  <2>6. targetAnc'[w] = Lineage'[target'[w]] /\ fixes'[w] = Len(Lineage'[target'[w]])
    BY <1>1, <1>3, <1>5, <1>9, <2>3, <2>5
  <2>7. target'[w] = docNext'[w] \/ Descends(target[w], docNext[w])'
    BY <1>5, <1>8, <1>9, <2>2 DEF Descends
  <2>8. PushInv(w)'
    <3>1. guid'[w] \notin stored' /\ target'[w] \in stored' /\ docNext'[w] # NoItem
      BY <1>1, <1>3, <1>8, <1>9, <2>1
    <3> QED
      BY <1>8, <1>9, <2>6, <2>7, <3>1 DEF PushInv
  <2>9. \A h \in stored : Descends(h, t) <=> h = u \/ Descends(h, u)
    <3>1. ASSUME NEW h \in stored, Descends(h, t) PROVE h = u \/ Descends(h, u)
      <4>1. PICK m \in stored : EvolvedFrom[m] = t /\ (h = m \/ Descends(h, m))
        BY <1>2, <3>1, StoredBelow
      <4>2. t # NoItem /\ m \in Items
        BY <1>2, <2>1, <4>1, ItemsAssumption
      <4>3. m = u
        BY <2>1, <4>1, <4>2, <1>9 DEF Unforked
      <4> QED
        BY <4>1, <4>3
    <3>2. ASSUME NEW h \in stored, Descends(h, u) PROVE Descends(h, t)
      BY <1>2, <1>3, <2>1, <3>2, DescendsOnward
    <3> QED
      BY <2>2, <3>1, <3>2
  <2>10. \A h \in stored : Behind(w, h)' <=> Behind(w, h)
    <3>1. \A h : Ahead(w, h)' <=> h = u \/ Descends(h, u)
      BY <1>5, <1>9 DEF Ahead, Descends
    <3>2. \A h : Behind(w, h)' <=> (h = n \/ Descends(h, n)) /\ ~Ahead(w, h)'
      BY <1>3, <1>5, <1>8, <1>9 DEF Behind, Descends
    <3> QED
      BY <1>7, <2>9, <3>1, <3>2
  <2>11. \A h \in stored : Carries(w, h)
    BY DEF LinesInv
  <2> QED
    BY <1>1, <1>5, <1>8, <2>8, <2>10, <2>11 DEF Carries
<1>10. ASSUME fixes[w] = FixLimit \/ (\A h \in Items : ~IsUpdateOf(h, t)), pc'[w] = "store", target' = target
       PROVE  PushInv(w)' /\ \A h \in stored' : Carries(w, h)'
  <2>1. Hangs(stored, t, g)
    <3>1. Descends(t, n) => Below(stored, t, n)
      BY DescendsBelow
    <3> QED
      BY <1>3, <1>4, <3>1 DEF Hangs
  <2>2. ASSUME NEW h \in stored, EvolvedFrom[h] = t PROVE FALSE
    <3>1. fixes[w] = FixLimit
      BY <1>2, <1>10, <2>2 DEF IsUpdateOf
    <3>2. Len(Lineage[t]) + 1 # FixLimit
      BY <1>2, <1>3, <2>1, <2>2, LimitNotReached DEF Lineage
    <3> QED
      BY <1>3, <3>1, <3>2
  <2>3. \A h \in stored : ~Descends(h, t)
    BY <1>2, <2>2, StoredBelow
  <2>4. \A h \in stored : Behind(w, h)' <=> Behind(w, h)
    <3>1. \A h : ~Ahead(w, h)'
      BY <1>10 DEF Ahead
    <3>2. \A h : Behind(w, h)' <=> (h = n \/ Descends(h, n)) /\ ~Ahead(w, h)'
      BY <1>3, <1>5, <1>8, <1>10 DEF Behind, Descends
    <3> QED
      BY <1>7, <2>3, <3>1, <3>2
  <2>5. PushInv(w)'
    <3>1. guid'[w] \notin stored'
      BY <1>1, <1>3
    <3> QED
      BY <1>8, <1>10, <3>1 DEF PushInv
  <2>6. \A h \in stored : Carries(w, h)
    BY DEF LinesInv
  <2> QED
    BY <1>1, <1>5, <1>8, <2>4, <2>5, <2>6 DEF Carries
<1>11. PushInv(w)' /\ \A h \in stored' : Carries(w, h)'
  BY <1>9, <1>10 DEF FindDescendant, Goto, TypeOK
<1>12. \A x \in unfinished' : \E v \in Workers : pc'[v] \in Handling /\ guid'[v] = x
  BY <1>1 DEF LinesInv, Handling
<1>13. \A x \in Items \ stored' : ancestors'[x] = <<>>
  BY <1>1 DEF LinesInv
<1> QED
  BY <1>11, <1>12, <1>13 DEF LinesInv

\* A correction of a stored item changes nothing.
LEMMA StoreAgainLines ==
    ASSUME TypeOK, LinesInv, \A v, w \in Workers : v = w,
           NEW w \in Workers, StoreItem(w), guid[w] \in stored
    PROVE  LinesInv'
<1> DEFINE g == guid[w]
<1>1. /\ stored' = stored /\ pc[w] = "store" /\ pc'[w] = "link" /\ guid' = guid /\ unfinished' = unfinished
      /\ ancestors' = [ancestors EXCEPT ![g] = IF parent[w] # NoItem THEN docAncestors[w] ELSE @]
      /\ original' = [original EXCEPT ![g] = docOriginal[w]]
  BY DEF StoreItem, Goto, TypeOK, jobVars, histVars
<1>2. /\ g \in Items /\ stored \subseteq Items
      /\ ancestors \in [Items -> Seq(Items)] /\ original \in [Items -> Items \cup {NoItem}]
  BY <1>1 DEF TypeOK, Handling
<1>3. docAncestors[w] = Lineage[g] /\ docOriginal[w] = Root(g) /\ docNext[w] = NoItem
  BY <1>1 DEF LinesInv, PushInv
<1>4. Lineage' = Lineage /\ \A h : Root(h)' = Root(h)
  BY <1>1, SameLineage
<1>5. \A h \in stored : ancestors[h] = Lineage[h] /\ original[h] = Root(h)
  BY <1>3 DEF LinesInv, Carries, Behind
<1>6. \A h \in stored : ancestors'[h] = Lineage[h] /\ original'[h] = Root(h)
  BY <1>1, <1>2, <1>3, <1>5
<1>7. \A h \in stored' : Carries(w, h)'
  <2>1. \A h : ~Behind(w, h)'
    BY <1>1 DEF Behind
  <2> QED
    BY <1>1, <1>4, <1>6, <2>1 DEF Carries
<1>8. PushInv(w)'
  BY <1>1 DEF PushInv
<1>9. \A x \in unfinished' : \E v \in Workers : pc'[v] \in Handling /\ guid'[v] = x
  BY <1>1 DEF LinesInv, Handling
<1>10. \A x \in Items \ stored' : ancestors'[x] = <<>>
  BY <1>1, <1>2 DEF LinesInv
<1> QED
  BY <1>7, <1>8, <1>9, <1>10 DEF LinesInv

\* What a version has once g is stored: that of g before its own, below g.
LEMMA NewLineage ==
    ASSUME stored \subseteq Items, NEW g \in Items \ stored, stored' = stored \cup {g}
    PROVE  /\ Lineage'[g] = Lineage[g] /\ Root(g)' = Root(g)
           /\ \A h \in Items :
                 IF Hangs(stored, h, g)
                 THEN /\ Lineage'[h] = Append(Lineage[g], g) \o Lineage[h]
                      /\ Root(h)' = Root(g)
                 ELSE Lineage'[h] = Lineage[h] /\ Root(h)' = Root(h)
<1> DEFINE T == stored \cup {g}
<1>1. \A h : Lineage'[h] = LineageIn(T)[h] /\ Lineage[h] = LineageIn(stored)[h]
  BY DEF Lineage
<1>2. \A h \in Items : ~Hangs(stored, h, g) => LineageIn(T)[h] = LineageIn(stored)[h]
  BY LineageElsewhere
<1>3. \A h \in Items : Hangs(stored, h, g) =>
         LineageIn(T)[h] = Append(LineageIn(stored)[g], g) \o LineageIn(stored)[h]
  BY LineageThrough
<1>4. ~Hangs(stored, g, g)
  <2>1. EvolvedFrom[g] # g
    BY ItemsAssumption
  <2>2. ASSUME NEW n \in stored, EvolvedFrom[n] = g, Below(stored, g, n) PROVE FALSE
    <3>1. n < g /\ n \in Nat /\ g \in Nat
      BY <2>2, BelowEarlier, ItemsAssumption
    <3>2. g < n
      BY <2>2, ItemsAssumption
    <3> QED
      BY <3>1, <3>2
  <2> QED
    BY <2>1, <2>2 DEF Hangs
<1> HIDE DEF T
<1>5. Lineage'[g] = Lineage[g] /\ \A h \in Items :
         Lineage'[h] = IF Hangs(stored, h, g) THEN Append(Lineage[g], g) \o Lineage[h] ELSE Lineage[h]
  BY <1>1, <1>2, <1>3, <1>4
<1>6. \A h : Root(h)' = Head(Append(Lineage'[h], h)) /\ Root(h) = Head(Append(Lineage[h], h))
  BY DEF Root
<1>7. ASSUME NEW h \in Items, Hangs(stored, h, g) PROVE Root(h)' = Root(g)
  <2> DEFINE s == Lineage[g]
             t == Lineage[h]
             a == Append(s, g)
  <2>1. s \in Seq(Items) /\ t \in Seq(Items)
    BY LineageType, <1>1
  <2> HIDE DEF s, t
  <2>2. a \in Seq(Items) /\ Len(a) \in Nat /\ Len(a) >= 1
    BY <2>1
  <2> HIDE DEF a
  <2>3. a \o t \in Seq(Items) /\ Len(a \o t) = Len(a) + Len(t) /\ Len(t) \in Nat
    BY <2>1, <2>2, ConcatProperties
  <2>4. (a \o t)[1] = a[1]
    <3>1. 1 \in 1 .. (Len(a) + Len(t)) /\ 1 <= Len(a)
      BY <2>2, <2>3
    <3> QED
      BY <2>1, <2>2, <3>1, ConcatProperties
  <2>5. Append(a \o t, h)[1] = (a \o t)[1]
    <3> DEFINE b == a \o t
    <3>1. b \in Seq(Items) /\ Len(b) \in Nat /\ Len(b) >= 1
      BY <2>2, <2>3
    <3> HIDE DEF b
    <3>2. Append(b, h)[1] = b[1]
      BY <3>1
    <3> QED
      BY <3>2 DEF b
  <2>6. Head(Append(a \o t, h)) = Append(a \o t, h)[1]
    <3> DEFINE b == Append(a \o t, h)
    <3>1. b \in Seq(Items)
      BY <2>3
    <3> HIDE DEF b
    <3>2. Head(b) = b[1]
      BY <3>1
    <3> QED
      BY <3>2 DEF b
  <2>7. Head(a) = a[1]
    BY <2>2
  <2>8. Head(Append(a \o t, h)) = Head(a)
    BY <2>4, <2>5, <2>6, <2>7
  <2> QED
    BY <1>5, <1>6, <1>7, <2>8 DEF a, s, t
<1> QED
  BY <1>4, <1>5, <1>6, <1>7

\* When an item is stored its descendants have what fix_updates has written, and
\* all others what they had.
LEMMA StoreNewLines ==
    ASSUME TypeOK, LinesInv, LinkInv, RepairInv, Unforked, \A v, w \in Workers : v = w,
           NEW w \in Workers, StoreItem(w), guid[w] \notin stored
    PROVE  LinesInv'
<1> DEFINE g == guid[w]
           n == docNext[w]
<1>1. /\ stored' = stored \cup {g}
      /\ pc[w] = "store" /\ pc'[w] = "link" /\ guid' = guid /\ unfinished' = unfinished
      /\ ancestors' = [ancestors EXCEPT ![g] = IF parent[w] # NoItem THEN docAncestors[w] ELSE @]
      /\ original' = [original EXCEPT ![g] = docOriginal[w]]
  BY DEF StoreItem, Goto, TypeOK, jobVars, histVars
<1>2. /\ g \in Items \ stored /\ stored \subseteq Items
      /\ ancestors \in [Items -> Seq(Items)] /\ original \in [Items -> Items \cup {NoItem}]
  BY <1>1 DEF TypeOK, Handling
<1>3. docAncestors[w] = Lineage[g] /\ docOriginal[w] = Root(g)
  BY <1>1 DEF LinesInv, PushInv
<1>4. ancestors'[g] = Lineage'[g] /\ original'[g] = Root(g)'
  <2>1. Lineage'[g] = Lineage[g] /\ Root(g)' = Root(g)
    BY <1>1, <1>2, NewLineage
  <2>2. CASE parent[w] # NoItem
    BY <1>1, <1>2, <1>3, <2>1, <2>2
  <2>3. CASE parent[w] = NoItem
    <3>1. EvolvedFrom[g] \notin stored
      BY <1>1, <1>2, <2>3, ItemsAssumption DEF RepairInv
    <3>2. Lineage[g] = <<>>
      BY <1>2, <3>1, StoredLineage
    <3>3. ancestors[g] = <<>>
      BY <1>2 DEF LinesInv
    <3> QED
      BY <1>1, <1>2, <1>3, <2>1, <2>3, <3>2, <3>3
  <2> QED
    BY <2>2, <2>3
<1>5. \A h \in stored : Behind(w, h) <=> Hangs(stored, h, g)
  <2>1. CASE n = NoItem
    <3>1. \A h \in stored : EvolvedFrom[h] # g
      BY <1>1, <1>2, <2>1 DEF RepairInv, IsUpdateOf
    <3> QED
      BY <2>1, <3>1 DEF Behind, Hangs
  <2>2. CASE n # NoItem
    <3>1. EvolvedFrom[n] = g /\ n \in stored /\ g # NoItem
      BY <1>2, <2>2, ItemsAssumption DEF LinkInv, IsUpdateOf
    <3>2. \A h \in stored : EvolvedFrom[h] = g <=> h = n
      BY <1>2, <3>1 DEF Unforked
    <3>3. \A h : Behind(w, h) <=> h = n \/ Descends(h, n)
      BY <1>1, <2>2 DEF Behind, Ahead
    <3>4. \A h : Descends(h, n) <=> Below(stored, h, n)
      BY DescendsBelow
    <3> QED
      BY <3>1, <3>2, <3>3, <3>4 DEF Hangs
  <2> QED
    BY <2>1, <2>2
<1>6. ASSUME NEW h \in stored PROVE ancestors'[h] = Lineage'[h] /\ original'[h] = Root(h)'
  <2>1. h # g /\ h \in Items
    BY <1>2
  <2>2. ancestors'[h] = ancestors[h] /\ original'[h] = original[h]
    BY <1>1, <1>2, <2>1
  <2>3. Carries(w, h)
    BY DEF LinesInv
  <2>4. IF Hangs(stored, h, g)
        THEN Lineage'[h] = Append(Lineage[g], g) \o Lineage[h] /\ Root(h)' = Root(g)
        ELSE Lineage'[h] = Lineage[h] /\ Root(h)' = Root(h)
    BY <1>1, <1>2, <2>1, NewLineage
  <2>5. CASE Hangs(stored, h, g)
    BY <1>3, <1>5, <2>2, <2>3, <2>4, <2>5 DEF Carries
  <2>6. CASE ~Hangs(stored, h, g)
    BY <1>5, <2>2, <2>3, <2>4, <2>6 DEF Carries
  <2> QED
    BY <2>5, <2>6
<1>7. \A h \in stored' : Carries(w, h)'
  <2>1. \A h : ~Behind(w, h)'
    BY <1>1 DEF Behind
  <2> QED
    BY <1>1, <1>4, <1>6, <2>1 DEF Carries
<1>8. PushInv(w)'
  BY <1>1 DEF PushInv
<1>9. \A x \in unfinished' : \E v \in Workers : pc'[v] \in Handling /\ guid'[v] = x
  BY <1>1 DEF LinesInv, Handling
<1>10. \A x \in Items \ stored' : ancestors'[x] = <<>>
  BY <1>1, <1>2 DEF LinesInv
<1> QED
  BY <1>7, <1>8, <1>9, <1>10 DEF LinesInv

\* The rest of a push leaves lineages alone.
LEMMA EndOfPushLines ==
    ASSUME TypeOK, LinesInv, \A v, w \in Workers : v = w,
           NEW w \in Workers, LinkParent(w) \/ Announce(w) \/ Finish(w)
    PROVE  LinesInv'
<1>1. /\ stored' = stored /\ ancestors' = ancestors /\ original' = original /\ guid' = guid
      /\ pc[w] \in {"link", "announce", "unlock"} /\ pc'[w] \in {"announce", "unlock", "idle"}
      /\ pc'[w] = "idle" => unfinished' = unfinished \ {guid[w]}
      /\ pc'[w] # "idle" => unfinished' = unfinished
  <2>1. CASE LinkParent(w)
    BY <2>1 DEF LinkParent, Goto, TypeOK, jobVars, histVars
  <2>2. CASE Announce(w)
    BY <2>2 DEF Announce, Goto, TypeOK, dbVars, jobVars, histVars
  <2>3. CASE Finish(w)
    BY <2>3 DEF Finish, Goto, TypeOK, dbVars, jobVars
  <2> QED
    BY <2>1, <2>2, <2>3
<1>2. PushInv(w)'
  BY <1>1 DEF PushInv
<1>3. \A h \in stored' : Carries(w, h)'
  BY <1>1, StaysAtRest
<1>4. \A x \in unfinished' : \E v \in Workers : pc'[v] \in Handling /\ guid'[v] = x
  <2>1. \A x \in unfinished : x = guid[w]
    BY DEF LinesInv
  <2> QED
    BY <1>1, <2>1 DEF Handling, LinesInv
<1>5. \A x \in Items \ stored' : ancestors'[x] = <<>>
  BY <1>1 DEF LinesInv
<1> QED
  BY <1>2, <1>3, <1>4, <1>5 DEF LinesInv

LEMMA SameLines ==
    ASSUME LinesInv, UNCHANGED <<dbVars, jobVars, fixVars, pc, unfinished>>
    PROVE  LinesInv'
<1>1. Lineage' = Lineage /\ (\A h : Root(h)' = Root(h)) /\ \A h, x : Descends(h, x)' <=> Descends(h, x)
  BY SameLineage DEF dbVars
<1>2. /\ stored' = stored /\ ancestors' = ancestors /\ original' = original /\ unfinished' = unfinished
      /\ pc' = pc /\ guid' = guid /\ docAncestors' = docAncestors /\ docOriginal' = docOriginal
      /\ docNext' = docNext /\ fixes' = fixes /\ target' = target /\ targetAnc' = targetAnc
  BY DEF dbVars, jobVars, docVars, fixVars
<1>3. ASSUME NEW w \in Workers PROVE PushInv(w)' /\ \A h \in stored' : Carries(w, h)'
  <2>1. PushInv(w) /\ \A h \in stored : Carries(w, h)
    BY DEF LinesInv
  <2>2. PushInv(w)'
    BY <1>2, <2>1 DEF PushInv, Descends, Root, Lineage
  <2>3. \A h : Behind(w, h)' <=> Behind(w, h)
    BY <1>2 DEF Behind, Ahead, Descends, Lineage
  <2> QED
    BY <1>1, <1>2, <2>1, <2>2, <2>3 DEF Carries
<1> QED
  BY <1>2, <1>3 DEF LinesInv

LEMMA LineageInvStep ==
    ASSUME TypeOK, LinkInv, RepairInv, LineageInv, [Next]_vars,
           \A v, w \in Workers : v = w, Unforked, Shallow
    PROVE  LineageInv'
<1>1. ASSUME NEW w \in Workers, Fail(w) \/ Crash(w) PROVE LineageInv'
  BY <1>1 DEF Fail, Crash, LineageInv
<1>2. ASSUME NEW w \in Workers, NEW g \in Items, Receive(w, g) PROVE LineageInv'
  <2>1. clean' = clean
    BY <1>2 DEF Receive
  <2>2. LinesInv => LinesInv'
    BY <1>2, ReceiveLines
  <2> QED
    BY <2>1, <2>2 DEF LineageInv
<1>3. ASSUME NEW w \in Workers, Step(w) PROVE LineageInv'
  <2>1. clean' = clean
    BY <1>3 DEF Step, ReadOriginal, ReadParent, FindUpdate, FixDescendant, FindDescendant, StoreItem,
                LinkParent, Announce, Finish, histVars
  <2>2. LinesInv => LinesInv'
    BY <1>3, ReadOriginalLines, ReadParentLines, FindUpdateLines, FixDescendantLines, FindDescendantLines,
       StoreAgainLines, StoreNewLines, EndOfPushLines DEF Step
  <2> QED
    BY <2>1, <2>2 DEF LineageInv
<1>4. ASSUME (\E g \in Items : LockExpires(g)) \/ UNCHANGED vars PROVE LineageInv'
  <2>1. clean' = clean
    BY <1>4 DEF LockExpires, vars, histVars
  <2>2. UNCHANGED <<dbVars, jobVars, fixVars, pc, unfinished>>
    BY <1>4 DEF LockExpires, vars, dbVars, jobVars, docVars, fixVars, histVars
  <2> QED
    BY <2>1, <2>2, SameLines DEF LineageInv
<1> QED
  BY <1>1, <1>2, <1>3, <1>4 DEF Next

\* Between pushes nobody is in fix_updates, and every link has been set.
LEMMA LineagesComplete ==
    ASSUME TypeOK, LinkInv, RepairInv, LineageInv, NEW v \in Workers
    PROVE  ChainComplete
<1> SUFFICES ASSUME Quiet, LinesInv, NEW g \in stored
             PROVE  /\ ancestors[g] = Lineage[g]
                    /\ original[g] = Root(g)
                    /\ nextversion[g] # NoItem <=> \E h \in Items : IsUpdateOf(h, g)
  BY DEF ChainComplete, LineageInv
<1>1. ancestors[g] = Lineage[g] /\ original[g] = Root(g)
  <2>1. pc[v] = "idle"
    BY DEF Quiet
  <2> QED
    BY <2>1, AtRest
<1>2. unfinished = {}
  BY DEF LinesInv, Quiet, Handling
<1>3. nextversion[g] # NoItem => \E h \in Items : IsUpdateOf(h, g)
  BY DEF LinkInv, NextversionSound, TypeOK
<1>4. ASSUME NEW h \in Items, IsUpdateOf(h, g) PROVE nextversion[g] # NoItem
  BY <1>2, <1>4 DEF RepairInv, IsUpdateOf
<1> QED
  BY <1>1, <1>3, <1>4

\* While one push runs at a time, whatever the order of arrival, every version of
\* a story without forks lists all its stored ancestors, has the first one's
\* guid as original_id, and is superseded when it has an update.
THEOREM ChainIsComplete ==
    ASSUME FixUpdates = TRUE, Workers # {}, \A v, w \in Workers : v = w, Unforked, Shallow
    PROVE  Spec => []ChainComplete
<1>1. Init => RepairInv
  BY DEF Init, RepairInv, NewnessKnown, Preparing, Handling
<1>2. Init => LineageInv
  BY DEF Init, LineageInv, LinesInv, PushInv
<1>3. TypeOK /\ LinkInv /\ RepairInv /\ [Next]_vars => RepairInv'
  BY RepairInvStep
<1>4. TypeOK /\ LinkInv /\ RepairInv /\ LineageInv /\ [Next]_vars => LineageInv'
  BY LineageInvStep
<1>5. TypeOK /\ LinkInv /\ RepairInv /\ LineageInv => ChainComplete
  BY LineagesComplete
<1> QED
  BY <1>1, <1>2, <1>3, <1>4, <1>5, TypeCorrect, LinkInvInit, LinkInvStep, PTL DEF Spec

-----------------------------------------------------------------------------
(* The last version *)

\* get_last_version_ids ends: a nextversion has a greater number.
LEMMA LastVersionsDef ==
    ASSUME TypeOK, LinkInv
    PROVE  \A g \in Items : LastVersions[g] =
              IF nextversion[g] = NoItem THEN {g}
              ELSE IF SameOriginal(g) # {} THEN SameOriginal(g)
              ELSE IF nextversion[g] \in stored THEN LastVersions[nextversion[g]]
              ELSE {g}
<1>1. PICK m \in Nat : \A g \in Items : g <= m
  <2>1. CASE Items = {}
    BY <2>1
  <2>2. CASE Items # {}
    BY <2>2, ItemsAssumption, GreatestOfFinite
  <2> QED
    BY <2>1, <2>2
<1> DEFINE Later(n) == {g \in Items : m < g + n}
           Answer(f, g) == IF nextversion[g] = NoItem THEN {g}
                           ELSE IF SameOriginal(g) # {} THEN SameOriginal(g)
                           ELSE IF nextversion[g] \in stored THEN f[nextversion[g]]
                           ELSE {g}
           Fits(f, n) == f = [g \in Later(n) |-> Answer(f, g)]
           Bad == {n \in Nat : ~\E f : Fits(f, n)}
<1>2. \A g \in Items : nextversion[g] # NoItem => nextversion[g] \in Items /\ g < nextversion[g]
  BY ItemsAssumption DEF LinkInv, NextversionSound, IsUpdateOf, TypeOK
<1>3. \A g \in Items : g \in Nat
  BY ItemsAssumption
<1>4. Bad = {}
  <2> SUFFICES ASSUME Bad # {} PROVE FALSE
    OBVIOUS
  <2>1. PICK n \in Bad : \A x \in Bad : n <= x
    BY LeastOfNonempty
  <2>2. CASE n = 0
    <3>1. Later(n) = {}
      <4>1. ASSUME NEW g \in Items PROVE ~(m < g + n)
        BY <1>1, <1>3, <2>2
      <4> QED
        BY <4>1
    <3>2. Fits([g \in {} |-> {}], n)
      <4> HIDE DEF Answer, Later
      <4> QED
        BY <3>1
    <3> QED
      BY <2>1, <3>2
  <2>3. CASE n # 0
    <3>1. n \in Nat /\ n - 1 \in Nat /\ ~(n <= n - 1)
      BY <2>1, <2>3
    <3>2. PICK f : Fits(f, n - 1)
      BY <2>1, <3>1
    <3> DEFINE h == [g \in Later(n) |-> Answer(f, g)]
    <3>3. \A g \in Later(n - 1) : g \in Later(n)
      BY <1>1, <1>3, <3>1
    <3>4. \A g \in Later(n - 1) : h[g] = f[g]
      <4>1. \A g \in Later(n - 1) : f[g] = Answer(f, g)
        <5> HIDE DEF Later, Answer
        <5> QED
          BY <3>2
      <4> HIDE DEF Later, Answer
      <4> QED
        BY <3>3, <4>1
    <3>5. ASSUME NEW g \in Later(n), nextversion[g] # NoItem PROVE nextversion[g] \in Later(n - 1)
      <4> DEFINE x == nextversion[g]
      <4>1. g \in Nat /\ x \in Nat /\ g < x /\ m < g + n /\ m \in Nat /\ x \in Items
        BY <1>1, <1>2, <1>3, <3>5
      <4> HIDE DEF x
      <4>2. m < x + (n - 1)
        BY <3>1, <4>1
      <4> QED
        BY <4>1, <4>2 DEF x
    <3>6. \A g \in Later(n) : Answer(f, g) = Answer(h, g)
      <4> HIDE DEF Later, h
      <4> QED
        BY <3>4, <3>5
    <3>7. Fits(h, n)
      <4> HIDE DEF Later, Answer
      <4> QED
        BY <3>6
    <3> QED
      BY <2>1, <3>7
  <2> QED
    BY <2>2, <2>3
<1>5. Later(m + 1) = Items
  <2>1. ASSUME NEW g \in Items PROVE m < g + (m + 1)
    BY <1>1, <1>3
  <2> QED
    BY <2>1
<1>6. \E f : f = [g \in Items |-> Answer(f, g)]
  <2>1. m + 1 \in Nat
    BY <1>1
  <2>2. PICK f : Fits(f, m + 1)
    BY <1>4, <2>1
  <2> HIDE DEF Later, Answer
  <2> QED
    BY <1>5, <2>2
<1>7. LastVersions = CHOOSE f : f = [g \in Items |-> Answer(f, g)]
  BY DEF LastVersions
<1> HIDE DEF Answer
<1>8. LastVersions = [g \in Items |-> Answer(LastVersions, g)]
  BY <1>6, <1>7
<1>9. \A g \in Items : LastVersions[g] = Answer(LastVersions, g)
  BY <1>8
<1> QED
  BY <1>9 DEF Answer

\* In a chain that is complete the last version of a story can be found by its
\* original_id, and what is found comes after every other version.
LEMMA LastIsFound ==
    ASSUME TypeOK, LinkInv, Unforked, NEW g \in stored,
           \A h \in stored : original[h] = Root(h),
           \A h \in stored : nextversion[h] # NoItem <=> \E n \in Items : IsUpdateOf(n, h)
    PROVE  \A h \in LastVersions[g] : Visible(h) /\ (h = g \/ Descends(h, g))
<1> DEFINE Latest == {h \in stored : h = g \/ Descends(h, g)}
<1>0. stored \subseteq Items /\ g \in Items /\ \A h \in stored : h \in Nat /\ EvolvedFrom[h] < h
  BY ItemsAssumption DEF TypeOK
<1>1. \A h \in Items : \A x : Descends(h, x) => Root(h) = Root(x)
  <2>1. \A h, x : Descends(h, x) <=> Below(stored, h, x)
    BY DescendsBelow
  <2>2. \A h : Root(h) = RootIn(stored, h)
    BY DEF Root, RootIn, Lineage
  <2> QED
    BY <1>0, <2>1, <2>2, RootBelow
<1>2. SameOriginal(g) # {}
  <2>1. PICK x \in Latest : \A y \in Latest : y <= x
    <3>1. IsFiniteSet(Latest)
      BY <1>0, ItemsAssumption, FS_Subset
    <3> QED
      BY <1>0, <3>1, GreatestOfFinite
  <2>2. x \in stored /\ (x = g \/ Descends(x, g))
    BY <2>1
  <2>3. nextversion[x] = NoItem
    <3> SUFFICES ASSUME nextversion[x] # NoItem PROVE FALSE
      OBVIOUS
    <3>1. PICK n \in stored : EvolvedFrom[n] = x
      BY <2>2 DEF IsUpdateOf
    <3>2. n \in Latest
      BY <1>0, <2>2, <3>1, StoredBelow
    <3>3. n <= x /\ n \in Nat /\ x \in Nat /\ x < n
      BY <1>0, <2>1, <2>2, <3>1, <3>2
    <3> QED
      BY <3>3
  <2>4. original[x] = original[g]
    BY <1>0, <1>1, <2>2
  <2> QED
    BY <2>2, <2>3, <2>4 DEF SameOriginal
<1>3. LastVersions[g] = IF nextversion[g] = NoItem THEN {g} ELSE SameOriginal(g)
  BY <1>0, <1>2, LastVersionsDef
<1>4. CASE nextversion[g] = NoItem
  BY <1>3, <1>4 DEF Visible
<1>5. ASSUME nextversion[g] # NoItem, NEW h \in SameOriginal(g) PROVE Visible(h) /\ (h = g \/ Descends(h, g))
  <2>1. h \in stored /\ Root(h) = Root(g) /\ nextversion[h] = NoItem
    BY <1>5 DEF SameOriginal
  <2> DEFINE r == Root(g)
  <2>2. (g = r \/ Descends(g, r)) /\ (h = r \/ Descends(h, r))
    <3>1. \A x, y : Descends(x, y) <=> Below(stored, x, y)
      BY DescendsBelow
    <3>2. \A x : Root(x) = RootIn(stored, x)
      BY DEF Root, RootIn, Lineage
    <3> QED
      BY <1>0, <2>1, <3>1, <3>2, RootFirst
  <2>3. h = g \/ Descends(h, g) \/ Descends(g, h)
    <3>1. \A x, y : Descends(x, y) <=> Below(stored, x, y)
      BY DescendsBelow
    <3> HIDE DEF r
    <3> QED
      BY <1>0, <2>1, <2>2, <3>1, BelowTotal
  <2>4. ~Descends(g, h)
    <3> SUFFICES ASSUME Descends(g, h) PROVE FALSE
      OBVIOUS
    <3>1. PICK n \in stored : EvolvedFrom[n] = h
      BY <1>0, StoredBelow
    <3> QED
      BY <1>0, <2>1, <3>1 DEF IsUpdateOf
  <2> QED
    BY <2>1, <2>3, <2>4 DEF Visible
<1> QED
  BY <1>3, <1>4, <1>5

\* In a story without forks whose pushes come one at a time, in any order, the link to
\* any version leads to the last one, which has none itself.
THEOREM LastVersionsLast ==
    ASSUME FixUpdates = TRUE, Workers # {}, \A v, w \in Workers : v = w, Unforked, Shallow
    PROVE  Spec => []LastVersionFound
<1>1. TypeOK /\ LinkInv /\ ChainComplete => LastVersionFound
  <2> SUFFICES ASSUME TypeOK, LinkInv, ChainComplete, Quiet, clean, NEW g \in stored
               PROVE  \A h \in LastVersions[g] : Visible(h) /\ (h = g \/ Descends(h, g))
    BY DEF LastVersionFound
  <2>1. \A h \in stored : original[h] = Root(h)
    BY DEF ChainComplete
  <2>2. \A h \in stored : nextversion[h] # NoItem <=> \E n \in Items : IsUpdateOf(n, h)
    BY DEF ChainComplete
  <2> QED
    BY <2>1, <2>2, LastIsFound
<1> QED
  BY <1>1, ChainIsComplete, TypeCorrect, LinkInvInit, LinkInvStep, PTL DEF Spec
=============================================================================
