----------------------------- MODULE WireChain -----------------------------
(***************************************************************************)
(* The push of text items: POST /push with type "text"                     *)
(* (newsroom/push/views.py, publishing.py, utils.py).                      *)
(*                                                                         *)
(* Superdesk sends every version of a story as an item with a guid of its  *)
(* own and the guid it has evolved from.  The web server handles several   *)
(* pushes at a time, one per worker, under a lock on the pushed guid.  A   *)
(* push reads its parent, looks for an update that has arrived before it   *)
(* (PUSH_FIX_UPDATES) and repairs that update and its descendants, stores  *)
(* the item, sets the parent's nextversion and queues the notification.    *)
(* Every database call is a step of its own: between two of them any other *)
(* worker may run.                                                         *)
(***************************************************************************)
EXTENDS Naturals, Sequences, FiniteSets

CONSTANTS
    Items,        \* the guids of the feed, as positive integers
    EvolvedFrom,  \* EvolvedFrom[g]: the guid g is an update of, or NoItem
    Story,        \* Story[g]: the story g belongs to, the same for all its versions
    Workers,      \* requests the web server can handle at a time
    NoWorker,
    FixUpdates,   \* PUSH_FIX_UPDATES
    FixLimit,     \* descendants fix_updates repairs at most (50 in the code)
    Faults,       \* what may go wrong: "error", "crash", "expiry"
    MaxPushes     \* bound for model checking: MaxPushes[g] pushes of g

NoItem == 0

\* Versions are numbered in the order the newsroom wrote them, which need not
\* be the order they arrive in.
ASSUME ItemsAssumption ==
    /\ Items \subseteq Nat \ {NoItem}
    /\ IsFiniteSet(Items)
    /\ EvolvedFrom \in [Items -> Items \cup {NoItem}]
    /\ \A g \in Items : EvolvedFrom[g] < g
    /\ \A g \in Items : EvolvedFrom[g] # NoItem => Story[EvolvedFrom[g]] = Story[g]

ASSUME WorkersAssumption == NoWorker \notin Workers

ASSUME ParametersAssumption ==
    /\ FixUpdates \in BOOLEAN
    /\ FixLimit \in Nat \ {0}
    /\ Faults \subseteq {"error", "crash", "expiry"}
    /\ MaxPushes \in [Items -> Nat]

VARIABLES
    \* the items collection
    stored,       \* guids present
    original,     \* original_id of each guid
    ancestors,    \* ancestors of each guid, oldest first
    nextversion,  \* nextversion of each guid, NoItem when it is not set
    \* the lock collection
    lock,         \* lock[g]: the worker that holds "push-g"
    \* the notification tasks sent to celery
    announced,    \* records [item, topics] of notify_new_wire_item calls
    \* the workers
    pc,           \* the next step of each worker
    guid,         \* the item it publishes
    isNew,        \* no document had this guid when the handler looked
    parent,       \* the parent it found, NoItem if none
    docOriginal,  \* the original_id, ancestors and nextversion it is going to write
    docAncestors,
    docNext,
    target,       \* the descendant fix_updates is at, NoItem outside it
    targetAnc,    \* the ancestors that descendant had when it was read
    fixes,        \* descendants fix_updates has written
    \* history
    pushes,       \* pushes of each guid that got the lock
    unfinished,   \* guids whose last push did not run to its end
    clean,        \* no push has failed
    lapsed        \* guids whose lock has expired under a push

dbVars == <<stored, original, ancestors, nextversion>>
fixVars == <<target, targetAnc, fixes>>
docVars == <<docOriginal, docAncestors, docNext>>
jobVars == <<guid, isNew, parent, docVars>>
histVars == <<pushes, unfinished, clean, lapsed>>
vars == <<dbVars, lock, announced, pc, jobVars, fixVars, histVars>>

\* Steps at which a worker is inside the handler, after lock and before unlock.
Handling == {"original", "parent", "update", "fix", "descend", "store", "link", "announce", "unlock"}

-----------------------------------------------------------------------------

Init ==
    /\ stored = {}
    /\ original = [g \in Items |-> NoItem]
    /\ ancestors = [g \in Items |-> <<>>]
    /\ nextversion = [g \in Items |-> NoItem]
    /\ lock = [g \in Items |-> NoWorker]
    /\ announced = {}
    /\ pc = [w \in Workers |-> "idle"]
    /\ guid = [w \in Workers |-> NoItem]
    /\ isNew = [w \in Workers |-> FALSE]
    /\ parent = [w \in Workers |-> NoItem]
    /\ docOriginal = [w \in Workers |-> NoItem]
    /\ docAncestors = [w \in Workers |-> <<>>]
    /\ docNext = [w \in Workers |-> NoItem]
    /\ target = [w \in Workers |-> NoItem]
    /\ targetAnc = [w \in Workers |-> <<>>]
    /\ fixes = [w \in Workers |-> 0]
    /\ pushes = [g \in Items |-> 0]
    /\ unfinished = {}
    /\ clean = TRUE
    /\ lapsed = {}

Goto(w, step) == pc' = [pc EXCEPT ![w] = step]

\* Mutant: the lock is not consulted.
ReceiveUnlocked(w, g) ==
    /\ pc[w] = "idle"
    /\ pushes[g] < MaxPushes[g]
    /\ lock' = [lock EXCEPT ![g] = w]
    /\ guid' = [guid EXCEPT ![w] = g]
    /\ parent' = [parent EXCEPT ![w] = NoItem]
    /\ docOriginal' = [docOriginal EXCEPT ![w] = g]
    /\ docAncestors' = [docAncestors EXCEPT ![w] = <<>>]
    /\ docNext' = [docNext EXCEPT ![w] = NoItem]
    /\ target' = [target EXCEPT ![w] = NoItem]
    /\ fixes' = [fixes EXCEPT ![w] = 0]
    /\ pushes' = [pushes EXCEPT ![g] = @ + 1]
    /\ unfinished' = unfinished \cup {g}
    /\ Goto(w, "original")
    /\ UNCHANGED <<dbVars, announced, isNew, targetAnc, clean, lapsed>>

(***************************************************************************)
(* A push of g reaches worker w and gets the lock.  When the lock is taken *)
(* the answer is 503 and nothing changes, so there is no action for it.    *)
(***************************************************************************)
Receive(w, g) ==
    /\ pc[w] = "idle"
    /\ pushes[g] < MaxPushes[g]
    /\ lock[g] = NoWorker
    /\ lock' = [lock EXCEPT ![g] = w]
    /\ guid' = [guid EXCEPT ![w] = g]
    /\ parent' = [parent EXCEPT ![w] = NoItem]
    /\ docOriginal' = [docOriginal EXCEPT ![w] = g]
    /\ docAncestors' = [docAncestors EXCEPT ![w] = <<>>]
    /\ docNext' = [docNext EXCEPT ![w] = NoItem]
    /\ target' = [target EXCEPT ![w] = NoItem]
    /\ fixes' = [fixes EXCEPT ![w] = 0]
    /\ pushes' = [pushes EXCEPT ![g] = @ + 1]
    /\ unfinished' = unfinished \cup {g}
    /\ Goto(w, "original")
    /\ UNCHANGED <<dbVars, announced, isNew, targetAnc, clean, lapsed>>

\* handle_publish_text_item looks for the item itself.
ReadOriginal(w) ==
    /\ pc[w] = "original"
    /\ isNew' = [isNew EXCEPT ![w] = guid[w] \notin stored]
    /\ Goto(w, "parent")
    /\ UNCHANGED <<dbVars, lock, announced, guid, parent, docVars, fixVars, histVars>>

\* Mutant: the parent is linked as soon as it is found, before the item is stored.
ReadParentAndLink(w) ==
    LET from == EvolvedFrom[guid[w]] IN
    /\ pc[w] = "parent"
    /\ \/ /\ from \in stored
          /\ parent' = [parent EXCEPT ![w] = from]
          /\ docOriginal' = [docOriginal EXCEPT ![w] = original[from]]
          /\ docAncestors' = [docAncestors EXCEPT ![w] = Append(ancestors[from], from)]
          /\ nextversion' = [nextversion EXCEPT ![from] = guid[w]]
       \/ /\ from \notin stored
          /\ UNCHANGED <<parent, docOriginal, docAncestors, nextversion>>
    /\ Goto(w, "update")
    /\ UNCHANGED <<stored, original, ancestors, lock, announced, guid, isNew, docNext, fixVars, histVars>>

\* publish_item looks for the parent and takes original_id and ancestors from it.
ReadParent(w) ==
    LET from == EvolvedFrom[guid[w]] IN
    /\ pc[w] = "parent"
    /\ \/ /\ from \in stored
          /\ parent' = [parent EXCEPT ![w] = from]
          /\ docOriginal' = [docOriginal EXCEPT ![w] = original[from]]
          /\ docAncestors' = [docAncestors EXCEPT ![w] = Append(ancestors[from], from)]
       \/ /\ from \notin stored
          /\ UNCHANGED <<parent, docOriginal, docAncestors>>
    /\ Goto(w, "update")
    /\ UNCHANGED <<dbVars, lock, announced, guid, isNew, docNext, fixVars, histVars>>

IsUpdateOf(h, g) == h \in stored /\ EvolvedFrom[h] = g

(***************************************************************************)
(* A new item may have an update already.  find_one returns any of them.   *)
(***************************************************************************)
FindUpdate(w) ==
    /\ pc[w] = "update"
    /\ \/ /\ isNew[w] /\ FixUpdates
          /\ \E h \in Items :
                /\ IsUpdateOf(h, guid[w])
                /\ docNext' = [docNext EXCEPT ![w] = h]
                /\ target' = [target EXCEPT ![w] = h]
                /\ targetAnc' = [targetAnc EXCEPT ![w] = ancestors[h]]
          /\ Goto(w, "fix")
       \/ /\ ~(isNew[w] /\ FixUpdates) \/ \A h \in Items : ~IsUpdateOf(h, guid[w])
          /\ Goto(w, "store")
          /\ UNCHANGED <<docNext, target, targetAnc>>
    /\ UNCHANGED <<dbVars, lock, announced, guid, isNew, parent, docOriginal, docAncestors, fixes, histVars>>

\* Mutant: the ancestors a descendant had are forgotten.
FixDescendantAfresh(w) ==
    /\ pc[w] = "fix"
    /\ ancestors' = [ancestors EXCEPT ![target[w]] = Append(docAncestors[w], guid[w])]
    /\ original' = [original EXCEPT ![target[w]] = docOriginal[w]]
    /\ fixes' = [fixes EXCEPT ![w] = @ + 1]
    /\ Goto(w, "descend")
    /\ UNCHANGED <<stored, nextversion, lock, announced, jobVars, target, targetAnc, histVars>>

\* The loop body of fix_updates: one system_update of the current descendant,
\* with the ancestors it had when it was read.
FixDescendant(w) ==
    /\ pc[w] = "fix"
    /\ ancestors' = [ancestors EXCEPT ![target[w]] = Append(docAncestors[w], guid[w]) \o targetAnc[w]]
    /\ original' = [original EXCEPT ![target[w]] = docOriginal[w]]
    /\ fixes' = [fixes EXCEPT ![w] = @ + 1]
    /\ Goto(w, "descend")
    /\ UNCHANGED <<stored, nextversion, lock, announced, jobVars, target, targetAnc, histVars>>

\* ... and the search for the next one, up to FixLimit.
FindDescendant(w) ==
    /\ pc[w] = "descend"
    /\ \/ /\ fixes[w] < FixLimit
          /\ \E h \in Items :
                /\ IsUpdateOf(h, target[w])
                /\ target' = [target EXCEPT ![w] = h]
                /\ targetAnc' = [targetAnc EXCEPT ![w] = ancestors[h]]
          /\ Goto(w, "fix")
       \/ /\ fixes[w] = FixLimit \/ \A h \in Items : ~IsUpdateOf(h, target[w])
          /\ Goto(w, "store")
          /\ UNCHANGED <<target, targetAnc>>
    /\ UNCHANGED <<dbVars, lock, announced, jobVars, fixes, histVars>>

\* Mutant: the whole document is replaced, fields the push does not set included.
StoreWhole(w) ==
    LET g == guid[w] IN
    /\ pc[w] = "store"
    /\ stored' = stored \cup {g}
    /\ original' = [original EXCEPT ![g] = docOriginal[w]]
    /\ ancestors' = [ancestors EXCEPT ![g] = docAncestors[w]]
    /\ nextversion' = [nextversion EXCEPT ![g] = docNext[w]]
    /\ Goto(w, "link")
    /\ UNCHANGED <<lock, announced, jobVars, fixVars, histVars>>

\* Mutant: the guid has been popped from the document before it is used.
StoreUnnamed(w) ==
    /\ pc[w] = "store"
    /\ stored' = stored \cup {NoItem}
    /\ Goto(w, "link")
    /\ UNCHANGED <<original, ancestors, nextversion, lock, announced, jobVars, fixVars, histVars>>

(***************************************************************************)
(* publish_doc_to_content_api: create the item, or update the fields the   *)
(* pushed document sets.  original_id is always among them; ancestors only *)
(* when a parent was found, nextversion only when an update was found.     *)
(***************************************************************************)
StoreItem(w) ==
    LET g == guid[w] IN
    /\ pc[w] = "store"
    /\ stored' = stored \cup {g}
    /\ original' = [original EXCEPT ![g] = docOriginal[w]]
    /\ ancestors' = [ancestors EXCEPT ![g] = IF parent[w] # NoItem THEN docAncestors[w] ELSE @]
    /\ nextversion' = [nextversion EXCEPT ![g] = IF docNext[w] # NoItem THEN docNext[w] ELSE @]
    /\ Goto(w, "link")
    /\ UNCHANGED <<lock, announced, jobVars, fixVars, histVars>>

\* Mutant: a correction does not link.
LinkParentOnce(w) ==
    /\ pc[w] = "link"
    /\ nextversion' = IF parent[w] # NoItem /\ isNew[w]
                      THEN [nextversion EXCEPT ![parent[w]] = guid[w]] ELSE nextversion
    /\ Goto(w, "announce")
    /\ UNCHANGED <<stored, original, ancestors, lock, announced, jobVars, fixVars, histVars>>

\* Mutant: the first version of the story is linked, not the parent.
LinkFirst(w) ==
    /\ pc[w] = "link"
    /\ nextversion' = IF parent[w] # NoItem
                      THEN [nextversion EXCEPT ![docOriginal[w]] = guid[w]] ELSE nextversion
    /\ Goto(w, "announce")
    /\ UNCHANGED <<stored, original, ancestors, lock, announced, jobVars, fixVars, histVars>>

\* The parent learns its next version.
LinkParent(w) ==
    /\ pc[w] = "link"
    /\ \/ /\ parent[w] # NoItem
          /\ nextversion' = [nextversion EXCEPT ![parent[w]] = guid[w]]
       \/ /\ parent[w] = NoItem
          /\ UNCHANGED nextversion
    /\ Goto(w, "announce")
    /\ UNCHANGED <<stored, original, ancestors, lock, announced, jobVars, fixVars, histVars>>

\* Mutant: updates are taken for corrections.
AnnounceFirstOnly(w) ==
    /\ pc[w] = "announce"
    /\ announced' = IF docNext[w] = NoItem
                    THEN announced \cup {[item |-> guid[w], topics |-> isNew[w] /\ parent[w] = NoItem]}
                    ELSE announced
    /\ Goto(w, "unlock")
    /\ UNCHANGED <<dbVars, lock, jobVars, fixVars, histVars>>

\* handle_publish_text_item queues the notification, unless the item came late.
Announce(w) ==
    /\ pc[w] = "announce"
    /\ announced' = IF docNext[w] = NoItem
                    THEN announced \cup {[item |-> guid[w], topics |-> isNew[w]]}
                    ELSE announced
    /\ Goto(w, "unlock")
    /\ UNCHANGED <<dbVars, lock, jobVars, fixVars, histVars>>

(***************************************************************************)
(* unlock releases the lock its owner holds.  The owner is the process,    *)
(* not the request: when the lock has expired and another request has it,  *)
(* it is released or not, as the two are in the same process or not.       *)
(***************************************************************************)
Unlock(w) ==
    \/ lock' = [lock EXCEPT ![guid[w]] = NoWorker]
    \/ lock[guid[w]] # w /\ UNCHANGED lock

Finish(w) ==
    /\ pc[w] = "unlock"
    /\ Unlock(w)
    /\ unfinished' = unfinished \ {guid[w]}
    /\ Goto(w, "idle")
    /\ UNCHANGED <<dbVars, announced, jobVars, fixVars, pushes, clean, lapsed>>

-----------------------------------------------------------------------------
(* Faults *)

\* A call raises before its step takes effect: finally unlocks, the answer is 500.
Fail(w) ==
    /\ "error" \in Faults
    /\ pc[w] \in Handling
    /\ Unlock(w)
    /\ clean' = FALSE
    /\ Goto(w, "idle")
    /\ UNCHANGED <<dbVars, announced, jobVars, fixVars, pushes, unfinished, lapsed>>

\* The process dies: nothing unlocks.
Crash(w) ==
    /\ "crash" \in Faults
    /\ pc[w] \in Handling
    /\ clean' = FALSE
    /\ Goto(w, "idle")
    /\ UNCHANGED <<dbVars, lock, announced, jobVars, fixVars, pushes, unfinished, lapsed>>

\* 60 seconds have passed since lock(name, expire=60).
LockExpires(g) ==
    /\ "expiry" \in Faults
    /\ lock[g] # NoWorker
    /\ lock' = [lock EXCEPT ![g] = NoWorker]
    /\ lapsed' = IF pc[lock[g]] \in Handling /\ guid[lock[g]] = g THEN lapsed \cup {g} ELSE lapsed
    /\ UNCHANGED <<dbVars, announced, pc, jobVars, fixVars, pushes, unfinished, clean>>

-----------------------------------------------------------------------------

Step(w) ==
    \/ ReadOriginal(w)
    \/ ReadParent(w)
    \/ FindUpdate(w)
    \/ FixDescendant(w)
    \/ FindDescendant(w)
    \/ StoreItem(w)
    \/ LinkParent(w)
    \/ Announce(w)
    \/ Finish(w)

Next ==
    \/ \E w \in Workers :
        \/ \E g \in Items : Receive(w, g)
        \/ Step(w)
        \/ Fail(w)
        \/ Crash(w)
    \/ \E g \in Items : LockExpires(g)

Spec == Init /\ [][Next]_vars

(***************************************************************************)
(* A request that has started runs on, and an expired lock counts as free: *)
(* nothing else is fair.  In particular no push ever has to arrive.        *)
(***************************************************************************)
Fairness ==
    /\ \A w \in Workers : WF_vars(Step(w))
    /\ \A g \in Items : WF_vars(LockExpires(g))

FairSpec == Spec /\ Fairness

-----------------------------------------------------------------------------
(* Properties *)

\* Every variable holds a value of its kind, and a worker in the handler has an item.
TypeOK ==
    /\ stored \subseteq Items
    /\ original \in [Items -> Items \cup {NoItem}]
    /\ ancestors \in [Items -> Seq(Items)]
    /\ nextversion \in [Items -> Items \cup {NoItem}]
    /\ lock \in [Items -> Workers \cup {NoWorker}]
    /\ announced \subseteq [item : Items, topics : BOOLEAN]
    /\ pc \in [Workers -> Handling \cup {"idle"}]
    /\ guid \in [Workers -> Items \cup {NoItem}]
    /\ isNew \in [Workers -> BOOLEAN]
    /\ parent \in [Workers -> Items \cup {NoItem}]
    /\ docOriginal \in [Workers -> Items \cup {NoItem}]
    /\ docAncestors \in [Workers -> Seq(Items)]
    /\ docNext \in [Workers -> Items \cup {NoItem}]
    /\ target \in [Workers -> Items \cup {NoItem}]
    /\ targetAnc \in [Workers -> Seq(Items)]
    /\ fixes \in [Workers -> Nat]
    /\ pushes \in [Items -> Nat]
    /\ unfinished \subseteq Items
    /\ clean \in BOOLEAN
    /\ lapsed \subseteq Items
    /\ \A w \in Workers : pc[w] \in Handling => guid[w] \in Items

Quiet == \A w \in Workers : pc[w] = "idle"

\* What the wire search shows: items without nextversion.
Visible(g) == g \in stored /\ nextversion[g] = NoItem

(***************************************************************************)
(* A stored version never leaves its readers without a version of the      *)
(* story: some version of it is in the search results at every moment,     *)
(* whatever races, fails or expires.                                       *)
(***************************************************************************)
StoryAlwaysVisible ==
    \A g \in stored : \E h \in Items : Story[h] = Story[g] /\ Visible(h)

\* A nextversion leads to a stored update of the item that carries it.
NextversionSound ==
    \A g \in Items : nextversion[g] # NoItem =>
        g \in stored /\ IsUpdateOf(nextversion[g], g)

(***************************************************************************)
(* What makes NextversionSound inductive: what a worker has read of other  *)
(* items stays true until it writes it down, since items are never removed *)
(* while their story goes on.                                              *)
(***************************************************************************)
LinkInv ==
    /\ NextversionSound
    /\ \A w \in Workers :
        /\ parent[w] # NoItem => parent[w] \in stored /\ parent[w] = EvolvedFrom[guid[w]]
        /\ docNext[w] # NoItem => IsUpdateOf(docNext[w], guid[w])
        /\ pc[w] \in {"link", "announce", "unlock"} => guid[w] \in stored

\* Until its lock has expired under a push, an item has one writer of its own at a time,
\* also after crashes that left the lock behind.
OneWriterPerItem ==
    \A v, w \in Workers :
        v # w /\ pc[v] \in Handling /\ pc[w] \in Handling /\ guid[v] \notin lapsed => guid[v] # guid[w]

\* What makes it inductive: whoever is in the handler holds its item's lock.
HolderInv == \A w \in Workers : pc[w] \in Handling /\ guid[w] \notin lapsed => lock[guid[w]] = w

\* A superseded version never comes back to the search results, not even when
\* it is corrected.
NeverResurfaces ==
    [][\A g \in stored : nextversion[g] # NoItem => nextversion'[g] # NoItem]_vars

\* The run of ancestors of each item in S that ends with its parent, oldest first.
LineageIn(S) ==
    LET Run[g \in Items] ==
            IF EvolvedFrom[g] \in S THEN Append(Run[EvolvedFrom[g]], EvolvedFrom[g]) ELSE <<>>
    IN  Run

Lineage == LineageIn(stored)

\* The oldest stored version that g descends from without a gap.
Root(g) == Head(Append(Lineage[g], g))

Descends(h, g) == \E i \in DOMAIN Lineage[h] : Lineage[h][i] = g

(***************************************************************************)
(* As long as no push has failed, the chain is between pushes as if the    *)
(* versions had arrived in order: every item lists all its stored          *)
(* ancestors, carries the first one's guid as original_id, and is          *)
(* superseded exactly when an update of it is there.                       *)
(***************************************************************************)
ChainComplete ==
    Quiet /\ clean => \A g \in stored :
        /\ ancestors[g] = Lineage[g]
        /\ original[g] = Root(g)
        /\ nextversion[g] # NoItem <=> \E h \in Items : IsUpdateOf(h, g)

(***************************************************************************)
(* What makes ChainComplete inductive for one worker and a chain: while    *)
(* fix_updates walks down the versions that were there before the one      *)
(* pushed, those behind it carry what they will have once that is stored,  *)
(* and those ahead of it what they had.                                    *)
(***************************************************************************)
Ahead(w, h) ==
    \/ pc[w] = "fix" /\ (h = target[w] \/ Descends(h, target[w]))
    \/ pc[w] = "descend" /\ Descends(h, target[w])

Behind(w, h) ==
    /\ pc[w] \in {"fix", "descend", "store"}
    /\ docNext[w] # NoItem
    /\ h = docNext[w] \/ Descends(h, docNext[w])
    /\ ~Ahead(w, h)

PushInv(w) ==
    LET g == guid[w] IN
    /\ pc[w] \in {"original", "parent"} => docAncestors[w] = <<>> /\ docOriginal[w] = g
    /\ pc[w] \in {"original", "parent", "update"} => docNext[w] = NoItem /\ fixes[w] = 0
    /\ pc[w] \in {"update", "fix", "descend", "store"} =>
          docAncestors[w] = Lineage[g] /\ docOriginal[w] = Root(g)
    /\ pc[w] \in {"fix", "descend", "store"} /\ docNext[w] # NoItem => g \notin stored
    /\ pc[w] \in {"fix", "descend"} =>
          /\ docNext[w] # NoItem
          /\ target[w] \in stored
          /\ target[w] = docNext[w] \/ Descends(target[w], docNext[w])
    /\ pc[w] = "fix" => targetAnc[w] = Lineage[target[w]] /\ fixes[w] = Len(Lineage[target[w]])
    /\ pc[w] = "descend" => fixes[w] = Len(Lineage[target[w]]) + 1

\* What a stored version carries.
Carries(w, h) ==
    IF Behind(w, h)
    THEN /\ ancestors[h] = Append(docAncestors[w], guid[w]) \o Lineage[h]
         /\ original[h] = docOriginal[w]
    ELSE /\ ancestors[h] = Lineage[h]
         /\ original[h] = Root(h)

LinesInv ==
    /\ \A g \in Items \ stored : ancestors[g] = <<>>
    /\ \A g \in unfinished : \E w \in Workers : pc[w] \in Handling /\ guid[w] = g
    /\ \A w \in Workers : PushInv(w) /\ \A h \in stored : Carries(w, h)

LineageInv == clean => LinesInv

\* A push that failed and is sent again leaves the links between versions as
\* if it had not failed.
RetryRepairsLinks ==
    Quiet /\ unfinished = {} =>
        \A g \in stored :
            nextversion[g] # NoItem <=> \E h \in Items : IsUpdateOf(h, g)

\* The steps between the answer to "is it new" and the storing of the item.
Preparing == {"parent", "update", "fix", "descend", "store"}

NewnessKnown(w) == pc[w] \in Preparing => (isNew[w] <=> guid[w] \notin stored)

(***************************************************************************)
(* What makes RetryRepairsLinks inductive for one worker: a link that is   *)
(* missing is set by the rest of the push of the update, or by the next    *)
(* one, and a new item knows an update it has.                             *)
(***************************************************************************)
RepairInv ==
    /\ \A h \in stored :
        EvolvedFrom[h] \in stored /\ nextversion[EvolvedFrom[h]] = NoItem => h \in unfinished
    /\ \A w \in Workers :
        LET g == guid[w]
            from == EvolvedFrom[g]
        IN
        /\ pc[w] \in Handling => g \in unfinished
        /\ NewnessKnown(w)
        /\ pc[w] \in {"update", "fix", "descend", "store", "link"} /\ from \in stored => parent[w] = from
        /\ pc[w] \in {"fix", "descend", "store"} /\ g \notin stored /\ docNext[w] = NoItem =>
              \A h \in Items : ~IsUpdateOf(h, g)
        /\ pc[w] \in {"announce", "unlock"} /\ from \in stored => nextversion[from] # NoItem

\* Mutant: the search does not exclude superseded versions.
SameOriginalAny(g) == {h \in stored : original[h] = original[g]}

\* The elastic query of get_last_version_ids, which takes the first hit.
SameOriginal(g) == {h \in stored : original[h] = original[g] /\ nextversion[h] = NoItem}

(***************************************************************************)
(* get_last_version_ids of newsroom/wire/service.py: the item itself when  *)
(* it has no nextversion, else an item of the same original_id that has    *)
(* none, else the last version of the next one.  The set of its answers.   *)
(***************************************************************************)
LastVersions[g \in Items] ==
    IF nextversion[g] = NoItem THEN {g}
    ELSE IF SameOriginal(g) # {} THEN SameOriginal(g)
    ELSE IF nextversion[g] \in stored THEN LastVersions[nextversion[g]]
    ELSE {g}

\* As long as no push has failed, every version resolves between pushes to a
\* version that descends from it and is itself not superseded.
LastVersionFound ==
    Quiet /\ clean => \A g \in stored : \A h \in LastVersions[g] :
        /\ Visible(h)
        /\ h = g \/ Descends(h, g)

\* As long as no push has failed, the newest version of a story has been
\* announced to the topic subscribers, whatever arrived before and after it.
NewestAnnounced ==
    Quiet /\ clean => \A g \in stored :
        (\A h \in Items : ~IsUpdateOf(h, g)) => [item |-> g, topics |-> TRUE] \in announced

(***************************************************************************)
(* What makes it inductive as long as no lock expires: the push that stores*)
(* an item first announces it to them, unless an update is there.          *)
(***************************************************************************)
NewsInv ==
    /\ lapsed = {}
    /\ \A w \in Workers : NewnessKnown(w)
    /\ clean => \A g \in stored :
        \/ [item |-> g, topics |-> TRUE] \in announced
        \/ \E h \in Items : IsUpdateOf(h, g)
        \/ \E w \in Workers : pc[w] \in {"link", "announce"} /\ guid[w] = g /\ isNew[w]

(***************************************************************************)
(* The pushes implement the version feed.                                  *)
(***************************************************************************)
Feed == INSTANCE VersionFeed WITH
    published <- stored,
    superseded <- {g \in stored : nextversion[g] # NoItem}

FeedSpec == Feed!Spec
=============================================================================
