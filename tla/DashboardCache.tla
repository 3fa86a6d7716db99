----------------------------- MODULE DashboardCache -----------------------------
(* The caches behind the dashboards, with PERMISSION_DASHBOARD_CARDS on: the items of the
   cards, kept for a company (get_items_by_card, newsroom/wire/views.py), the cards and their
   items of the public page (newsroom/public/views.py) and the pictures of a photo gallery
   (get_media_card_external).  What is computed is stored, and the caches are deleted, by
   background threads (newsroom/factory/cache.py), so in any order.

   What a card shows is the version of the cards, and of the items, it was made from. *)
EXTENDS Integers, FiniteSets

CONSTANTS Users, Admins,      \* those who read the home page; administrators see everything
          Companies, None,
          Company,            \* of each user; None if he has none
          Products,
          Allowed,            \* the products each user may see
          Timeout,            \* of the caches, in ticks
          DeleteOnPush,       \* DELETE_DASHBOARD_CACHE_ON_PUSH
          Kinds,              \* the requests that are made: "home", "public", "media"
          MaxChanges, MaxUnderWay

DashboardCacheAssumption ==
    /\ Admins \subseteq Users /\ None \notin Companies /\ Timeout \in Nat \ {0}
    /\ Company \in [Users -> Companies \union {None}] /\ Allowed \in [Users -> SUBSET Products]
    /\ DeleteOnPush \in BOOLEAN /\ Kinds \subseteq {"home", "public", "media"}

VARIABLES cards, content,   \* the versions of the cards and of the items
          cache,            \* by key: None, or what is stored and the ticks it has left
          requests,         \* under way: what each wants, its step and what it has read
          tasks,            \* the background threads
          raced             \* whether a change was made while something was being computed or stored
vars == <<cards, content, cache, requests, tasks, raced>>

Sees(u) == IF u \in Admins THEN Products ELSE Allowed[u]

-------------------------------------------------------------------------------
(* The keys. *)

HomeKey(u) == <<"home", Company[u]>>
HomeKeys == {<<"home", c>> : c \in Companies \union {None}}
PublicKeys == {<<"public-cards">>, <<"public-items">>}
MediaKey == <<"media">>
Keys == HomeKeys \union PublicKeys \union {MediaKey}
\* The keys that are deleted together.
DashboardKeys == HomeKeys \union PublicKeys

-------------------------------------------------------------------------------
(* The background threads. *)

Entry(value) == [value |-> value, left |-> Timeout]
\* The answer does not wait for the thread.
Store(key, value) == [op |-> "set", keys |-> {key}, value |-> value]
Deletion == [op |-> "delete", keys |-> DashboardKeys, value |-> None]
Run(t) ==
    /\ tasks' = tasks \ {t}
    /\ cache' = [k \in Keys |-> IF k \notin t.keys THEN cache[k]
                                ELSE IF t.op = "set" THEN Entry(t.value) ELSE None]
    /\ UNCHANGED <<cards, content, requests, raced>>
\* Time passes for all entries.
Tick == /\ \E k \in Keys : cache[k] # None
        /\ cache' = [k \in Keys |-> IF cache[k] = None \/ cache[k].left = 1 THEN None
                                    ELSE [cache[k] EXCEPT !.left = @ - 1]]
        /\ UNCHANGED <<cards, content, requests, tasks, raced>>

-------------------------------------------------------------------------------
(* What changes: a card is saved or deleted, an item is pushed. *)

Busy == requests # {} \/ \E t \in tasks : t.op = "set"
\* Mutant: saving a card leaves the caches.
EditCardKeeping == /\ cards + content < MaxChanges /\ cards' = cards + 1
                   /\ raced' = (raced \/ Busy) /\ UNCHANGED <<tasks, content, cache, requests>>
EditCard == /\ cards + content < MaxChanges /\ cards' = cards + 1
            /\ tasks' = tasks \union {Deletion}
            /\ raced' = (raced \/ Busy) /\ UNCHANGED <<content, cache, requests>>
Push == /\ cards + content < MaxChanges /\ content' = content + 1
        /\ tasks' = IF DeleteOnPush THEN tasks \union {Deletion} ELSE tasks
        /\ raced' = (raced \/ Busy) /\ UNCHANGED <<cards, cache, requests>>

-------------------------------------------------------------------------------
(* Requests; each await is a step. *)

Nobody == None
Begin(kind, u) ==
    /\ kind \in Kinds /\ Cardinality(requests) + Cardinality(tasks) < MaxUnderWay
    /\ kind = "home" <=> u # Nobody
    /\ \A r \in requests : <<r.kind, r.user>> # <<kind, u>>
    \* The home page reads the cards before it looks into the cache.
    /\ requests' = requests \union {[kind |-> kind, user |-> u, step |-> "look",
                                      cards |-> IF kind = "home" THEN cards ELSE None]}
    /\ UNCHANGED <<cards, content, cache, tasks, raced>>
KeyOf(r) == CASE r.kind = "home" -> HomeKey(r.user) [] r.kind = "public" -> <<"public-items">> [] OTHER -> MediaKey
Answered(r) == requests' = requests \ {r}
Goes(r, s) == requests' = (requests \ {r}) \union {s}
\* The cache may not respond in time, and is then taken to have nothing.
Look(r) ==
    /\ r.step = "look"
    /\ \/ cache[KeyOf(r)] # None /\ Answered(r)
       \/ Goes(r, [r EXCEPT !.step = IF r.kind = "home" THEN "search" ELSE "cards"])
    /\ UNCHANGED <<cards, content, cache, tasks, raced>>
\* The public page takes its cards from a cache, too; the gallery reads its own.
ReadCards(r) ==
    /\ r.step = "cards"
    /\ \/ /\ r.kind = "public" /\ cache[<<"public-cards">>] # None
          /\ Goes(r, [r EXCEPT !.step = "search", !.cards = cache[<<"public-cards">>].value.cards])
          /\ UNCHANGED tasks
       \/ /\ Goes(r, [r EXCEPT !.step = "search", !.cards = cards])
          /\ tasks' = IF r.kind = "public"
                      THEN tasks \union {Store(<<"public-cards">>, [cards |-> cards, content |-> None, seen |-> Products])}
                      ELSE tasks
    /\ UNCHANGED <<cards, content, cache, raced>>
\* The items of the cards, marked for the user who asks.
Search(r) ==
    /\ r.step = "search"
    /\ LET value == [cards |-> r.cards, content |-> IF r.kind = "media" THEN None ELSE content,
                     seen |-> IF r.kind = "home" THEN Sees(r.user) ELSE Products]
       IN  Answered(r) /\ tasks' = tasks \union {Store(KeyOf(r), value)}
    /\ UNCHANGED <<cards, content, cache, raced>>

Init == /\ cards = 0 /\ content = 0 /\ cache = [k \in Keys |-> None]
        /\ requests = {} /\ tasks = {} /\ raced = FALSE
Step(r) == Look(r) \/ ReadCards(r) \/ Search(r)
Next == \/ \E t \in tasks : Run(t)
        \/ \E r \in requests : Step(r)
        \/ Tick \/ EditCard \/ Push
        \/ \E kind \in Kinds, u \in Users \union {Nobody} : Begin(kind, u)
\* Made from cards or items that have changed since.
Old(value) == value.cards # cards \/ value.content \notin {None, content}
\* Time passes, a request comes to its end, and so does the thread that stores what is old.
Fairness == /\ WF_vars(Tick)
            /\ \A kind \in Kinds, u \in Users \union {Nobody} :
                    WF_vars(\E r \in requests : r.kind = kind /\ r.user = u /\ Step(r))
            /\ \A k \in Keys : WF_vars(\E t \in tasks : k \in t.keys /\ t.op = "set" /\ Old(t.value) /\ Run(t))
Spec == Init /\ [][Next]_vars
FairSpec == Spec /\ Fairness

-------------------------------------------------------------------------------
(* Properties. *)

Values == [cards : 0 .. MaxChanges, content : 0 .. MaxChanges \union {None}, seen : SUBSET Products]
TypeOK ==
    /\ \A k \in Keys : cache[k] # None => cache[k].value \in Values /\ cache[k].left \in 1 .. Timeout
    /\ \A r \in requests : r.kind \in Kinds /\ r.cards \in 0 .. MaxChanges \union {None}
    /\ \A t \in tasks : t.keys \subseteq Keys /\ (t.op = "set" => t.value \in Values)

\* What the home page shows is kept past a change only when the change was made while items
\* were being searched or stored: else the deletion finds all there is to delete.
HomeFreshUnlessRaced ==
    (~raced /\ tasks = {}) => \A k \in HomeKeys : cache[k] # None => ~Old(cache[k].value)
\* The items kept for a company are marked as one of its own users sees them.
OwnUsersView ==
    \A k \in HomeKeys : cache[k] # None =>
        \E u \in Users : Company[u] = k[2] /\ cache[k].value.seen = Sees(u)
\* What the home page may be relied on for, however requests, changes and threads overlap.
DashboardInv == TypeOK /\ OwnUsersView /\ (DeleteOnPush => HomeFreshUnlessRaced)

===============================================================================
