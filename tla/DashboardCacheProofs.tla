----------------------- MODULE DashboardCacheProofs -----------------------
(***************************************************************************)
(* Theorems of DashboardCache, for any users, companies and products, any  *)
(* number of requests and background threads and every order of them; and  *)
(* of HomePage, the page in the browser that shows what is cached, for any *)
(* topics, items and galleries and any number of requests under way.       *)
(***************************************************************************)
EXTENDS DashboardCache, Sequences, TLAPS

\* The constants and variables of HomePage, which has None in common with DashboardCache.
CONSTANTS Topics, Shared, Items, Access, Galleries, MaxSelected, Acts, MayFail, AnyOrder, Waits, MaxFlight
VARIABLES store, home, form, server, flight, asked, saved, base
Home == INSTANCE HomePage

\* What is stored under a key, and what a request and a background thread know.
Value == [cards : 0 .. MaxChanges, content : 0 .. MaxChanges \union {None}, seen : SUBSET Products]
Stored == [value : Value, left : 1 .. Timeout]
Request == [kind : {"home", "public", "media"}, user : Users \union {None},
            step : {"look", "cards", "search"}, cards : 0 .. MaxChanges \union {None}]
Storing == [op : {"set"}, keys : {{k} : k \in Keys}, value : Value]

CacheInv ==
    /\ cards \in Nat /\ content \in Nat /\ cards + content <= MaxChanges
    /\ cache \in [Keys -> Stored \union {None}]
    /\ tasks \subseteq Storing \union {Deletion}
    /\ \A r \in requests :
        /\ r \in Request /\ r.kind \in Kinds
        /\ r.kind = "home" => r.user \in Users /\ r.step # "cards"
        \* A request that searches has read its cards.
        /\ r.kind = "home" \/ r.step = "search" => r.cards \in 0 .. MaxChanges

\* The keys of the home pages are no others.
LEMMA HomeKeysApart ==
    /\ HomeKeys \subseteq Keys
    /\ \A u : HomeKey(u)[1] = "home" /\ HomeKey(u)[2] = Company[u]
    /\ \A k \in HomeKeys : k[1] = "home"
    /\ <<"public-items">> \in Keys \ HomeKeys /\ <<"public-cards">> \in Keys \ HomeKeys
    /\ MediaKey \in Keys \ HomeKeys
<1>1. \A k \in HomeKeys : k[1] = "home"
  BY DEF HomeKeys
<1>2. <<"public-items">>[1] # "home" /\ <<"public-cards">>[1] # "home" /\ MediaKey[1] # "home"
  BY DEF MediaKey
<1>3. HomeKeys \subseteq Keys /\ <<"public-items">> \in Keys /\ <<"public-cards">> \in Keys /\ MediaKey \in Keys
  BY DEF Keys, PublicKeys
<1>4. \A u : HomeKey(u)[1] = "home" /\ HomeKey(u)[2] = Company[u]
  BY DEF HomeKey
<1> QED
  BY <1>1, <1>2, <1>3, <1>4

\* Where a request stores what it has found.
LEMMA KeyOfRequest ==
    ASSUME DashboardCacheAssumption, NEW r \in Request, r.kind = "home" => r.user \in Users
    PROVE  KeyOf(r) \in Keys /\ (KeyOf(r) \in HomeKeys => r.kind = "home" /\ KeyOf(r) = HomeKey(r.user))
<1>1. CASE r.kind = "home"
  <2>1. Company[r.user] \in Companies \union {None}
    BY <1>1 DEF DashboardCacheAssumption
  <2>2. HomeKey(r.user) \in HomeKeys
    BY <2>1 DEF HomeKey, HomeKeys
  <2> QED
    BY <1>1, <2>2, HomeKeysApart DEF KeyOf
<1>2. CASE r.kind = "public"
  BY <1>2, HomeKeysApart DEF KeyOf
<1>3. CASE r.kind = "media"
  BY <1>3, HomeKeysApart DEF KeyOf
<1> QED
  BY <1>1, <1>2, <1>3 DEF Request

LEMMA RunType ==
    ASSUME CacheInv, Timeout \in Nat \ {0}, NEW t \in tasks, Run(t)
    PROVE  CacheInv'
<1>1. t \in Storing \/ t = Deletion
  BY DEF CacheInv
<1>2. ASSUME NEW k \in Keys
      PROVE  (IF k \notin t.keys THEN cache[k] ELSE IF t.op = "set" THEN Entry(t.value) ELSE None)
             \in Stored \union {None}
  <2>1. cache[k] \in Stored \union {None}
    BY DEF CacheInv
  <2>2. ASSUME t.op = "set" PROVE Entry(t.value) \in Stored
    <3>1. t.value \in Value
      BY <1>1, <2>2 DEF Storing, Deletion
    <3> QED
      BY <3>1 DEF Entry, Stored
  <2> QED
    BY <2>1, <2>2
<1>3. cache' \in [Keys -> Stored \union {None}]
  BY <1>2 DEF Run
<1> QED
  BY <1>3 DEF Run, CacheInv

LEMMA TickType ==
    ASSUME CacheInv, Timeout \in Nat \ {0}, Tick
    PROVE  CacheInv' /\ \A k \in Keys : cache'[k] # None => cache[k] # None /\ cache'[k].value = cache[k].value
<1>1. ASSUME NEW k \in Keys, cache[k] # None, cache[k].left # 1
      PROVE  /\ [cache[k] EXCEPT !.left = @ - 1] \in Stored
             /\ [cache[k] EXCEPT !.left = @ - 1].value = cache[k].value
  <2>1. cache[k] \in Stored
    BY <1>1 DEF CacheInv
  <2>2. cache[k].left \in 1 .. Timeout
    BY <2>1 DEF Stored
  <2>3. cache[k].left - 1 \in 1 .. Timeout
    BY <1>1, <2>2
  <2> QED
    BY <2>1, <2>3 DEF Stored
<1>2. cache' \in [Keys -> Stored \union {None}]
  BY <1>1 DEF Tick
<1>3. \A k \in Keys : cache'[k] # None => cache[k] # None /\ cache'[k].value = cache[k].value
  BY <1>1 DEF Tick
<1> QED
  BY <1>2, <1>3 DEF Tick, CacheInv

LEMMA ChangeType ==
    ASSUME CacheInv, MaxChanges \in Nat, EditCard \/ Push
    PROVE  CacheInv'
<1>1. cards' \in Nat /\ content' \in Nat /\ cards' + content' <= MaxChanges
  BY DEF CacheInv, EditCard, Push
<1>2. tasks' \subseteq Storing \union {Deletion} /\ cache' = cache /\ requests' = requests
  BY DEF CacheInv, EditCard, Push
<1> QED
  BY <1>1, <1>2 DEF CacheInv

LEMMA BeginType ==
    ASSUME CacheInv, DashboardCacheAssumption, MaxChanges \in Nat,
           NEW kind \in Kinds, NEW u \in Users \union {Nobody}, Begin(kind, u)
    PROVE  CacheInv'
<1> DEFINE r == [kind |-> kind, user |-> u, step |-> "look", cards |-> IF kind = "home" THEN cards ELSE None]
<1>1. requests' = requests \union {r} /\ UNCHANGED <<cards, content, cache, tasks>>
  BY DEF Begin
<1>2. cards \in 0 .. MaxChanges
  BY DEF CacheInv
<1>3. /\ r \in Request /\ r.kind \in Kinds
      /\ r.kind = "home" => r.user \in Users /\ r.step # "cards"
      /\ r.kind = "home" \/ r.step = "search" => r.cards \in 0 .. MaxChanges
  BY <1>2 DEF Request, DashboardCacheAssumption, Begin, Nobody
<1> HIDE DEF r
<1> QED
  BY <1>1, <1>3 DEF CacheInv

\* A request goes on as one of the same kind.
LEMMA StepType ==
    ASSUME CacheInv, DashboardCacheAssumption, MaxChanges \in Nat, NEW r \in requests, Step(r)
    PROVE  /\ CacheInv'
           /\ \A q \in requests' : \/ q \in requests
                                   \/ /\ q.kind = r.kind /\ q.user = r.user
                                      /\ r.kind = "home" => q.cards = r.cards
           /\ \A t \in tasks' : t \in tasks \/ \A k \in t.keys \cap HomeKeys :
                  /\ r.kind = "home" /\ k = HomeKey(r.user)
                  /\ t.value.cards = r.cards /\ t.value.content = content /\ t.value.seen = Sees(r.user)
           /\ tasks \subseteq tasks' /\ UNCHANGED <<cards, content, cache, raced>>
<1>0. /\ r \in Request /\ r.kind \in Kinds
      /\ r.kind = "home" => r.user \in Users /\ r.step # "cards"
      /\ r.kind = "home" \/ r.step = "search" => r.cards \in 0 .. MaxChanges
  BY DEF CacheInv
<1>1. cards \in 0 .. MaxChanges /\ content \in 0 .. MaxChanges
  BY DEF CacheInv
<1>2. UNCHANGED <<cards, content, cache, raced>>
  BY DEF Step, Look, ReadCards, Search
<1> DEFINE Goods(q) == /\ q \in Request /\ q.kind = r.kind /\ q.user = r.user
                       /\ r.kind = "home" => q.cards = r.cards /\ q.step # "cards"
                       /\ r.kind = "home" \/ q.step = "search" => q.cards \in 0 .. MaxChanges
           GoodTask(t) == /\ t \in Storing
                          /\ \A k \in t.keys \cap HomeKeys :
                                /\ r.kind = "home" /\ k = HomeKey(r.user)
                                /\ t.value.cards = r.cards /\ t.value.content = content
                                /\ t.value.seen = Sees(r.user)
<1>3. CASE Look(r)
  <2> DEFINE q == [r EXCEPT !.step = IF r.kind = "home" THEN "search" ELSE "cards"]
  <2>1. Goods(q)
    BY <1>0 DEF Request
  <2> HIDE DEF q
  <2>2. requests' \subseteq requests \union {q} /\ tasks' = tasks
    BY <1>3 DEF Look, Answered, Goes, q
  <2> QED
    BY <1>0, <1>2, <2>1, <2>2 DEF CacheInv
<1>4. CASE ReadCards(r)
  <2>0. r.kind # "home" /\ r.step = "cards"
    BY <1>0, <1>4 DEF ReadCards
  <2>1. ASSUME NEW c \in 0 .. MaxChanges PROVE Goods([r EXCEPT !.step = "search", !.cards = c])
    BY <1>0, <2>0 DEF Request
  <2>2. CASE r.kind = "public" /\ cache[<<"public-cards">>] # None /\ tasks' = tasks
             /\ requests' = (requests \ {r}) \union
                  {[r EXCEPT !.step = "search", !.cards = cache[<<"public-cards">>].value.cards]}
    <3> DEFINE c == cache[<<"public-cards">>].value.cards
               q == [r EXCEPT !.step = "search", !.cards = c]
    <3>1. cache[<<"public-cards">>] \in Stored
      BY <2>2, HomeKeysApart DEF CacheInv
    <3>2. c \in 0 .. MaxChanges
      BY <3>1 DEF Stored, Value
    <3>3. Goods(q)
      BY <2>1, <3>2
    <3>4. requests' = (requests \ {r}) \union {q}
      BY <2>2
    <3> HIDE DEF q, c
    <3> QED
      BY <1>0, <1>2, <2>2, <3>3, <3>4 DEF CacheInv
  <2>3. CASE /\ requests' = (requests \ {r}) \union {[r EXCEPT !.step = "search", !.cards = cards]}
             /\ tasks' = IF r.kind = "public"
                         THEN tasks \union {Store(<<"public-cards">>,
                                                  [cards |-> cards, content |-> None, seen |-> Products])}
                         ELSE tasks
    <3> DEFINE q == [r EXCEPT !.step = "search", !.cards = cards]
               t == Store(<<"public-cards">>, [cards |-> cards, content |-> None, seen |-> Products])
    <3>1. Goods(q)
      BY <1>1, <2>1
    <3>2. requests' = (requests \ {r}) \union {q} /\ tasks \subseteq tasks' /\ tasks' \subseteq tasks \union {t}
      BY <2>3
    <3>3. GoodTask(t)
      <4>1. t \in Storing
        BY <1>1, HomeKeysApart DEF Store, Storing, Value
      <4>2. t.keys \cap HomeKeys = {}
        BY HomeKeysApart DEF Store
      <4> QED
        BY <4>1, <4>2
    <3> HIDE DEF q, t
    <3> QED
      BY <1>0, <1>2, <3>1, <3>2, <3>3 DEF CacheInv
  <2> QED
    BY <1>4, <2>2, <2>3 DEF ReadCards, Goes
<1>5. CASE Search(r)
  <2> DEFINE value == [cards |-> r.cards, content |-> IF r.kind = "media" THEN None ELSE content,
                       seen |-> IF r.kind = "home" THEN Sees(r.user) ELSE Products]
             t == Store(KeyOf(r), value)
  <2>1. requests' = requests \ {r} /\ tasks' = tasks \union {t}
    BY <1>5 DEF Search, Answered
  <2>2. value \in Value
    <3>1. r.cards \in 0 .. MaxChanges
      BY <1>0, <1>5 DEF Search
    <3>2. r.kind = "home" => Sees(r.user) \subseteq Products
      BY <1>0 DEF Sees, DashboardCacheAssumption
    <3> QED
      BY <1>1, <3>1, <3>2 DEF Value
  <2>3. KeyOf(r) \in Keys /\ (KeyOf(r) \in HomeKeys => r.kind = "home" /\ KeyOf(r) = HomeKey(r.user))
    BY <1>0, KeyOfRequest
  <2>4. /\ r.kind = "home" => value.content = content /\ value.seen = Sees(r.user)
        /\ value.cards = r.cards
    OBVIOUS
  <2>5. GoodTask(t)
    <3> HIDE DEF value
    <3>1. t.op = "set" /\ t.keys = {KeyOf(r)} /\ t.value = value /\ t \in Storing
      BY <2>2, <2>3 DEF Store, Storing
    <3> HIDE DEF t
    <3> QED
      BY <2>3, <2>4, <3>1
  <2> HIDE DEF t
  <2> QED
    BY <1>0, <1>2, <2>1, <2>5 DEF CacheInv
<1> QED
  BY <1>3, <1>4, <1>5 DEF Step

LEMMA CacheInvStep ==
    ASSUME DashboardCacheAssumption, MaxChanges \in Nat, CacheInv, [Next]_vars
    PROVE  CacheInv'
<1>1. Timeout \in Nat \ {0}
  BY DEF DashboardCacheAssumption
<1>2. CASE UNCHANGED vars
  BY <1>2 DEF vars, CacheInv
<1>3. ASSUME NEW kind \in Kinds, NEW u \in Users \union {Nobody}, Begin(kind, u) PROVE CacheInv'
  BY <1>3, BeginType
<1> QED
  BY <1>1, <1>2, <1>3, RunType, TickType, ChangeType, StepType DEF Next

LEMMA CacheInvInit == ASSUME MaxChanges \in Nat, Init PROVE CacheInv
  BY DEF Init, CacheInv

\* Every reachable state is well typed: a search always has the cards it needs, and no
\* entry outlives the timeout of the caches.
THEOREM TypeCorrect ==
    ASSUME DashboardCacheAssumption, MaxChanges \in Nat
    PROVE  Spec => []TypeOK
<1>1. CacheInv => TypeOK
  <2> SUFFICES ASSUME CacheInv PROVE TypeOK
    OBVIOUS
  <2>1. ASSUME NEW k \in Keys, cache[k] # None PROVE cache[k].value \in Values /\ cache[k].left \in 1 .. Timeout
    <3>1. cache[k] \in Stored
      BY <2>1 DEF CacheInv
    <3> QED
      BY <3>1 DEF Stored, Value, Values
  <2>2. ASSUME NEW t \in tasks PROVE t.keys \subseteq Keys /\ (t.op = "set" => t.value \in Values)
    <3>1. t \in Storing \/ t = Deletion
      BY DEF CacheInv
    <3>2. DashboardKeys \subseteq Keys
      BY DEF DashboardKeys, Keys
    <3> QED
      BY <3>1, <3>2 DEF Storing, Deletion, Value, Values
  <2>3. ASSUME NEW r \in requests PROVE r.kind \in Kinds /\ r.cards \in 0 .. MaxChanges \union {None}
    BY DEF CacheInv, Request
  <2> QED
    BY <2>1, <2>2, <2>3 DEF TypeOK
<1> QED
  BY <1>1, CacheInvInit, CacheInvStep, PTL DEF Spec

(***************************************************************************)
(* Whose view is stored for a company.                                     *)
(***************************************************************************)
OwnView(k, value) == \E u \in Users : Company[u] = k[2] /\ value.seen = Sees(u)

OwnInv ==
    /\ \A t \in tasks : t.op = "set" => \A k \in t.keys \cap HomeKeys : OwnView(k, t.value)
    /\ \A k \in HomeKeys : cache[k] # None => OwnView(k, cache[k].value)

\* What running a thread leaves under a key.
LEMMA RunEffect ==
    ASSUME CacheInv, NEW t \in tasks, Run(t), NEW k \in Keys, cache'[k] # None
    PROVE  \/ cache[k] # None /\ cache'[k].value = cache[k].value /\ k \notin t.keys
           \/ t.op = "set" /\ k \in t.keys /\ cache'[k].value = t.value
<1>1. cache'[k] = IF k \notin t.keys THEN cache[k] ELSE IF t.op = "set" THEN Entry(t.value) ELSE None
  BY DEF Run
<1>2. Entry(t.value).value = t.value
  BY DEF Entry
<1> QED
  BY <1>1, <1>2

LEMMA OwnInvStep ==
    ASSUME DashboardCacheAssumption, MaxChanges \in Nat, CacheInv, OwnInv, [Next]_vars
    PROVE  OwnInv'
<1>0. Timeout \in Nat \ {0} /\ HomeKeys \subseteq Keys
  BY HomeKeysApart DEF DashboardCacheAssumption
<1>1. ASSUME NEW t \in tasks, Run(t) PROVE OwnInv'
  <2>1. tasks' \subseteq tasks
    BY <1>1 DEF Run
  <2>2. ASSUME NEW k \in HomeKeys, cache'[k] # None PROVE OwnView(k, cache'[k].value)
    BY <1>0, <1>1, <2>2, RunEffect DEF OwnInv, OwnView
  <2> QED
    BY <2>1, <2>2 DEF OwnInv, OwnView
<1>2. CASE Tick
  <2>1. \A k \in Keys : cache'[k] # None => cache[k] # None /\ cache'[k].value = cache[k].value
    BY <1>0, <1>2, TickType
  <2>2. tasks' = tasks
    BY <1>2 DEF Tick
  <2> QED
    BY <1>0, <2>1, <2>2 DEF OwnInv, OwnView
<1>3. CASE EditCard \/ Push
  <2>1. tasks' \subseteq tasks \union {Deletion} /\ cache' = cache
    BY <1>3 DEF EditCard, Push
  <2>2. Deletion.op # "set"
    BY DEF Deletion
  <2> QED
    BY <2>1, <2>2 DEF OwnInv, OwnView
<1>4. ASSUME NEW kind \in Kinds, NEW u \in Users \union {Nobody}, Begin(kind, u) PROVE OwnInv'
  BY <1>4 DEF Begin, OwnInv, OwnView
<1>5. ASSUME NEW r \in requests, Step(r) PROVE OwnInv'
  <2>1. /\ cache' = cache
        /\ \A t \in tasks' : t \in tasks \/ \A k \in t.keys \cap HomeKeys :
              r.kind = "home" /\ k = HomeKey(r.user) /\ t.value.seen = Sees(r.user)
    BY <1>5, StepType
  <2>2. r.kind = "home" => r.user \in Users
    BY DEF CacheInv
  <2>3. ASSUME NEW t \in tasks', t.op = "set", NEW k \in t.keys \cap HomeKeys PROVE OwnView(k, t.value)
    BY <2>1, <2>2, <2>3, HomeKeysApart DEF OwnInv, OwnView
  <2> QED
    BY <2>1, <2>3 DEF OwnInv, OwnView
<1>6. CASE UNCHANGED vars
  BY <1>6 DEF vars, OwnInv, OwnView
<1> QED
  BY <1>1, <1>2, <1>3, <1>4, <1>5, <1>6 DEF Next

(***************************************************************************)
(* However requests and background threads overlap, the items kept for a   *)
(* company are marked as one of its own users sees them: get_items_by_card *)
(* stores under the company of the user it has searched for.               *)
(***************************************************************************)
THEOREM OwnViewKept ==
    ASSUME DashboardCacheAssumption, MaxChanges \in Nat
    PROVE  Spec => []OwnUsersView
<1>1. Init => OwnInv
  BY HomeKeysApart DEF Init, OwnInv
<1>2. OwnInv => OwnUsersView
  BY DEF OwnInv, OwnView, OwnUsersView
<1> QED
  BY <1>1, <1>2, CacheInvInit, CacheInvStep, OwnInvStep, PTL DEF Spec

(***************************************************************************)
(* Until a change meets a search or a store, what requests have read and   *)
(* threads will store is what is there, and old entries are about to be    *)
(* deleted.                                                                *)
(***************************************************************************)
FreshInv ==
    /\ \A r \in requests : r.kind = "home" => r.cards = cards
    /\ \A t \in tasks : t.op = "set" => \A k \in t.keys \cap HomeKeys : ~Old(t.value)
    /\ Deletion \in tasks \/ \A k \in HomeKeys : cache[k] # None => ~Old(cache[k].value)

LEMMA FreshInvStep ==
    ASSUME DashboardCacheAssumption, DeleteOnPush = TRUE, MaxChanges \in Nat,
           CacheInv, FreshInv, ~raced, [Next]_vars, ~raced'
    PROVE  FreshInv'
<1>0. Timeout \in Nat \ {0} /\ HomeKeys \subseteq Keys
  BY HomeKeysApart DEF DashboardCacheAssumption
<1>1. ASSUME NEW t \in tasks, Run(t) PROVE FreshInv'
  <2>1. UNCHANGED <<cards, content, requests>> /\ tasks' = tasks \ {t}
    BY <1>1 DEF Run
  <2>2. \A v : Old(v)' <=> Old(v)
    BY <2>1 DEF Old
  <2>3. CASE t = Deletion
    <3>1. ASSUME NEW k \in HomeKeys, cache'[k] # None PROVE FALSE
      <4>1. t.op # "set" /\ k \in t.keys
        BY <2>3 DEF Deletion, DashboardKeys
      <4> QED
        BY <1>0, <1>1, <3>1, <4>1, RunEffect
    <3> QED
      BY <2>1, <2>2, <3>1 DEF FreshInv
  <2>4. CASE t # Deletion
    <3>1. ASSUME Deletion \notin tasks, NEW k \in HomeKeys, cache'[k] # None PROVE ~Old(cache'[k].value)
      BY <1>0, <1>1, <3>1, RunEffect DEF FreshInv
    <3> QED
      BY <2>1, <2>2, <2>4, <3>1 DEF FreshInv
  <2> QED
    BY <2>3, <2>4
<1>2. CASE Tick
  <2>1. \A k \in Keys : cache'[k] # None => cache[k] # None /\ cache'[k].value = cache[k].value
    BY <1>0, <1>2, TickType
  <2>2. UNCHANGED <<cards, content, requests, tasks>>
    BY <1>2 DEF Tick
  <2>3. \A v : Old(v)' <=> Old(v)
    BY <2>2 DEF Old
  <2> QED
    BY <1>0, <2>1, <2>2, <2>3 DEF FreshInv
<1>3. CASE EditCard \/ Push
  <2>1. ~Busy
    BY <1>3 DEF EditCard, Push
  <2>2. requests' = {} /\ tasks' = tasks \union {Deletion} /\ \A t \in tasks : t.op # "set"
    BY <1>3, <2>1 DEF EditCard, Push, Busy
  <2>3. Deletion.op # "set"
    BY DEF Deletion
  <2> QED
    BY <2>2, <2>3 DEF FreshInv
<1>4. ASSUME NEW kind \in Kinds, NEW u \in Users \union {Nobody}, Begin(kind, u) PROVE FreshInv'
  <2>1. UNCHANGED <<cards, content, cache, tasks>>
    BY <1>4 DEF Begin
  <2>2. \A v : Old(v)' <=> Old(v)
    BY <2>1 DEF Old
  <2>3. \A r \in requests' : r \in requests \/ (r.kind = "home" => r.cards = cards)
    BY <1>4 DEF Begin
  <2> QED
    BY <2>1, <2>2, <2>3 DEF FreshInv
<1>5. ASSUME NEW r \in requests, Step(r) PROVE FreshInv'
  <2>1. /\ UNCHANGED <<cards, content, cache>> /\ tasks \subseteq tasks'
        /\ \A q \in requests' : q \in requests \/ (q.kind = r.kind /\ (r.kind = "home" => q.cards = r.cards))
        /\ \A t \in tasks' : t \in tasks \/ \A k \in t.keys \cap HomeKeys :
              r.kind = "home" /\ t.value.cards = r.cards /\ t.value.content = content
    BY <1>5, StepType
  <2>2. \A v : Old(v)' <=> Old(v)
    BY <2>1 DEF Old
  <2>3. r.kind = "home" => r.cards = cards
    BY DEF FreshInv
  <2>4. ASSUME NEW t \in tasks', t.op = "set", NEW k \in t.keys \cap HomeKeys PROVE ~Old(t.value)
    BY <2>1, <2>3, <2>4 DEF FreshInv, Old
  <2>5. ASSUME NEW q \in requests', q.kind = "home" PROVE q.cards = cards
    BY <2>1, <2>3, <2>5 DEF FreshInv
  <2> QED
    BY <2>1, <2>2, <2>4, <2>5 DEF FreshInv
<1>6. CASE UNCHANGED vars
  <2>1. UNCHANGED <<cards, content, cache, tasks, requests>>
    BY <1>6 DEF vars
  <2>2. \A v : Old(v)' <=> Old(v)
    BY <2>1 DEF Old
  <2> QED
    BY <2>1, <2>2 DEF FreshInv
<1> QED
  BY <1>1, <1>2, <1>3, <1>4, <1>5, <1>6 DEF Next

\* A change that has met a search stays so.
LEMMA RacedStays == ASSUME [Next]_vars, raced PROVE raced'
  BY DEF Next, Run, Tick, EditCard, Push, Begin, Step, Look, ReadCards, Search, vars

(***************************************************************************)
(* With DELETE_DASHBOARD_CACHE_ON_PUSH the home page shows what is there   *)
(* once the background threads have ended, however many requests were      *)
(* under way, unless a change was made during a search or before its       *)
(* result was stored.                                                      *)
(***************************************************************************)
THEOREM HomeStaysFresh ==
    ASSUME DashboardCacheAssumption, DeleteOnPush = TRUE, MaxChanges \in Nat
    PROVE  Spec => []HomeFreshUnlessRaced
<1> DEFINE Inv == raced \/ FreshInv
<1>1. Init => Inv
  BY HomeKeysApart DEF Init, FreshInv
<1>2. CacheInv /\ Inv /\ [Next]_vars => Inv'
  BY FreshInvStep, RacedStays
<1>3. Inv => HomeFreshUnlessRaced
  BY DEF FreshInv, HomeFreshUnlessRaced
<1> HIDE DEF Inv
<1> QED
  BY <1>1, <1>2, <1>3, CacheInvInit, CacheInvStep, PTL DEF Spec

(***************************************************************************)
(* What the home page may be relied on for, together.                      *)
(***************************************************************************)
THEOREM DashboardHolds ==
    ASSUME DashboardCacheAssumption, MaxChanges \in Nat
    PROVE  Spec => []DashboardInv
<1>1. CASE DeleteOnPush = TRUE
  <2>1. TypeOK /\ OwnUsersView /\ HomeFreshUnlessRaced => DashboardInv
    BY DEF DashboardInv
  <2>2. Spec => []HomeFreshUnlessRaced
    BY <1>1, HomeStaysFresh
  <2> QED
    BY <2>1, <2>2, TypeCorrect, OwnViewKept, PTL
<1>2. CASE DeleteOnPush = FALSE
  <2>1. TypeOK /\ OwnUsersView => DashboardInv
    BY <1>2 DEF DashboardInv
  <2> QED
    BY <2>1, TypeCorrect, OwnViewKept, PTL
<1> QED
  BY <1>1, <1>2 DEF DashboardCacheAssumption

--------------------------------------------------------------------------------
(* The home page in the browser (HomePage). *)

StoreFields == {"topics", "dash", "activeCard", "itemToOpen", "cards", "drawn", "modal", "same"}
ServerFields == {"exists", "visible", "dash", "marks", "cache"}
IsSeq(q) == \E M : q \in Seq(M)
Loads == {"cards", "gallery"}

\* What is stored has its fields, and what is on its way comes in a row.
HomeShape ==
    /\ DOMAIN store = StoreFields /\ store.same \in BOOLEAN
    /\ DOMAIN server = ServerFields
    /\ IsSeq(flight)

\* Drawing the page adds requests for the panels to q, and marks those that nobody waits for.
Extends(q, r) ==
    /\ IsSeq(r) /\ Len(r) >= Len(q)
    /\ \A n \in 1 .. Len(q) : r[n].kind = q[n].kind /\ (q[n].kind \notin Loads => r[n] = q[n])
    /\ \A n \in 1 .. Len(r) : n > Len(q) => r[n].kind \in Loads

SameServer == /\ DOMAIN server' = DOMAIN server /\ server'.exists = server.exists
              /\ server'.visible = server.visible
              /\ server'.dash = server.dash /\ server'.marks = server.marks

LEMMA SeqGrows ==
    ASSUME NEW q, IsSeq(q), NEW m
    PROVE  LET r == Append(q, m) IN
           /\ IsSeq(r) /\ Len(q) \in Nat /\ Len(r) = Len(q) + 1 /\ r[Len(q) + 1] = m
           /\ \A n \in 1 .. Len(q) : r[n] = q[n]
  <1>1. PICK M : q \in Seq(M)
    BY DEF IsSeq
  <1>2. q \in Seq(M \cup {m})
    BY <1>1
  <1>3. Append(q, m) \in Seq(M \cup {m})
    BY <1>2
  <1> QED
    BY <1>2, <1>3 DEF IsSeq

LEMMA SeqJoined ==
    ASSUME NEW q, IsSeq(q), NEW p, IsSeq(p)
    PROVE  LET r == q \o p IN
           /\ IsSeq(r) /\ Len(q) \in Nat /\ Len(p) \in Nat /\ Len(r) = Len(q) + Len(p)
           /\ \A n \in 1 .. Len(q) : r[n] = q[n]
           /\ \A n \in 1 .. Len(p) : r[Len(q) + n] = p[n]
  <1>1. PICK M, N : q \in Seq(M) /\ p \in Seq(N)
    BY DEF IsSeq
  <1>2. q \in Seq(M \cup N) /\ p \in Seq(M \cup N)
    BY <1>1
  <1>3. q \o p \in Seq(M \cup N)
    BY <1>2
  <1> QED
    BY <1>2, <1>3 DEF IsSeq

LEMMA SeqCut ==
    ASSUME NEW q, IsSeq(q), NEW n \in 1 .. Len(q)
    PROVE  LET r == Home!RemoveAt(q, n) IN
           /\ IsSeq(r) /\ Len(q) \in Nat /\ Len(r) = Len(q) - 1
           /\ \A m \in 1 .. Len(r) : r[m] = IF m < n THEN q[m] ELSE q[m + 1]
  <1>1. PICK M : q \in Seq(M)
    BY DEF IsSeq
  <1> DEFINE a == SubSeq(q, 1, n - 1)
             b == SubSeq(q, n + 1, Len(q))
  <1>2. /\ a \in Seq(M) /\ Len(a) = n - 1
        /\ \A m \in 1 .. n - 1 : a[m] = q[m]
    BY <1>1
  <1>3. /\ b \in Seq(M) /\ Len(b) = Len(q) - n
        /\ \A m \in 1 .. Len(q) - n : b[m] = q[n + m]
    BY <1>1
  <1> HIDE DEF a, b
  <1>4. Home!RemoveAt(q, n) = a \o b
    BY DEF Home!RemoveAt, a, b
  <1> Len(q) \in Nat
    BY <1>1
  <1>5. IsSeq(a \o b) /\ Len(a \o b) = Len(a) + Len(b)
    BY <1>2, <1>3, SeqJoined DEF IsSeq
  <1>6. ASSUME NEW m \in 1 .. Len(q) - 1 PROVE (a \o b)[m] = IF m < n THEN q[m] ELSE q[m + 1]
    <2>1. CASE m < n
      <3>1. m \in 1 .. Len(a) /\ (a \o b)[m] = a[m]
        BY <1>2, <1>3, <2>1
      <3> QED
        BY <1>2, <2>1, <3>1
    <2>2. CASE ~(m < n)
      <3> DEFINE k == m - Len(a)
      <3>1. k \in 1 .. Len(b) /\ m = Len(a) + k /\ n + k = m + 1
        BY <1>2, <1>3, <2>2
      <3>2. (a \o b)[Len(a) + k] = b[k]
        BY <1>2, <1>3, <3>1, SeqJoined DEF IsSeq
      <3> QED
        BY <1>3, <2>2, <3>1, <3>2
    <2> QED
      BY <2>1, <2>2
  <1> QED
    BY <1>1, <1>2, <1>3, <1>4, <1>5, <1>6 DEF IsSeq

LEMMA SeqLength == ASSUME NEW q, IsSeq(q) PROVE Len(q) \in Nat
  BY DEF IsSeq

LEMMA RowIsSeq ==
    ASSUME NEW n \in Nat, NEW S, NEW r \in [1 .. n -> S]
    PROVE  IsSeq(r) /\ Len(r) = n
  <1>1. r \in Seq(S) /\ Len(r) = n
    OBVIOUS
  <1> QED
    BY <1>1 DEF IsSeq

LEMMA FetchesLoad ==
    ASSUME Galleries \in Nat, NEW sv
    PROVE  IsSeq(Home!Fetches(sv)) /\ \A n \in 1 .. Len(Home!Fetches(sv)) : Home!Fetches(sv)[n].kind \in Loads
  <1> DEFINE m == Home!fetchItems(sv)
             p == [g \in 1 .. Galleries |-> [kind |-> "gallery", live |-> TRUE]]
  <1>1. m.kind = "cards"
    BY DEF Home!fetchItems
  <1>2. \A g \in 1 .. Galleries : p[g].kind = "gallery"
    OBVIOUS
  <1>3. p \in Seq({[kind |-> "gallery", live |-> TRUE]}) /\ Len(p) = Galleries
    OBVIOUS
  <1> HIDE DEF m, p
  <1>4. <<m>> \in Seq({m}) /\ Len(<<m>>) = 1 /\ <<m>>[1] = m
    OBVIOUS
  <1>5. Home!Fetches(sv) = <<m>> \o p
    BY DEF Home!Fetches, m, p
  <1>6. IsSeq(<<m>>) /\ IsSeq(p)
    BY <1>3, <1>4 DEF IsSeq
  <1>7. /\ IsSeq(<<m>> \o p) /\ Len(<<m>> \o p) = 1 + Len(p)
        /\ (<<m>> \o p)[1] = m
        /\ \A n \in 1 .. Len(p) : (<<m>> \o p)[1 + n] = p[n]
    BY <1>4, <1>6, SeqJoined
  <1>8. ASSUME NEW n \in 1 .. Len(<<m>> \o p) PROVE (<<m>> \o p)[n].kind \in Loads
    <2>1. n = 1 \/ (n - 1 \in 1 .. Galleries /\ n = 1 + (n - 1))
      BY <1>3, <1>7
    <2> QED
      BY <1>1, <1>2, <1>3, <1>7, <2>1 DEF Loads
  <1> QED
    BY <1>5, <1>7, <1>8

LEMMA ExtendsItself == ASSUME NEW q, IsSeq(q) PROVE Extends(q, q)
  <1>1. Len(q) \in Nat
    BY DEF IsSeq
  <1> QED
    BY <1>1 DEF Extends

LEMMA Drawn ==
    ASSUME Galleries \in Nat, DOMAIN server = ServerFields, NEW s, NEW o, NEW q, IsSeq(q), Home!Draw(s, o, q)
    PROVE  store' = s /\ SameServer /\ Extends(q, flight')
  <1>1. store' = s
    BY DEF Home!Draw
  <1>2. SameServer
    <2>1. server' = server \/ \E c : server' = [server EXCEPT !.cache = c]
      BY DEF Home!Draw
    <2> QED
      BY <2>1 DEF SameServer, ServerFields
  <1>3. flight' = q \o Home!Fetches(server) \/ flight' = Home!Unmount(q) \/ flight' = q
    BY DEF Home!Draw
  <1>4. Len(q) \in Nat
    BY SeqLength
  <1>5. CASE flight' = q
    BY <1>1, <1>2, <1>5, ExtendsItself
  <1>6. CASE flight' = Home!Unmount(q)
    <2>1. PICK M : q \in Seq(M)
      BY DEF IsSeq
    <2> DEFINE r == [n \in 1 .. Len(q) |-> IF q[n].kind \in {"cards", "gallery"}
                                            THEN [q[n] EXCEPT !.live = FALSE] ELSE q[n]]
    <2>2. IsSeq(r) /\ Len(r) = Len(q)
      <3>1. r \in [1 .. Len(q) -> {r[n] : n \in 1 .. Len(q)}]
        OBVIOUS
      <3> HIDE DEF r
      <3> QED
        BY <1>4, <3>1, RowIsSeq
    <2>3. ASSUME NEW n \in 1 .. Len(q)
          PROVE  r[n].kind = q[n].kind /\ (q[n].kind \notin Loads => r[n] = q[n])
      <3>1. CASE q[n].kind \in {"cards", "gallery"}
        <4>1. r[n] = [q[n] EXCEPT !.live = FALSE]
          BY <3>1
        <4>2. "kind" # "live"
          OBVIOUS
        <4>3. r[n].kind = q[n].kind
          BY <3>1, <4>1, <4>2
        <4> QED
          BY <3>1, <4>3 DEF Loads
      <3> QED
        BY <3>1 DEF Loads
    <2>4. flight' = r
      BY <1>6 DEF Home!Unmount
    <2> HIDE DEF r
    <2> QED
      BY <1>1, <1>2, <1>4, <2>2, <2>3, <2>4 DEF Extends
  <1>7. CASE flight' = q \o Home!Fetches(server)
    <2> DEFINE p == Home!Fetches(server)
    <2>1. IsSeq(p) /\ \A n \in 1 .. Len(p) : p[n].kind \in Loads
      BY FetchesLoad
    <2> HIDE DEF p
    <2>2. /\ IsSeq(q \o p) /\ Len(p) \in Nat /\ Len(q \o p) = Len(q) + Len(p)
          /\ \A n \in 1 .. Len(q) : (q \o p)[n] = q[n]
          /\ \A n \in 1 .. Len(p) : (q \o p)[Len(q) + n] = p[n]
      BY <2>1, SeqJoined
    <2>3. ASSUME NEW n \in 1 .. Len(q \o p), n > Len(q) PROVE (q \o p)[n].kind \in Loads
      <3>1. n - Len(q) \in 1 .. Len(p) /\ n = Len(q) + (n - Len(q))
        BY <1>4, <2>2, <2>3
      <3> QED
        BY <2>1, <2>2, <3>1
    <2>4. flight' = q \o p
      BY <1>7 DEF p
    <2> QED
      BY <1>1, <1>2, <1>4, <2>2, <2>3, <2>4 DEF Extends
  <1> QED
    BY <1>1, <1>2, <1>3, <1>5, <1>6, <1>7

\* A page that is loaded anew.
LEMMA Loaded ==
    ASSUME Galleries \in Nat, NEW sv, DOMAIN sv = ServerFields, Home!Load(sv)
    PROVE  /\ store' = Home!initData(sv) /\ asked' = None /\ base' = server.dash
           /\ DOMAIN server' = ServerFields /\ server'.visible = sv.visible
           /\ server'.dash = sv.dash /\ server'.marks = sv.marks
           /\ IsSeq(flight') /\ \A n \in 1 .. Len(flight') : flight'[n].kind \in Loads
  <1>1. flight' = Home!Fetches(sv) \/ flight' = <<>>
    BY DEF Home!Load
  <1>2. IsSeq(<<>>) /\ Len(<<>>) = 0
    BY DEF IsSeq
  <1>3. IsSeq(flight') /\ \A n \in 1 .. Len(flight') : flight'[n].kind \in Loads
    BY <1>1, <1>2, FetchesLoad
  <1>4. server' = sv \/ \E c : server' = [sv EXCEPT !.cache = c]
    BY DEF Home!Load
  <1> QED
    BY <1>3, <1>4 DEF Home!Load, ServerFields

\* What most steps leave alone.
Kept(s, r) == DOMAIN r = StoreFields /\ r.same = s.same /\ r.topics = s.topics

LEMMA ReducersKeep ==
    ASSUME NEW s, DOMAIN s = StoreFields
    PROVE  /\ \A x : /\ Kept(s, Home!openItem(s, x)) /\ Kept(s, Home!setActive(s, x))
                     /\ Kept(s, Home!setCardItems(s, x))
                     /\ Kept(s, Home!componentDidUpdate(s, x))
           /\ Kept(s, Home!renderModal(s)) /\ Kept(s, Home!closeModal(s))
           /\ Kept(s, Home!bookmarkItems(s)) /\ Kept(s, Home!removeBookmark(s))
  <1>1. \A x : Kept(s, Home!openItem(s, x)) /\ Kept(s, Home!setActive(s, x)) /\ Kept(s, Home!setCardItems(s, x))
    BY DEF Kept, StoreFields, Home!openItem, Home!setActive, Home!setCardItems
  <1>2. Kept(s, Home!renderModal(s)) /\ Kept(s, Home!closeModal(s))
    BY DEF Kept, StoreFields, Home!renderModal, Home!closeModal
  <1>3. Kept(s, Home!bookmarkItems(s)) /\ Kept(s, Home!removeBookmark(s))
    BY DEF Kept, StoreFields, Home!bookmarkItems, Home!removeBookmark
  <1>4. Kept(s, s)
    BY DEF Kept
  <1>5. Kept(s, Home!modalFormValid(s))
    BY <1>4 DEF Kept, StoreFields, Home!modalFormValid
  <1>6. \A x : Kept(s, Home!componentDidUpdate(s, x))
    BY <1>4, <1>5 DEF Home!componentDidUpdate
  <1> QED
    BY <1>1, <1>2, <1>3, <1>6

LEMMA KeptTwice == ASSUME NEW s, NEW r, NEW t, Kept(s, r), Kept(r, t) PROVE Kept(s, t)
  BY DEF Kept

\* What is clicked sends nothing but requests for the panels.
Calm == Kept(store, store') /\ SameServer /\ Extends(flight, flight') /\ UNCHANGED <<saved, base>>

LEMMA CalmDraws ==
    ASSUME Home!HomeAssumption, HomeShape, NEW s, Kept(store, s),
           NEW o, Home!Draw(s, o, flight), UNCHANGED <<saved, base>>
    PROVE  Calm
  BY Drawn DEF Calm, HomeShape, Home!HomeAssumption

LEMMA Clicks ==
    ASSUME Home!HomeAssumption, HomeShape,
           \/ \E o \in {"default", "my-home"} : Home!switchOptions(o)
           \/ \E i \in Items, p \in Topics \cup {"card"} : Home!openItemDetails(i, p)
           \/ Home!onClose \/ Home!personalizeHome \/ Home!cancelDialog
           \/ \E t \in Topics : Home!choose(t)
           \/ Home!lookAround
    PROVE  Calm
  <1> DOMAIN store = StoreFields /\ IsSeq(flight)
    BY DEF HomeShape
  <1>0. Kept(store, store)
    BY DEF Kept
  <1>1. ASSUME NEW o \in {"default", "my-home"}, Home!switchOptions(o) PROVE Calm
    BY <1>0, <1>1, CalmDraws DEF Home!switchOptions
  <1>2. ASSUME NEW i \in Items, NEW p \in Topics \cup {"card"}, Home!openItemDetails(i, p) PROVE Calm
    <2>1. PICK s : /\ s = store \/ \E x : s = Home!openItem(store, x)
                   /\ Home!Redraw(Home!setActive(s, p), flight)
                   /\ UNCHANGED <<saved, base>>
      BY <1>2 DEF Home!openItemDetails
    <2>2. Kept(store, s)
      BY <1>0, <2>1, ReducersKeep
    <2>3. Kept(s, Home!setActive(s, p))
      BY <2>2, ReducersKeep DEF Kept
    <2>4. Kept(store, Home!setActive(s, p))
      BY <2>2, <2>3, KeptTwice
    <2>5. Home!Draw(Home!setActive(s, p), home.option, flight)
      BY <2>1 DEF Home!Redraw
    <2> QED
      BY <2>1, <2>4, <2>5, CalmDraws
  <1>3. ASSUME Home!onClose PROVE Calm
    BY <1>3, ReducersKeep, CalmDraws DEF Home!onClose, Home!Redraw
  <1>4. ASSUME Home!personalizeHome PROVE Calm
    BY <1>4, ReducersKeep, CalmDraws DEF Home!personalizeHome, Home!Redraw
  <1>5. ASSUME Home!cancelDialog PROVE Calm
    BY <1>5, ReducersKeep, CalmDraws DEF Home!cancelDialog, Home!Redraw
  <1>6. ASSUME \/ \E t \in Topics : Home!choose(t)
               \/ Home!lookAround
        PROVE  Calm
    <2>1. /\ \E f : store' = Home!componentDidUpdate(store, f)
          /\ UNCHANGED <<server, flight, saved, base>>
      BY <1>6 DEF Home!choose, Home!lookAround
    <2>2. Kept(store, store')
      BY <2>1, ReducersKeep
    <2>3. SameServer
      BY <2>1 DEF SameServer
    <2>4. Extends(flight, flight')
      BY <2>1, ExtendsItself
    <2> QED
      BY <2>1, <2>2, <2>3, <2>4 DEF Calm
  <1> QED
    BY <1>1, <1>2, <1>3, <1>4, <1>5, <1>6

\* The requests the user makes.
Marks ==
    /\ Kept(store, store') /\ UNCHANGED <<saved, base>>
    /\ DOMAIN server' = ServerFields /\ server'.visible = server.visible /\ server'.dash = server.dash
    /\ \E m : m.kind = "mark" /\ flight' = Append(flight, m)
Saves ==
    /\ DOMAIN store' = StoreFields /\ store'.topics = store.topics
    /\ DOMAIN server' = ServerFields /\ server'.visible = server.visible
    /\ UNCHANGED <<saved, base>>
    /\ \E m : /\ m.kind = "save" /\ m.ok \in BOOLEAN /\ flight' = Append(flight, m)
              /\ store'.same = (store.same /\ ~m.ok)
              /\ m.ok => store.same /\ server'.dash = m.ids
              /\ ~m.ok => server'.dash = server.dash

LEMMA BookmarkMarks == ASSUME HomeShape, Home!bookmark PROVE Marks
  <1>1. /\ UNCHANGED <<store, saved, base>>
        /\ \E m : m.kind = "mark" /\ flight' = Append(flight, m)
        /\ server' = server \/ \E x : server' = [server EXCEPT !.marks = x]
    BY DEF Home!bookmark
  <1>2. /\ DOMAIN server' = ServerFields /\ server'.visible = server.visible
        /\ server'.dash = server.dash
    BY <1>1 DEF HomeShape, ServerFields
  <1>3. Kept(store, store')
    BY <1>1 DEF Kept, HomeShape
  <1> QED
    BY <1>1, <1>2, <1>3 DEF Marks

LEMMA AddSaves == ASSUME HomeShape, Home!addCustomDashboard PROVE Saves
  <1> DEFINE r == Home!patchEntity(server, store.same, form.selected)
             s == Home!componentDidUpdate(store, form)
  <1>1. PICK fails \in BOOLEAN :
          LET ok == r.ok /\ ~fails IN
          /\ server' = IF ok THEN r.sv ELSE server
          /\ store' = [s EXCEPT !.same = s.same /\ ~ok]
          /\ flight' = Append(flight, [kind |-> "save", ok |-> ok, ids |-> form.selected])
          /\ UNCHANGED <<saved, base>>
    BY DEF Home!addCustomDashboard
  <1> DEFINE ok == r.ok /\ ~fails
             m == [kind |-> "save", ok |-> ok, ids |-> form.selected]
  <1>2. r.ok = store.same /\ (store.same => r.sv = [server EXCEPT !.dash = form.selected])
    BY DEF Home!patchEntity
  <1>3. Kept(store, s)
    BY ReducersKeep DEF HomeShape
  <1>4. store.same \in BOOLEAN /\ DOMAIN server = ServerFields
    BY DEF HomeShape
  <1> HIDE DEF s, r
  <1>5. ok \in BOOLEAN /\ (ok => store.same)
    BY <1>2, <1>4
  <1>6. /\ DOMAIN store' = StoreFields /\ store'.topics = store.topics
        /\ store'.same = (store.same /\ ~ok)
    BY <1>1, <1>3 DEF Kept, StoreFields
  <1>7. /\ DOMAIN server' = ServerFields /\ server'.visible = server.visible
        /\ ok => server'.dash = form.selected
        /\ ~ok => server'.dash = server.dash
    BY <1>1, <1>2, <1>4 DEF ServerFields
  <1>8. m.kind = "save" /\ m.ok = ok /\ m.ids = form.selected /\ flight' = Append(flight, m)
    BY <1>1
  <1> HIDE DEF ok, m
  <1> QED
    BY <1>1, <1>5, <1>6, <1>7, <1>8 DEF Saves

\* What other pages and other users do.
Changed ==
    /\ DOMAIN store' = StoreFields /\ store'.topics = store.topics /\ store'.same \in BOOLEAN
    /\ store'.same => store.same /\ server'.dash = server.dash
    /\ DOMAIN server' = ServerFields /\ UNCHANGED <<saved, base>>
    /\ \/ \E m : m.kind = "push" /\ flight' = Append(flight, m)
       \/ flight' = flight /\ server'.visible = server.visible
    /\ {"user", "delete"} \cap Acts = {} => server'.dash = server.dash /\ store'.same = store.same

LEMMA OthersChange == ASSUME HomeShape, Home!ServerNext PROVE Changed
  <1> /\ DOMAIN store = StoreFields /\ store.same \in BOOLEAN /\ DOMAIN server = ServerFields
    BY DEF HomeShape
  <1>1. ASSUME NEW t \in Topics, Home!topicDeleted(t) PROVE Changed
    <2> DEFINE in == t \in Home!ToSet(server.dash)
    <2>1. /\ Home!May("delete") /\ UNCHANGED <<saved, base>>
          /\ flight' = Append(flight, Home!Push(t \in Shared))
          /\ store' = [store EXCEPT !.same = store.same /\ ~in]
          /\ server' = Home!deleteTopic(server, t)
      BY <1>1 DEF Home!topicDeleted
    <2>2. server'.dash = IF in THEN Home!Without(server.dash, t) ELSE server.dash
      BY <2>1 DEF Home!deleteTopic, ServerFields
    <2>3. DOMAIN server' = ServerFields
      BY <2>1 DEF Home!deleteTopic, ServerFields
    <2>4. Home!Push(t \in Shared).kind = "push"
      BY DEF Home!Push
    <2>5. in \in BOOLEAN
      OBVIOUS
    <2> HIDE DEF in
    <2>6. /\ DOMAIN store' = StoreFields /\ store'.topics = store.topics /\ store'.same \in BOOLEAN
          /\ store'.same => store.same /\ ~in
      BY <2>1, <2>5 DEF StoreFields
    <2> QED
      BY <2>1, <2>2, <2>3, <2>4, <2>6 DEF Changed, Home!May
  <1>2. ASSUME NEW t \in Topics, Home!topicShared(t) PROVE Changed
    <2>1. /\ UNCHANGED <<store, saved, base>> /\ flight' = Append(flight, Home!Push(TRUE))
          /\ \E v : server' = [server EXCEPT !.visible = v]
      BY <1>2 DEF Home!topicShared
    <2>2. DOMAIN server' = ServerFields /\ server'.dash = server.dash
      BY <2>1 DEF ServerFields
    <2>3. Home!Push(TRUE).kind = "push"
      BY DEF Home!Push
    <2> QED
      BY <2>1, <2>2, <2>3 DEF Changed
  <1>3. ASSUME Home!userChanged PROVE Changed
    <2>1. /\ Home!May("user") /\ UNCHANGED <<flight, saved, base>> /\ store' = [store EXCEPT !.same = FALSE]
          /\ \E d : server' = [server EXCEPT !.dash = d]
      BY <1>3 DEF Home!userChanged
    <2>2. DOMAIN server' = ServerFields /\ server'.visible = server.visible
      BY <2>1 DEF ServerFields
    <2>3. DOMAIN store' = StoreFields /\ store'.topics = store.topics /\ store'.same = FALSE
      BY <2>1 DEF StoreFields
    <2> QED
      BY <2>1, <2>2, <2>3 DEF Changed, Home!May
  <1>4. ASSUME Home!cacheExpires PROVE Changed
    <2>1. UNCHANGED <<store, flight, saved, base>> /\ server' = [server EXCEPT !.cache = None]
      BY <1>4 DEF Home!cacheExpires
    <2>2. /\ DOMAIN server' = ServerFields /\ server'.visible = server.visible
          /\ server'.dash = server.dash
      BY <2>1 DEF ServerFields
    <2> QED
      BY <2>1, <2>2 DEF Changed
  <1> QED
    BY <1>1, <1>2, <1>3, <1>4 DEF Home!ServerNext

\* An answer that changes no more than what is on its way.
Settled(q) == Kept(store, store') /\ SameServer /\ Extends(q, flight') /\ UNCHANGED <<saved, base>>
TopicsTaken(r, q) ==
    /\ Kept([store EXCEPT !.topics = r.topics], store') /\ SameServer
    /\ flight' = q /\ UNCHANGED <<saved, base>>
PushTaken(q) ==
    /\ Kept(store, store') /\ SameServer /\ UNCHANGED <<saved, base>>
    /\ flight' = Append(q, [kind |-> "topics", topics |-> server.visible])

LEMMA AnswersDo ==
    ASSUME Home!HomeAssumption, HomeShape, NEW n \in 1 .. Len(flight), Home!Answer(n)
    PROVE  LET r == flight[n]
               q == Home!RemoveAt(flight, n) IN
           /\ n = 1 \/ AnyOrder
           /\ \/ Settled(q) /\ (r.kind = "topics" => MayFail) /\ r.kind # "push"
              \/ r.kind = "topics" /\ TopicsTaken(r, q)
              \/ r.kind = "push" /\ PushTaken(q)
              \/ r.kind = "save" /\ r.ok /\ Home!Load(server) /\ saved' = r.ids
  <1> DEFINE r == flight[n]
             q == Home!RemoveAt(flight, n)
  <1> /\ DOMAIN store = StoreFields /\ DOMAIN server = ServerFields
    BY DEF HomeShape
  <1>1. IsSeq(q)
    BY SeqCut DEF HomeShape
  <1>2. Kept(store, store) /\ Extends(q, q)
    BY <1>1, ExtendsItself DEF Kept
  <1>3. /\ n = 1 \/ AnyOrder
        /\ \/ /\ r.kind \in {"cards", "gallery"}
              /\ \E ok : Home!cardsAnswered(r, q, ok)
           \/ /\ r.kind = "topics"
              /\ \E ok \in {TRUE} \cup (IF MayFail THEN {FALSE} ELSE {}) : Home!topicsAnswered(r, q, ok)
           \/ r.kind = "mark" /\ Home!markAnswered(r, q)
           \/ r.kind = "save" /\ Home!saveAnswered(r, q)
           \/ /\ r.kind = "push" /\ flight' = Home!pushNotification(q, r, server)
              /\ UNCHANGED <<store, home, form, server, asked, saved, base>>
    BY DEF Home!Answer
  <1> HIDE DEF r, q
  <1>4. ASSUME UNCHANGED server PROVE SameServer
    BY <1>4 DEF SameServer
  <1>5. ASSUME NEW ok, Home!cardsAnswered(r, q, ok) PROVE Settled(q)
    <2>1. /\ store' = store \/ store' = Home!setCardItems(store, r.copies)
          /\ flight' = q /\ UNCHANGED <<server, saved, base>>
      BY <1>5 DEF Home!cardsAnswered
    <2> QED
      BY <1>2, <1>4, <2>1, ReducersKeep DEF Settled
  <1>6. ASSUME Home!topicsAnswered(r, q, TRUE) PROVE TopicsTaken(r, q)
    <2>1. /\ store' = Home!componentDidUpdate(Home!setTopics(store, r.topics), form)
          /\ flight' = q /\ UNCHANGED <<server, saved, base>>
      BY <1>6 DEF Home!topicsAnswered
    <2>2. DOMAIN [store EXCEPT !.topics = r.topics] = StoreFields
      OBVIOUS
    <2> QED
      BY <1>4, <2>1, <2>2, ReducersKeep DEF TopicsTaken, Home!setTopics
  <1>7. ASSUME Home!topicsAnswered(r, q, FALSE) PROVE Settled(q)
    BY <1>2, <1>4, <1>7 DEF Home!topicsAnswered, Settled
  <1>8. ASSUME Home!markAnswered(r, q) PROVE Settled(q)
    <2>1. CASE r.ok
      <3>1. PICK s : (s = Home!bookmarkItems(store) \/ s = Home!removeBookmark(store)) /\ Home!Redraw(s, q)
        BY <1>8, <2>1 DEF Home!markAnswered
      <3>2. Home!Draw(s, home.option, q) /\ UNCHANGED <<saved, base>>
        BY <1>8, <3>1 DEF Home!markAnswered, Home!Redraw
      <3>3. store' = s /\ SameServer /\ Extends(q, flight')
        BY <1>1, <3>2, Drawn DEF Home!HomeAssumption
      <3> QED
        BY <3>1, <3>2, <3>3, ReducersKeep DEF Settled
    <2>2. CASE ~r.ok
      BY <1>2, <1>4, <1>8, <2>2 DEF Home!markAnswered, Settled
    <2> QED
      BY <2>1, <2>2
  <1>9. ASSUME Home!saveAnswered(r, q) PROVE Settled(q) \/ (r.ok /\ Home!Load(server) /\ saved' = r.ids)
    BY <1>2, <1>4, <1>9 DEF Home!saveAnswered, Settled
  <1>10. ASSUME flight' = Home!pushNotification(q, r, server),
                UNCHANGED <<store, home, form, server, asked, saved, base>>
         PROVE  PushTaken(q)
    BY <1>2, <1>4, <1>10 DEF PushTaken, Home!pushNotification
  <1>11. ASSUME NEW ok \in {TRUE} \cup (IF MayFail THEN {FALSE} ELSE {}), Home!topicsAnswered(r, q, ok)
         PROVE  TopicsTaken(r, q) \/ (Settled(q) /\ MayFail)
    BY <1>6, <1>7, <1>11
  <1> QED
    BY <1>3, <1>5, <1>8, <1>9, <1>10, <1>11 DEF r, q

LEMMA HomeSteps ==
    ASSUME Home!HomeAssumption, HomeShape, [Home!Next]_Home!vars
    PROVE  \/ Calm \/ Marks \/ Saves \/ Changed
           \/ Home!Load(server) /\ saved' = None
           \/ \E n \in 1 .. Len(flight) : Home!Answer(n)
  <1>1. ASSUME Home!UserNext PROVE Calm \/ Marks \/ Saves \/ (Home!Load(server) /\ saved' = None)
    BY <1>1, Clicks, BookmarkMarks, AddSaves, Zenon DEF Home!UserNext, Home!reload
  <1>2. ASSUME UNCHANGED Home!vars PROVE Calm
    <2>1. UNCHANGED <<store, server, flight, saved, base>>
      BY <1>2 DEF Home!vars
    <2>2. Kept(store, store) /\ SameServer
      BY <2>1 DEF Kept, SameServer, HomeShape
    <2> QED
      BY <2>1, <2>2, ExtendsItself DEF Calm, HomeShape
  <1> QED
    BY <1>1, <1>2, OthersChange, Zenon DEF Home!Next, Home!Answers

LEMMA HomeShapeKept == ASSUME Home!HomeAssumption, HomeShape, [Home!Next]_Home!vars PROVE HomeShape'
  <1> /\ DOMAIN store = StoreFields /\ store.same \in BOOLEAN /\ DOMAIN server = ServerFields /\ IsSeq(flight)
    BY DEF HomeShape
  <1>1. CASE Calm
    BY <1>1 DEF Calm, Kept, SameServer, Extends, HomeShape
  <1>2. CASE Marks
    BY <1>2, SeqGrows DEF Marks, Kept, HomeShape
  <1>3. CASE Saves
    BY <1>3, SeqGrows DEF Saves, HomeShape
  <1>4. CASE Changed
    <2>1. IsSeq(flight')
      <3>1. CASE flight' = flight
        BY <3>1
      <3>2. ASSUME NEW m, flight' = Append(flight, m) PROVE IsSeq(flight')
        BY <3>2, SeqGrows
      <3> QED
        BY <1>4, <3>1, <3>2 DEF Changed
    <2> QED
      BY <1>4, <2>1 DEF Changed, HomeShape
  <1>5. CASE Home!Load(server)
    <2>1. DOMAIN store' = StoreFields /\ store'.same = TRUE
      BY <1>5 DEF Home!Load, Home!initData, StoreFields
    <2> QED
      BY <1>5, <2>1, Loaded DEF Home!HomeAssumption, HomeShape
  <1>6. ASSUME NEW n \in 1 .. Len(flight), Home!Answer(n) PROVE HomeShape'
    <2> DEFINE r == flight[n]
               q == Home!RemoveAt(flight, n)
    <2>1. \/ Settled(q) \/ TopicsTaken(r, q) \/ PushTaken(q) \/ Home!Load(server)
      BY <1>6, AnswersDo
    <2>2. IsSeq(q)
      BY SeqCut
    <2> HIDE DEF r, q
    <2>3. CASE Settled(q)
      BY <2>3 DEF Settled, Kept, SameServer, Extends, HomeShape
    <2>4. CASE TopicsTaken(r, q)
      BY <2>2, <2>4 DEF TopicsTaken, Kept, SameServer, HomeShape, StoreFields
    <2>5. CASE PushTaken(q)
      BY <2>2, <2>5, SeqGrows DEF PushTaken, Kept, SameServer, HomeShape
    <2> QED
      BY <1>5, <2>1, <2>3, <2>4, <2>5
  <1> QED
    BY <1>1, <1>2, <1>3, <1>4, <1>5, <1>6, HomeSteps

LEMMA FirstHomeShape ==
    ASSUME Home!HomeAssumption, Home!Init
    PROVE  /\ HomeShape /\ store.same = TRUE /\ server.dash = base /\ store.topics = server.visible
           /\ \A n \in 1 .. Len(flight) : flight[n].kind \in Loads
  <1>1. PICK sv : /\ DOMAIN sv = ServerFields
                  /\ store = Home!initData(sv) /\ base = sv.dash
                  /\ flight = Home!Fetches(sv) \/ flight = <<>>
                  /\ server = sv \/ \E c : server = [sv EXCEPT !.cache = c]
    <2>1. PICK visible, marks, dash :
             LET sv == [exists |-> Topics, visible |-> visible, dash |-> dash, marks |-> marks, cache |-> None]
             IN  /\ store = Home!initData(sv) /\ base = dash
                 /\ flight = Home!Fetches(sv) \/ flight = <<>>
                 /\ server = sv \/ server = [sv EXCEPT !.cache = Home!fetchItems(sv).copies]
      BY DEF Home!Init
    <2> DEFINE sv == [exists |-> Topics, visible |-> visible, dash |-> dash, marks |-> marks, cache |-> None]
    <2>2. DOMAIN sv = ServerFields /\ sv.dash = dash
      BY DEF ServerFields
    <2> HIDE DEF sv
    <2>3. /\ store = Home!initData(sv) /\ base = dash
          /\ flight = Home!Fetches(sv) \/ flight = <<>>
          /\ server = sv \/ \E c : server = [sv EXCEPT !.cache = c]
      BY <2>1 DEF sv
    <2> QED
      BY <2>2, <2>3
  <1>2. IsSeq(<<>>) /\ Len(<<>>) = 0
    BY DEF IsSeq
  <1>3. IsSeq(flight) /\ \A n \in 1 .. Len(flight) : flight[n].kind \in Loads
    BY <1>1, <1>2, FetchesLoad DEF Home!HomeAssumption
  <1>4. DOMAIN server = ServerFields /\ server.dash = sv.dash /\ server.visible = sv.visible
    BY <1>1 DEF ServerFields
  <1>5. DOMAIN store = StoreFields /\ store.same = TRUE /\ store.topics = sv.visible
    BY <1>1 DEF Home!initData, StoreFields
  <1> QED
    BY <1>1, <1>3, <1>4, <1>5 DEF HomeShape

\* The document a page may write is the one it was loaded with.
SameInv == store.same => server.dash = base

LEMMA SameKept == ASSUME Home!HomeAssumption, HomeShape, SameInv, [Home!Next]_Home!vars PROVE SameInv'
  <1>1. CASE Calm
    BY <1>1 DEF Calm, Kept, SameServer, SameInv
  <1>2. CASE Marks
    BY <1>2 DEF Marks, Kept, SameInv
  <1>3. CASE Saves
    BY <1>3 DEF Saves, SameInv
  <1>4. CASE Changed
    BY <1>4 DEF Changed, SameInv
  <1>5. CASE Home!Load(server)
    BY <1>5, Loaded DEF Home!HomeAssumption, HomeShape, SameInv
  <1>6. ASSUME NEW n \in 1 .. Len(flight), Home!Answer(n) PROVE SameInv'
    <2> DEFINE r == flight[n]
               q == Home!RemoveAt(flight, n)
    <2>1. \/ Settled(q) \/ TopicsTaken(r, q) \/ PushTaken(q) \/ Home!Load(server)
      BY <1>6, AnswersDo
    <2> HIDE DEF r, q
    <2>2. ASSUME Settled(q) \/ PushTaken(q) PROVE SameInv'
      BY <2>2 DEF Settled, PushTaken, Kept, SameServer, SameInv
    <2>3. ASSUME TopicsTaken(r, q) PROVE SameInv'
      BY <2>3 DEF TopicsTaken, Kept, SameServer, SameInv, HomeShape, StoreFields
    <2> QED
      BY <1>5, <2>1, <2>2, <2>3
  <1> QED
    BY <1>1, <1>2, <1>3, <1>4, <1>5, <1>6, HomeSteps

\* Only a save puts a save at the end of what is on its way.
LEMMA OnlySaves ==
    ASSUME Home!HomeAssumption, HomeShape, [Home!Next]_Home!vars,
           Len(flight') > Len(flight), flight'[Len(flight')].kind = "save"
    PROVE  Saves /\ (flight'[Len(flight')].ok => store.same)
  <1> IsSeq(flight) /\ Len(flight) \in Nat
    BY SeqLength DEF HomeShape
  <1>0. /\ "save" \notin Loads /\ "mark" # "save" /\ "push" # "save" /\ "topics" # "save"
    BY DEF Loads
  <1>1. ~ Calm
    <2> SUFFICES ASSUME Calm PROVE FALSE
      OBVIOUS
    <2>1. IsSeq(flight') /\ \A n \in 1 .. Len(flight') : n > Len(flight) => flight'[n].kind \in Loads
      BY DEF Calm, Extends
    <2>2. Len(flight') \in Nat
      BY <2>1, SeqLength
    <2>3. Len(flight') \in 1 .. Len(flight')
      BY <2>2
    <2> QED
      BY <1>0, <2>1, <2>3
  <1>2. ~ Marks
    BY <1>0, SeqGrows DEF Marks
  <1>3. ~ Changed
    <2>1. ASSUME NEW m, m.kind = "push", flight' = Append(flight, m) PROVE FALSE
      BY <1>0, <2>1, SeqGrows
    <2> QED
      BY <2>1 DEF Changed
  <1>4. ~ Home!Load(server)
    <2> SUFFICES ASSUME Home!Load(server) PROVE FALSE
      OBVIOUS
    <2>1. IsSeq(flight') /\ \A n \in 1 .. Len(flight') : flight'[n].kind \in Loads
      BY Loaded DEF Home!HomeAssumption, HomeShape
    <2>2. Len(flight') \in Nat
      BY <2>1, SeqLength
    <2>3. Len(flight') \in 1 .. Len(flight')
      BY <2>2
    <2> QED
      BY <1>0, <2>1, <2>3
  <1>5. ASSUME NEW n \in 1 .. Len(flight), Home!Answer(n) PROVE FALSE
    <2> DEFINE r == flight[n]
               q == Home!RemoveAt(flight, n)
    <2>1. \/ Settled(q) \/ TopicsTaken(r, q) \/ PushTaken(q)
      BY <1>4, <1>5, AnswersDo
    <2>2. IsSeq(q) /\ Len(q) = Len(flight) - 1
      BY SeqCut
    <2> HIDE DEF r, q
    <2>3. CASE Settled(q)
      <3>1. IsSeq(flight') /\ \A m \in 1 .. Len(flight') : m > Len(q) => flight'[m].kind \in Loads
        BY <2>3 DEF Settled, Extends
      <3>2. Len(flight') \in Nat
        BY <3>1, SeqLength
      <3>3. Len(flight') \in 1 .. Len(flight') /\ Len(flight') > Len(q)
        BY <2>2, <3>2
      <3> QED
        BY <1>0, <3>1, <3>3
    <2>4. CASE TopicsTaken(r, q)
      BY <2>2, <2>4 DEF TopicsTaken
    <2>5. CASE PushTaken(q)
      BY <2>2, <2>5, SeqGrows DEF PushTaken
    <2> QED
      BY <2>1, <2>3, <2>4, <2>5
  <1>6. Saves
    BY <1>1, <1>2, <1>3, <1>4, <1>5, HomeSteps
  <1>7. flight'[Len(flight')].ok => store.same
    <2>1. PICK m : m.ok => store.same /\ flight' = Append(flight, m)
      BY <1>6 DEF Saves
    <2>2. PICK k : (k.ok => store.same) /\ flight' = Append(flight, k)
      BY <1>6 DEF Saves
    <2> QED
      BY <2>2, SeqGrows
  <1> QED
    BY <1>6, <1>7

\* The etag of the page goes with its save: a dashboard that another page saved, or that a deletion
\* took a topic off, is replaced by none, with answers in any order, failures and double clicks.
THEOREM HomeLosesNothing == ASSUME Home!HomeAssumption PROVE Home!Spec => [][Home!NoLostUpdateStep]_Home!vars
  <1>1. Home!Init => HomeShape /\ SameInv
    BY FirstHomeShape DEF SameInv
  <1>2. HomeShape /\ SameInv /\ [Home!Next]_Home!vars => (HomeShape /\ SameInv)'
    BY HomeShapeKept, SameKept
  <1>3. HomeShape /\ SameInv /\ [Home!Next]_Home!vars => [Home!NoLostUpdateStep]_Home!vars
    <2> SUFFICES ASSUME HomeShape, SameInv, [Home!Next]_Home!vars,
                        Len(flight') > Len(flight), Home!Last(flight').kind = "save", Home!Last(flight').ok
                 PROVE  server.dash = base
      BY DEF Home!NoLostUpdateStep, Home!InFlight
    <2>1. store.same
      BY OnlySaves DEF Home!Last
    <2> QED
      BY <2>1 DEF SameInv
  <1> QED
    BY <1>1, <1>2, <1>3, PTL DEF Home!Spec

\* A save under way is what the server has, and the page it will load is the next to save.
SavesInv ==
    \A n \in 1 .. Len(flight) :
        flight[n].kind = "save" /\ flight[n].ok => flight[n].ids = server.dash /\ ~store.same

LEMMA SavesExtended ==
    ASSUME HomeShape, SavesInv, NEW q, IsSeq(q),
           \A n \in 1 .. Len(q) : \E m \in 1 .. Len(flight) : q[n] = flight[m],
           Extends(q, flight'), store'.same = store.same, server'.dash = server.dash
    PROVE  SavesInv'
  <1> SUFFICES ASSUME NEW n \in 1 .. Len(flight'), flight'[n].kind = "save", flight'[n].ok
               PROVE  flight'[n].ids = server'.dash /\ ~store'.same
    BY DEF SavesInv
  <1>1. Len(q) \in Nat /\ Len(flight') \in Nat
    BY SeqLength DEF Extends
  <1>2. n \in 1 .. Len(q)
    BY <1>1 DEF Extends, Loads
  <1>3. flight'[n] = q[n]
    BY <1>2 DEF Extends, Loads
  <1>4. PICK m \in 1 .. Len(flight) : q[n] = flight[m]
    BY <1>2
  <1> QED
    BY <1>3, <1>4 DEF SavesInv

LEMMA SavesKept ==
    ASSUME Home!HomeAssumption, {"user", "delete"} \cap Acts = {}, HomeShape, SavesInv, [Home!Next]_Home!vars
    PROVE  SavesInv'
  <1> IsSeq(flight) /\ Len(flight) \in Nat /\ DOMAIN server = ServerFields
    BY SeqLength DEF HomeShape
  <1>1. CASE Calm
    BY <1>1, SavesExtended DEF Calm, Kept, SameServer
  <1>2. ASSUME NEW m, m.kind # "save", flight' = Append(flight, m),
               store'.same = store.same, server'.dash = server.dash
        PROVE  SavesInv'
    <2>1. /\ Len(flight') = Len(flight) + 1 /\ flight'[Len(flight) + 1] = m
          /\ \A n \in 1 .. Len(flight) : flight'[n] = flight[n]
      BY <1>2, SeqGrows
    <2>2. \A n \in 1 .. Len(flight') : n \in 1 .. Len(flight) \/ n = Len(flight) + 1
      BY <2>1
    <2> QED
      BY <1>2, <2>1, <2>2 DEF SavesInv
  <1>3. CASE Marks
    BY <1>2, <1>3 DEF Marks, Kept
  <1>4. CASE Changed
    <2>1. CASE flight' = flight
      BY <1>4, <2>1 DEF Changed, SavesInv
    <2>2. ASSUME NEW m, m.kind = "push", flight' = Append(flight, m) PROVE SavesInv'
      BY <1>2, <1>4, <2>2 DEF Changed
    <2> QED
      BY <1>4, <2>1, <2>2 DEF Changed
  <1>5. CASE Saves
    <2>1. PICK m : /\ m.kind = "save" /\ m.ok \in BOOLEAN /\ flight' = Append(flight, m)
                   /\ store'.same = (store.same /\ ~m.ok)
                   /\ m.ok => store.same /\ server'.dash = m.ids
                   /\ ~m.ok => server'.dash = server.dash
      BY <1>5 DEF Saves
    <2>2. /\ Len(flight') = Len(flight) + 1 /\ flight'[Len(flight) + 1] = m
          /\ \A n \in 1 .. Len(flight) : flight'[n] = flight[n]
      BY <2>1, SeqGrows
    <2>3. \A n \in 1 .. Len(flight') : n \in 1 .. Len(flight) \/ n = Len(flight) + 1
      BY <2>2
    <2>4. store.same \in BOOLEAN
      BY DEF HomeShape
    <2> QED
      BY <2>1, <2>2, <2>3, <2>4 DEF SavesInv
  <1>6. CASE Home!Load(server)
    BY <1>6, Loaded DEF Home!HomeAssumption, SavesInv, Loads
  <1>7. ASSUME NEW n \in 1 .. Len(flight), Home!Answer(n) PROVE SavesInv'
    <2> DEFINE r == flight[n]
               q == Home!RemoveAt(flight, n)
    <2>1. \/ Settled(q) \/ TopicsTaken(r, q) \/ PushTaken(q) \/ Home!Load(server)
      BY <1>7, AnswersDo
    <2>2. /\ IsSeq(q) /\ Len(q) = Len(flight) - 1
          /\ \A m \in 1 .. Len(q) : q[m] = flight[m] \/ q[m] = flight[m + 1]
      BY SeqCut
    <2> HIDE DEF r, q
    <2>3. \A k \in 1 .. Len(q) : \E m \in 1 .. Len(flight) : q[k] = flight[m]
      <3> SUFFICES ASSUME NEW k \in 1 .. Len(q) PROVE \E m \in 1 .. Len(flight) : q[k] = flight[m]
        OBVIOUS
      <3>1. k \in 1 .. Len(flight) /\ k + 1 \in 1 .. Len(flight)
        BY <2>2
      <3> QED
        BY <2>2, <3>1
    <2>4. CASE Settled(q)
      BY <2>2, <2>3, <2>4, SavesExtended DEF Settled, Kept, SameServer
    <2>5. CASE TopicsTaken(r, q)
      <3>1. Extends(q, flight') /\ store'.same = store.same /\ server'.dash = server.dash
        BY <2>2, <2>5, ExtendsItself DEF TopicsTaken, Kept, SameServer, HomeShape, StoreFields
      <3> QED
        BY <2>2, <2>3, <3>1, SavesExtended
    <2>6. CASE PushTaken(q)
      <3> DEFINE m == [kind |-> "topics", topics |-> server.visible]
      <3>1. /\ flight' = Append(q, m) /\ m.kind = "topics"
            /\ store'.same = store.same /\ server'.dash = server.dash
        BY <2>6 DEF PushTaken, Kept, SameServer
      <3> HIDE DEF m
      <3>2. /\ Len(q) \in Nat /\ Len(flight') = Len(q) + 1 /\ flight'[Len(q) + 1] = m
            /\ \A k \in 1 .. Len(q) : flight'[k] = q[k]
        BY <2>2, <3>1, SeqGrows
      <3>3. \A k \in 1 .. Len(flight') : k \in 1 .. Len(q) \/ k = Len(q) + 1
        BY <3>2
      <3>4. \A k \in 1 .. Len(q) : q[k].kind = "save" /\ q[k].ok => q[k].ids = server.dash /\ ~store.same
        BY <2>3 DEF SavesInv
      <3> QED
        BY <3>1, <3>2, <3>3, <3>4 DEF SavesInv
    <2> QED
      BY <1>6, <2>1, <2>4, <2>5, <2>6
  <1> QED
    BY <1>1, <1>3, <1>4, <1>5, <1>6, <1>7, HomeSteps

\* Without another page of the user and without deletions, the page that a save loads shows the
\* topics that were saved, of those the user still sees: the dialog can be sent twice or be opened
\* again while the first answer is on its way, and what is sent then is refused.
THEOREM SavedChoiceIsShown ==
    ASSUME Home!HomeAssumption, {"user", "delete"} \cap Acts = {}
    PROVE  Home!Spec => [][Home!SavedIsShownStep]_Home!vars
  <1>1. Home!Init => HomeShape /\ SavesInv
    BY FirstHomeShape DEF SavesInv, Loads
  <1>2. HomeShape /\ SavesInv /\ [Home!Next]_Home!vars => (HomeShape /\ SavesInv)'
    BY HomeShapeKept, SavesKept
  <1>3. HomeShape /\ SavesInv /\ [Home!Next]_Home!vars => [Home!SavedIsShownStep]_Home!vars
    <2> SUFFICES ASSUME HomeShape, SavesInv, [Home!Next]_Home!vars, saved' # saved, saved' # None
                 PROVE  store'.dash = SelectSeq(saved', LAMBDA t : t \in store'.topics)
      BY DEF Home!SavedIsShownStep
    <2>1. PICK n \in 1 .. Len(flight) : Home!Answer(n)
      BY HomeSteps DEF Calm, Marks, Saves, Changed
    <2>2. flight[n].kind = "save" /\ flight[n].ok /\ Home!Load(server) /\ saved' = flight[n].ids
      BY <2>1, AnswersDo DEF Settled, TopicsTaken, PushTaken
    <2>3. saved' = server.dash
      BY <2>2 DEF SavesInv
    <2>4. store' = Home!initData(server)
      BY <2>2 DEF Home!Load
    <2>5. store'.topics = server.visible
      BY <2>4 DEF Home!initData
    <2>6. store'.dash = SelectSeq(server.dash, LAMBDA t : t \in server.visible)
      BY <2>4 DEF Home!initData
    <2> QED
      BY <2>3, <2>5, <2>6
  <1> QED
    BY <1>1, <1>2, <1>3, PTL DEF Home!Spec

\* The last of the pushes and topics on their way tells the page the topics the user sees; when there
\* is none the page knows them.
Tells(m) == m.kind \in {"push", "topics"}
LastTells(q, v) ==
    \A n \in 1 .. Len(q) :
        q[n].kind = "topics" /\ (\A m \in 1 .. Len(q) : m > n => ~Tells(q[m])) => q[n].topics = v
Told(q, t, v) == LastTells(q, v) /\ ((\A n \in 1 .. Len(q) : ~Tells(q[n])) => t = v)
TopicsInv == Told(flight, store.topics, server.visible)

LEMMA ToldExtended ==
    ASSUME NEW q, IsSeq(q), NEW r, Extends(q, r), NEW t, NEW v, Told(q, t, v)
    PROVE  Told(r, t, v)
  <1> /\ Len(q) \in Nat /\ Len(r) \in Nat /\ Len(q) <= Len(r)
    BY SeqLength DEF Extends
  <1>1. \A n \in 1 .. Len(r) : Tells(r[n]) => n \in 1 .. Len(q)
    BY DEF Extends, Tells, Loads
  <1>2. \A n \in 1 .. Len(q) : Tells(r[n]) = Tells(q[n]) /\ (Tells(q[n]) => r[n] = q[n])
    BY DEF Extends, Tells, Loads
  <1>3. \A n \in 1 .. Len(q) : n \in 1 .. Len(r)
    OBVIOUS
  <1>4. ASSUME NEW n \in 1 .. Len(r), r[n].kind = "topics", \A m \in 1 .. Len(r) : m > n => ~Tells(r[m])
        PROVE  r[n].topics = v
    <2>1. n \in 1 .. Len(q) /\ r[n] = q[n]
      BY <1>1, <1>2, <1>4 DEF Tells
    <2>2. \A m \in 1 .. Len(q) : m > n => ~Tells(q[m])
      BY <1>2, <1>3, <1>4
    <2> QED
      BY <1>4, <2>1, <2>2 DEF Told, LastTells
  <1>5. ASSUME \A n \in 1 .. Len(r) : ~Tells(r[n]) PROVE t = v
    <2>1. \A n \in 1 .. Len(q) : ~Tells(q[n])
      BY <1>2, <1>3, <1>5
    <2> QED
      BY <2>1 DEF Told
  <1> QED
    BY <1>4, <1>5 DEF Told, LastTells

LEMMA ToldLater ==
    ASSUME NEW q, IsSeq(q), NEW m, NEW t, NEW v, NEW w,
           \/ m.kind = "push"
           \/ m.kind = "topics" /\ m.topics = w
           \/ ~Tells(m) /\ Told(q, t, v) /\ v = w
    PROVE  Told(Append(q, m), t, w)
  <1> DEFINE r == Append(q, m)
  <1>1. /\ Len(q) \in Nat /\ Len(r) = Len(q) + 1 /\ r[Len(q) + 1] = m
        /\ \A n \in 1 .. Len(q) : r[n] = q[n]
    BY SeqGrows
  <1> HIDE DEF r
  <1>2. /\ Len(q) + 1 \in 1 .. Len(r)
        /\ \A n \in 1 .. Len(r) : n \in 1 .. Len(q) \/ n = Len(q) + 1
        /\ \A n \in 1 .. Len(q) : n \in 1 .. Len(r) /\ Len(q) + 1 > n
    BY <1>1
  <1>3. CASE Tells(m)
    <2>1. ASSUME NEW n \in 1 .. Len(r), r[n].kind = "topics", \A k \in 1 .. Len(r) : k > n => ~Tells(r[k])
          PROVE  r[n].topics = w
      <3>1. n = Len(q) + 1
        BY <1>1, <1>2, <1>3, <2>1
      <3> QED
        BY <1>1, <1>3, <2>1, <3>1 DEF Tells
    <2>2. ~ \A n \in 1 .. Len(r) : ~Tells(r[n])
      BY <1>1, <1>2, <1>3
    <2> QED
      BY <2>1, <2>2 DEF Told, LastTells, r
  <1>4. CASE ~Tells(m)
    <2>0. Told(q, t, w)
      BY <1>4 DEF Tells
    <2>1. ASSUME NEW n \in 1 .. Len(r), r[n].kind = "topics", \A k \in 1 .. Len(r) : k > n => ~Tells(r[k])
          PROVE  r[n].topics = w
      <3>1. n \in 1 .. Len(q) /\ r[n] = q[n]
        BY <1>1, <1>2, <1>4, <2>1 DEF Tells
      <3>2. \A k \in 1 .. Len(q) : k > n => ~Tells(q[k])
        BY <1>1, <1>2, <2>1
      <3> QED
        BY <2>0, <2>1, <3>1, <3>2 DEF Told, LastTells
    <2>2. ASSUME \A n \in 1 .. Len(r) : ~Tells(r[n]) PROVE t = w
      <3>1. \A n \in 1 .. Len(q) : ~Tells(q[n])
        BY <1>1, <1>2, <2>2
      <3> QED
        BY <2>0, <3>1 DEF Told
    <2> QED
      BY <2>1, <2>2 DEF Told, LastTells, r
  <1> QED
    BY <1>3, <1>4

LEMMA FirstTaken ==
    ASSUME NEW p, IsSeq(p), 1 \in 1 .. Len(p), NEW t, NEW v, Told(p, t, v)
    PROVE  LET q == Home!RemoveAt(p, 1) IN
           /\ LastTells(q, v)
           /\ ~Tells(p[1]) => Told(q, t, v)
           /\ p[1].kind = "topics" => Told(q, p[1].topics, v)
  <1> DEFINE q == Home!RemoveAt(p, 1)
  <1>1. /\ IsSeq(q) /\ Len(p) \in Nat /\ Len(q) = Len(p) - 1
        /\ \A m \in 1 .. Len(q) : q[m] = p[m + 1]
    BY SeqCut
  <1> HIDE DEF q
  <1>2. /\ \A m \in 1 .. Len(q) : m + 1 \in 1 .. Len(p)
        /\ \A m \in 1 .. Len(p) : m = 1 \/ (m - 1 \in 1 .. Len(q) /\ p[m] = q[m - 1])
    BY <1>1
  <1>3. LastTells(q, v)
    <2> SUFFICES ASSUME NEW n \in 1 .. Len(q), q[n].kind = "topics",
                        \A m \in 1 .. Len(q) : m > n => ~Tells(q[m])
                 PROVE  q[n].topics = v
      BY DEF LastTells
    <2>1. n + 1 \in 1 .. Len(p) /\ p[n + 1] = q[n]
      BY <1>1, <1>2
    <2>2. ASSUME NEW m \in 1 .. Len(p), m > n + 1 PROVE ~Tells(p[m])
      <3>1. m - 1 \in 1 .. Len(q) /\ m - 1 > n /\ p[m] = q[m - 1]
        BY <1>2, <2>2
      <3> QED
        BY <3>1
    <2> QED
      BY <2>1, <2>2 DEF Told, LastTells
  <1>4. ASSUME \A n \in 1 .. Len(q) : ~Tells(q[n])
        PROVE  \A m \in 1 .. Len(p) : m > 1 => ~Tells(p[m])
    BY <1>2, <1>4
  <1>5. ASSUME ~Tells(p[1]), \A n \in 1 .. Len(q) : ~Tells(q[n]) PROVE t = v
    <2>1. \A m \in 1 .. Len(p) : m = 1 \/ m > 1
      OBVIOUS
    <2>2. \A m \in 1 .. Len(p) : ~Tells(p[m])
      BY <1>4, <1>5, <2>1
    <2> QED
      BY <2>2 DEF Told
  <1>6. ASSUME p[1].kind = "topics", \A n \in 1 .. Len(q) : ~Tells(q[n]) PROVE p[1].topics = v
    BY <1>4, <1>6 DEF Told, LastTells
  <1> QED
    BY <1>3, <1>5, <1>6 DEF Told, q

LEMMA TopicsKept ==
    ASSUME Home!HomeAssumption, ~AnyOrder, ~MayFail, HomeShape, TopicsInv, [Home!Next]_Home!vars
    PROVE  TopicsInv'
  <1> IsSeq(flight) /\ Len(flight) \in Nat
    BY SeqLength DEF HomeShape
  <1>1. CASE Calm
    BY <1>1, ToldExtended DEF Calm, Kept, SameServer, TopicsInv
  <1>2. CASE Marks
    BY <1>2, ToldLater DEF Marks, Kept, TopicsInv, Tells
  <1>3. CASE Saves
    BY <1>3, ToldLater DEF Saves, TopicsInv, Tells
  <1>4. CASE Changed
    <2>1. CASE flight' = flight /\ server'.visible = server.visible
      BY <1>4, <2>1 DEF Changed, TopicsInv
    <2>2. ASSUME NEW m, m.kind = "push", flight' = Append(flight, m) PROVE TopicsInv'
      BY <1>4, <2>2, ToldLater DEF Changed, TopicsInv
    <2> QED
      BY <1>4, <2>1, <2>2 DEF Changed
  <1>5. CASE Home!Load(server)
    <2>1. store'.topics = server'.visible
      <3>1. store' = Home!initData(server) /\ server'.visible = server.visible
        BY <1>5, Loaded DEF Home!HomeAssumption, HomeShape
      <3>2. store'.topics = server.visible
        BY <3>1 DEF Home!initData
      <3> QED
        BY <3>1, <3>2
    <2>2. \A n \in 1 .. Len(flight') : ~Tells(flight'[n]) /\ flight'[n].kind # "topics"
      BY <1>5, Loaded DEF Home!HomeAssumption, HomeShape, Tells, Loads
    <2> QED
      BY <2>1, <2>2 DEF TopicsInv, Told, LastTells
  <1>6. ASSUME NEW n \in 1 .. Len(flight), Home!Answer(n) PROVE TopicsInv'
    <2> DEFINE r == flight[1]
               q == Home!RemoveAt(flight, 1)
    <2>1. n = 1
      BY <1>6, AnswersDo
    <2>2. \/ Settled(q) /\ r.kind \notin {"topics", "push"}
          \/ r.kind = "topics" /\ TopicsTaken(r, q)
          \/ r.kind = "push" /\ PushTaken(q)
          \/ Home!Load(server)
      BY <1>6, <2>1, AnswersDo
    <2>3. /\ IsSeq(q)
          /\ ~Tells(r) => Told(q, store.topics, server.visible)
          /\ r.kind = "topics" => Told(q, r.topics, server.visible)
      BY <2>1, SeqCut, FirstTaken DEF TopicsInv
    <2> HIDE DEF r, q
    <2>4. CASE Settled(q) /\ r.kind \notin {"topics", "push"}
      BY <2>3, <2>4, ToldExtended DEF Settled, Kept, SameServer, TopicsInv, Tells
    <2>5. CASE r.kind = "topics" /\ TopicsTaken(r, q)
      <3>1. store'.topics = r.topics
        BY <2>5 DEF TopicsTaken, Kept, HomeShape, StoreFields
      <3> QED
        BY <2>3, <2>5, <3>1 DEF TopicsTaken, SameServer, TopicsInv
    <2>6. CASE PushTaken(q)
      <3> DEFINE m == [kind |-> "topics", topics |-> server.visible]
      <3>1. flight' = Append(q, m) /\ server'.visible = server.visible
        BY <2>6 DEF PushTaken, SameServer
      <3>2. m.kind = "topics" /\ m.topics = server'.visible
        BY <3>1
      <3> HIDE DEF m
      <3> QED
        BY <2>3, <3>1, <3>2, ToldLater DEF TopicsInv
    <2> QED
      BY <1>5, <2>2, <2>4, <2>5, <2>6
  <1> QED
    BY <1>1, <1>2, <1>3, <1>4, <1>5, <1>6, HomeSteps

\* When answers come in order and none fails, the page that waits for nothing has the topics the user
\* sees, whatever was deleted, shared or hidden while it reloaded: each push reloads them again.
THEOREM HomeTopicsCurrent ==
    ASSUME Home!HomeAssumption, ~AnyOrder, ~MayFail PROVE Home!Spec => []Home!TopicsCurrent
  <1>1. Home!Init => HomeShape /\ TopicsInv
    BY FirstHomeShape DEF TopicsInv, Told, LastTells, Tells, Loads
  <1>2. HomeShape /\ TopicsInv /\ [Home!Next]_Home!vars => (HomeShape /\ TopicsInv)'
    BY HomeShapeKept, TopicsKept
  <1>3. HomeShape /\ TopicsInv => Home!TopicsCurrent
    <2>1. Len(<<>>) = 0
      OBVIOUS
    <2> QED
      BY <2>1 DEF TopicsInv, Told, Home!TopicsCurrent
  <1> QED
    BY <1>1, <1>2, <1>3, PTL DEF Home!Spec

\* The bookmark of the open item. No open item is null.
NullIsNoItem == \A i, b : [id |-> i, marked |-> b] # None
Opened(s) == s.itemToOpen # None => \E i, b : s.itemToOpen = [id |-> i, marked |-> b]
Once(q) == \A n, m \in 1 .. Len(q) : q[n].kind = "mark" /\ q[m].kind = "mark" => n = m
\* The item whose bookmark was clicked is open and shows what the server has, or will when the answer
\* to the click has come.
Right(q, item, marks) ==
    asked # None =>
        /\ item # None /\ item.id = asked
        /\ (\A n \in 1 .. Len(q) : q[n].kind = "mark" => ~q[n].ok) => item.marked = (asked \in marks)
        /\ \A n \in 1 .. Len(q) : q[n].kind = "mark" /\ q[n].ok => q[n].on = (asked \in marks)
MarkInv == Opened(store) /\ Once(flight) /\ Right(flight, store.itemToOpen, server.marks)

LEMMA MarksExtended ==
    ASSUME NEW q, IsSeq(q), NEW r, Extends(q, r), NEW item, NEW marks, Once(q), Right(q, item, marks)
    PROVE  Once(r) /\ Right(r, item, marks)
  <1> /\ Len(q) \in Nat /\ Len(r) \in Nat /\ Len(q) <= Len(r)
    BY SeqLength DEF Extends
  <1>1. \A n \in 1 .. Len(r) : r[n].kind = "mark" => n \in 1 .. Len(q) /\ r[n] = q[n]
    <2> SUFFICES ASSUME NEW n \in 1 .. Len(r), r[n].kind = "mark" PROVE n \in 1 .. Len(q) /\ r[n] = q[n]
      OBVIOUS
    <2>1. n \in 1 .. Len(q)
      BY DEF Extends, Loads
    <2> QED
      BY <2>1 DEF Extends, Loads
  <1>2. \A n \in 1 .. Len(q) : n \in 1 .. Len(r) /\ r[n].kind = q[n].kind
    BY DEF Extends
  <1>3. \A n \in 1 .. Len(q) : q[n].kind = "mark" => r[n] = q[n]
    BY DEF Extends, Loads
  <1>4. Once(r)
    BY <1>1 DEF Once
  <1>5. ASSUME asked # None, \A n \in 1 .. Len(r) : r[n].kind = "mark" => ~r[n].ok
        PROVE  item.marked = (asked \in marks)
    BY <1>2, <1>3, <1>5 DEF Right
  <1>6. ASSUME asked # None, NEW n \in 1 .. Len(r), r[n].kind = "mark", r[n].ok
        PROVE  r[n].on = (asked \in marks)
    BY <1>1, <1>6 DEF Right
  <1> QED
    BY <1>4, <1>5, <1>6 DEF Right

LEMMA MarksLater ==
    ASSUME NEW q, IsSeq(q), NEW m, m.kind # "mark", NEW item, NEW marks, Once(q), Right(q, item, marks)
    PROVE  Once(Append(q, m)) /\ Right(Append(q, m), item, marks)
  <1> DEFINE r == Append(q, m)
  <1>1. /\ Len(q) \in Nat /\ Len(r) = Len(q) + 1 /\ r[Len(q) + 1] = m
        /\ \A n \in 1 .. Len(q) : r[n] = q[n]
    BY SeqGrows
  <1> HIDE DEF r
  <1>2. /\ \A n \in 1 .. Len(r) : r[n].kind = "mark" => n \in 1 .. Len(q) /\ r[n] = q[n]
        /\ \A n \in 1 .. Len(q) : n \in 1 .. Len(r) /\ r[n] = q[n]
    <2>1. \A n \in 1 .. Len(r) : n \in 1 .. Len(q) \/ n = Len(q) + 1
      BY <1>1
    <2>2. \A n \in 1 .. Len(q) : n \in 1 .. Len(r)
      BY <1>1
    <2> QED
      BY <1>1, <2>1, <2>2
  <1> QED
    BY <1>2 DEF Once, Right, r

LEMMA MarksCut ==
    ASSUME NEW p, IsSeq(p), NEW n \in 1 .. Len(p), NEW item, NEW marks, Once(p), Right(p, item, marks)
    PROVE  LET q == Home!RemoveAt(p, n) IN
           /\ IsSeq(q) /\ Once(q)
           /\ p[n].kind # "mark" => Right(q, item, marks)
           /\ p[n].kind = "mark" => \A m \in 1 .. Len(q) : q[m].kind # "mark"
  <1> DEFINE q == Home!RemoveAt(p, n)
  <1>1. /\ IsSeq(q) /\ Len(p) \in Nat /\ Len(q) = Len(p) - 1
        /\ \A m \in 1 .. Len(q) : q[m] = IF m < n THEN p[m] ELSE p[m + 1]
    BY SeqCut
  <1> HIDE DEF q
  <1> DEFINE Was(m) == IF m < n THEN m ELSE m + 1
  <1>2. \A m \in 1 .. Len(q) : Was(m) \in 1 .. Len(p) /\ Was(m) # n /\ q[m] = p[Was(m)]
    BY <1>1
  <1>3. \A m, k \in 1 .. Len(q) : Was(m) = Was(k) => m = k
    BY <1>1
  <1>4. \A m \in 1 .. Len(p) : m = n \/ \E k \in 1 .. Len(q) : q[k] = p[m]
    <2> SUFFICES ASSUME NEW m \in 1 .. Len(p), m # n PROVE \E k \in 1 .. Len(q) : q[k] = p[m]
      OBVIOUS
    <2>1. CASE m < n
      <3>1. m \in 1 .. Len(q) /\ q[m] = p[m]
        BY <1>1, <2>1
      <3> QED
        BY <3>1
    <2>2. CASE m > n
      <3>1. m - 1 \in 1 .. Len(q) /\ q[m - 1] = p[m]
        BY <1>1, <2>2
      <3> QED
        BY <3>1
    <2> QED
      BY <2>1, <2>2
  <1> HIDE DEF Was
  <1>5. Once(q)
    BY <1>2, <1>3 DEF Once
  <1>6. ASSUME p[n].kind = "mark", NEW m \in 1 .. Len(q) PROVE q[m].kind # "mark"
    BY <1>2, <1>6 DEF Once
  <1>7. ASSUME p[n].kind # "mark" PROVE Right(q, item, marks)
    <2>1. ASSUME asked # None, \A k \in 1 .. Len(q) : q[k].kind = "mark" => ~q[k].ok
          PROVE  item.marked = (asked \in marks)
      <3>1. \A m \in 1 .. Len(p) : p[m].kind = "mark" => ~p[m].ok
        BY <1>4, <1>7, <2>1
      <3> QED
        BY <2>1, <3>1 DEF Right
    <2>2. ASSUME asked # None, NEW k \in 1 .. Len(q), q[k].kind = "mark", q[k].ok
          PROVE  q[k].on = (asked \in marks)
      BY <1>2, <2>2 DEF Right
    <2> QED
      BY <2>1, <2>2 DEF Right
  <1> QED
    BY <1>1, <1>5, <1>6, <1>7 DEF q

\* What leaves the open item, its mark and the click alone.
Steady == store'.itemToOpen = store.itemToOpen /\ server'.marks = server.marks /\ asked' = asked
Grows(q) == Extends(q, flight') \/ \E m : m.kind # "mark" /\ flight' = Append(q, m)

LEMMA SteadyKeeps ==
    ASSUME NEW q, IsSeq(q), Steady, Grows(q),
           Opened(store), Once(q), Right(q, store.itemToOpen, server.marks)
    PROVE  MarkInv'
  <1>1. Once(flight') /\ Right(flight', store.itemToOpen, server.marks)
    <2>1. CASE Extends(q, flight')
      BY <2>1, MarksExtended
    <2>2. CASE \E m : m.kind # "mark" /\ flight' = Append(q, m)
      <3>1. PICK m : m.kind # "mark" /\ flight' = Append(q, m)
        BY <2>2
      <3>2. Once(Append(q, m)) /\ Right(Append(q, m), store.itemToOpen, server.marks)
        BY <3>1, MarksLater
      <3> QED
        BY <3>1, <3>2
    <2> QED
      BY <2>1, <2>2 DEF Grows
  <1> QED
    BY <1>1 DEF Steady, MarkInv, Opened, Right, Once

LEMMA UnaskedKeeps ==
    ASSUME asked' = None, Opened(store)', Once(flight') PROVE MarkInv'
  BY DEF MarkInv, Right, Once

LEMMA ItemLeft ==
    ASSUME NEW s, DOMAIN s = StoreFields
    PROVE  /\ \A x : /\ Home!setActive(s, x).itemToOpen = s.itemToOpen
                     /\ Home!setCardItems(s, x).itemToOpen = s.itemToOpen
                     /\ Home!setTopics(s, x).itemToOpen = s.itemToOpen
                     /\ Home!componentDidUpdate(s, x).itemToOpen = s.itemToOpen
                     /\ Home!openItem(s, x).itemToOpen = x
           /\ Home!renderModal(s).itemToOpen = s.itemToOpen /\ Home!closeModal(s).itemToOpen = s.itemToOpen
           /\ Home!bookmarkItems(s).itemToOpen = Home!Marked(s, TRUE)
           /\ Home!removeBookmark(s).itemToOpen = Home!Marked(s, FALSE)
  <1>1. Home!modalFormValid(s).itemToOpen = s.itemToOpen
    BY DEF Home!modalFormValid, StoreFields
  <1>2. \A x : Home!componentDidUpdate(s, x).itemToOpen = s.itemToOpen
    BY <1>1 DEF Home!componentDidUpdate
  <1> QED
    BY <1>2 DEF Home!setActive, Home!setCardItems, Home!setTopics, Home!openItem, Home!renderModal,
                Home!closeModal, Home!bookmarkItems,
                Home!removeBookmark, StoreFields

LEMMA SteadyClicks ==
    ASSUME Home!HomeAssumption, HomeShape,
           \/ \E o \in {"default", "my-home"} : Home!switchOptions(o)
           \/ Home!personalizeHome \/ Home!cancelDialog
           \/ \E t \in Topics : Home!choose(t)
           \/ Home!lookAround \/ Home!addCustomDashboard
           \/ Home!ServerNext \/ UNCHANGED Home!vars
    PROVE  Steady /\ Grows(flight)
  <1> DOMAIN store = StoreFields /\ DOMAIN server = ServerFields /\ IsSeq(flight) /\ Galleries \in Nat
    BY DEF HomeShape, Home!HomeAssumption
  <1>0. Extends(flight, flight)
    BY ExtendsItself
  <1>1. ASSUME NEW s, s.itemToOpen = store.itemToOpen, NEW o, Home!Draw(s, o, flight), UNCHANGED asked
        PROVE  Steady /\ Grows(flight)
    BY <1>1, Drawn DEF Steady, SameServer, Grows
  <1>2. ASSUME NEW o \in {"default", "my-home"}, Home!switchOptions(o) PROVE Steady /\ Grows(flight)
    BY <1>1, <1>2 DEF Home!switchOptions
  <1>3. ASSUME Home!personalizeHome PROVE Steady /\ Grows(flight)
    BY <1>1, <1>3, ItemLeft DEF Home!personalizeHome, Home!Redraw
  <1>4. ASSUME Home!cancelDialog PROVE Steady /\ Grows(flight)
    BY <1>1, <1>4, ItemLeft DEF Home!cancelDialog, Home!Redraw
  <1>5. ASSUME (\E t \in Topics : Home!choose(t)) \/ Home!lookAround PROVE Steady /\ Grows(flight)
    <2>1. PICK f : store' = Home!componentDidUpdate(store, f) /\ UNCHANGED <<server, flight, asked>>
      BY <1>5 DEF Home!choose, Home!lookAround
    <2>2. Home!componentDidUpdate(store, f).itemToOpen = store.itemToOpen
      BY ItemLeft
    <2>3. Steady
      BY <2>1, <2>2 DEF Steady
    <2>4. Grows(flight)
      BY <1>0, <2>1 DEF Grows
    <2> QED
      BY <2>3, <2>4
  <1>6. ASSUME Home!addCustomDashboard PROVE Steady /\ Grows(flight)
    <2>1. PICK m : m.kind = "save" /\ flight' = Append(flight, m)
      BY <1>6, AddSaves DEF Saves
    <2>2. /\ UNCHANGED asked
          /\ \E b : store' = [Home!componentDidUpdate(store, form) EXCEPT !.same = b]
          /\ server' = server \/ server' = [server EXCEPT !.dash = form.selected]
      BY <1>6 DEF Home!addCustomDashboard, Home!patchEntity
    <2>3. server'.marks = server.marks
      BY <2>2 DEF ServerFields
    <2>4. DOMAIN Home!componentDidUpdate(store, form) = StoreFields
      BY ReducersKeep DEF Kept
    <2>5. store'.itemToOpen = Home!componentDidUpdate(store, form).itemToOpen
      BY <2>2, <2>4 DEF StoreFields
    <2>6. Steady
      BY <2>2, <2>3, <2>5, ItemLeft DEF Steady
    <2> QED
      BY <2>1, <2>6 DEF Grows
  <1>7. ASSUME Home!ServerNext PROVE Steady /\ Grows(flight)
    <2>1. Grows(flight)
      <3>1. (\E m : m.kind = "push" /\ flight' = Append(flight, m)) \/ flight' = flight
        BY <1>7, OthersChange DEF Changed
      <3> QED
        BY <1>0, <3>1 DEF Grows
    <2>2. ASSUME NEW t \in Topics, Home!topicDeleted(t) PROVE Steady
      <3>1. /\ UNCHANGED asked /\ server' = Home!deleteTopic(server, t)
            /\ \E b : store' = [store EXCEPT !.same = b]
        BY <2>2 DEF Home!topicDeleted
      <3> QED
        BY <3>1 DEF Steady, Home!deleteTopic, StoreFields, ServerFields
    <2>3. ASSUME NEW t \in Topics, Home!topicShared(t) PROVE Steady
      <3>1. UNCHANGED <<asked, store>> /\ \E v : server' = [server EXCEPT !.visible = v]
        BY <2>3 DEF Home!topicShared
      <3> QED
        BY <3>1 DEF Steady, ServerFields
    <2>4. ASSUME Home!userChanged PROVE Steady
      <3>1. /\ UNCHANGED asked /\ store' = [store EXCEPT !.same = FALSE]
            /\ \E d : server' = [server EXCEPT !.dash = d]
        BY <2>4 DEF Home!userChanged
      <3> QED
        BY <3>1 DEF Steady, StoreFields, ServerFields
    <2>5. ASSUME Home!cacheExpires PROVE Steady
      BY <2>5 DEF Home!cacheExpires, Steady, ServerFields
    <2> QED
      BY <1>7, <2>1, <2>2, <2>3, <2>4, <2>5 DEF Home!ServerNext
  <1>8. ASSUME UNCHANGED Home!vars PROVE Steady /\ Grows(flight)
    BY <1>0, <1>8 DEF Home!vars, Steady, Grows
  <1> QED
    BY <1>2, <1>3, <1>4, <1>5, <1>6, <1>7, <1>8

LEMMA MarkKeptByClicks ==
    ASSUME Home!HomeAssumption, Waits, HomeShape, MarkInv,
           Home!UserNext \/ Home!ServerNext \/ UNCHANGED Home!vars
    PROVE  MarkInv'
  <1> DOMAIN store = StoreFields /\ DOMAIN server = ServerFields /\ IsSeq(flight) /\ Galleries \in Nat
      /\ Len(flight) \in Nat
    BY SeqLength DEF HomeShape, Home!HomeAssumption
  <1>1. ASSUME NEW s, DOMAIN s = StoreFields, Opened(s), NEW o, Home!Draw(s, o, flight), asked' = None
        PROVE  MarkInv'
    <2>1. store' = s /\ Extends(flight, flight')
      BY <1>1, Drawn
    <2>2. Once(flight')
      BY <2>1, MarksExtended DEF MarkInv
    <2> QED
      BY <1>1, <2>1, <2>2, UnaskedKeeps DEF Opened
  <1>2. ASSUME NEW i \in Items, NEW p \in Topics \cup {"card"}, Home!openItemDetails(i, p) PROVE MarkInv'
    <2>1. PICK s : /\ s = store \/ \E c : s = Home!openItem(store, [id |-> i, marked |-> c])
                   /\ Home!Draw(Home!setActive(s, p), home.option, flight) /\ asked' = None
      BY <1>2 DEF Home!openItemDetails, Home!Redraw
    <2>2. DOMAIN s = StoreFields /\ Opened(s)
      <3>1. CASE s = store
        BY <3>1 DEF MarkInv
      <3>2. ASSUME NEW c, s = Home!openItem(store, [id |-> i, marked |-> c])
            PROVE  DOMAIN s = StoreFields /\ Opened(s)
        <4>1. DOMAIN s = StoreFields
          BY <3>2, ReducersKeep DEF Kept
        <4>2. s.itemToOpen = [id |-> i, marked |-> c]
          <5>1. \A x : Home!openItem(store, x).itemToOpen = x
            BY ItemLeft
          <5> QED
            BY <3>2, <5>1
        <4> QED
          BY <4>1, <4>2 DEF Opened
      <3> QED
        BY <2>1, <3>1, <3>2
    <2>3. DOMAIN Home!setActive(s, p) = StoreFields /\ Opened(Home!setActive(s, p))
      <3>1. Home!setActive(s, p).itemToOpen = s.itemToOpen
        BY <2>2, ItemLeft
      <3>2. DOMAIN Home!setActive(s, p) = StoreFields
        BY <2>2, ReducersKeep DEF Kept
      <3> QED
        BY <2>2, <3>1, <3>2 DEF Opened
    <2> QED
      BY <1>1, <2>1, <2>3
  <1>3. ASSUME Home!onClose PROVE MarkInv'
    <2>1. Home!Draw(Home!openItem(store, None), home.option, flight) /\ asked' = None
      BY <1>3 DEF Home!onClose, Home!Redraw
    <2>2. DOMAIN Home!openItem(store, None) = StoreFields /\ Opened(Home!openItem(store, None))
      <3>1. Home!openItem(store, None).itemToOpen = None
        BY ItemLeft
      <3> QED
        BY <3>1, ReducersKeep DEF Kept, Opened
    <2> QED
      BY <1>1, <2>1, <2>2
  <1>4. ASSUME Home!Load(server) PROVE MarkInv'
    <2>1. store' = Home!initData(server) /\ asked' = None
          /\ \A n \in 1 .. Len(flight') : flight'[n].kind \in Loads
      BY <1>4, Loaded
    <2>2. store'.itemToOpen = None
      BY <2>1 DEF Home!initData
    <2>3. Once(flight')
      BY <2>1 DEF Once, Loads
    <2> QED
      BY <2>1, <2>2, <2>3, UnaskedKeeps DEF Opened
  <1>5. ASSUME Home!bookmark PROVE MarkInv'
    <2> DEFINE i == store.itemToOpen.id
               b == ~store.itemToOpen.marked
    <2>1. PICK ok \in BOOLEAN :
            /\ store.itemToOpen # None /\ ~Home!InFlight({"mark"}) /\ UNCHANGED store
            /\ server' = IF ok THEN [server EXCEPT !.marks = IF b THEN server.marks \cup {i}
                                                                  ELSE server.marks \ {i}] ELSE server
            /\ flight' = Append(flight, [kind |-> "mark", ok |-> ok, on |-> b])
            /\ asked' = IF ok THEN i ELSE asked
      BY <1>5 DEF Home!bookmark, Home!Content
    <2> DEFINE m == [kind |-> "mark", ok |-> ok, on |-> b]
    <2>2. m.kind = "mark" /\ m.ok = ok /\ m.on = b /\ flight' = Append(flight, m)
      BY <2>1
    <2>3. ok => i \in server'.marks <=> b
      BY <2>1 DEF ServerFields
    <2>4. ~ok => server'.marks = server.marks
      BY <2>1
    <2> HIDE DEF m
    <2>5. /\ Len(flight') = Len(flight) + 1 /\ flight'[Len(flight) + 1] = m
          /\ \A n \in 1 .. Len(flight) : flight'[n] = flight[n]
      BY <2>2, SeqGrows
    <2>6. \A n \in 1 .. Len(flight) : flight[n].kind # "mark"
      BY <2>1 DEF Home!InFlight
    <2>7. \A n \in 1 .. Len(flight') : flight'[n].kind = "mark" => n = Len(flight) + 1 /\ flight'[n] = m
      <3>1. \A n \in 1 .. Len(flight') : n \in 1 .. Len(flight) \/ n = Len(flight) + 1
        BY <2>5
      <3> QED
        BY <2>5, <2>6, <3>1
    <2>8. Len(flight) + 1 \in 1 .. Len(flight')
      BY <2>5
    <2>9. Once(flight')
      BY <2>7 DEF Once
    <2>10. CASE ok
      <3>1. asked' = i /\ m.ok /\ m.on = (i \in server'.marks)
        BY <2>1, <2>2, <2>3, <2>10
      <3>2. ~ \A n \in 1 .. Len(flight') : flight'[n].kind = "mark" => ~flight'[n].ok
        BY <2>2, <2>5, <2>8, <3>1
      <3> QED
        BY <2>1, <2>7, <2>9, <3>1, <3>2 DEF MarkInv, Opened, Right, Once
    <2>11. CASE ~ok
      <3>1. asked' = asked /\ server'.marks = server.marks /\ ~m.ok
        BY <2>1, <2>2, <2>4, <2>11
      <3>2. asked # None => store.itemToOpen.id = asked /\ store.itemToOpen.marked = (asked \in server.marks)
        BY <2>6 DEF MarkInv, Right
      <3> QED
        BY <2>1, <2>7, <2>9, <3>1, <3>2 DEF MarkInv, Opened, Right, Once
    <2> QED
      BY <2>10, <2>11
  <1>6. ASSUME Steady, Grows(flight) PROVE MarkInv'
    BY <1>6, SteadyKeeps DEF MarkInv
  <1> QED
    BY <1>2, <1>3, <1>4, <1>5, <1>6, SteadyClicks, Zenon DEF Home!UserNext, Home!reload

LEMMA MarkKeptByAnswers ==
    ASSUME Home!HomeAssumption, NullIsNoItem, HomeShape, MarkInv, NEW n \in 1 .. Len(flight), Home!Answer(n)
    PROVE  MarkInv'
  <1> DEFINE r == flight[n]
             q == Home!RemoveAt(flight, n)
  <1> DOMAIN store = StoreFields /\ DOMAIN server = ServerFields /\ IsSeq(flight) /\ Galleries \in Nat
    BY DEF HomeShape, Home!HomeAssumption
  <1>1. /\ \/ /\ r.kind \in {"cards", "gallery"}
              /\ \E ok : Home!cardsAnswered(r, q, ok)
           \/ /\ r.kind = "topics"
              /\ \E ok : Home!topicsAnswered(r, q, ok)
           \/ r.kind = "mark" /\ Home!markAnswered(r, q)
           \/ r.kind = "save" /\ Home!saveAnswered(r, q)
           \/ /\ r.kind = "push" /\ flight' = Home!pushNotification(q, r, server)
              /\ UNCHANGED <<store, home, form, server, asked, saved, base>>
    BY DEF Home!Answer
  <1>2. /\ IsSeq(q) /\ Once(q)
        /\ r.kind # "mark" => Right(q, store.itemToOpen, server.marks)
        /\ r.kind = "mark" => \A m \in 1 .. Len(q) : q[m].kind # "mark"
    BY MarksCut DEF MarkInv
  <1>3. r.kind = "mark" /\ r.ok /\ asked # None => r.on = (asked \in server.marks)
    BY DEF MarkInv, Right
  <1>4. r.kind = "mark" /\ ~r.ok /\ asked # None => store.itemToOpen.marked = (asked \in server.marks)
    <2>1. r.kind = "mark" /\ ~r.ok => \A m \in 1 .. Len(flight) : flight[m].kind = "mark" => ~flight[m].ok
      BY DEF MarkInv, Once
    <2> QED
      BY <2>1 DEF MarkInv, Right
  <1> HIDE DEF r, q
  <1>5. Extends(q, q)
    BY <1>2, ExtendsItself
  <1>6. ASSUME r.kind # "mark", Steady, Grows(q) PROVE MarkInv'
    BY <1>2, <1>6, SteadyKeeps DEF MarkInv
  <1>7. ASSUME r.kind \in {"cards", "gallery"}, NEW ok, Home!cardsAnswered(r, q, ok) PROVE MarkInv'
    <2>1. Steady /\ Grows(q)
      BY <1>5, <1>7, ItemLeft DEF Home!cardsAnswered, Steady, Grows
    <2> QED
      BY <1>6, <1>7, <2>1
  <1>8. ASSUME r.kind = "topics", NEW ok, Home!topicsAnswered(r, q, ok) PROVE MarkInv'
    <2>1. DOMAIN Home!setTopics(store, r.topics) = StoreFields
      BY DEF Home!setTopics
    <2> DEFINE s == Home!setTopics(store, r.topics)
    <2>4. s.itemToOpen = store.itemToOpen
      BY ItemLeft
    <2>5. Home!componentDidUpdate(s, form).itemToOpen = s.itemToOpen
      <3> HIDE DEF s
      <3> QED
        BY <2>1, ItemLeft DEF s
    <2>2. Home!componentDidUpdate(Home!setTopics(store, r.topics), form).itemToOpen = store.itemToOpen
      BY <2>4, <2>5
    <2>3. Steady /\ Grows(q)
      BY <1>5, <1>8, <2>2 DEF Home!topicsAnswered, Steady, Grows
    <2> QED
      BY <1>6, <1>8, <2>3
  <1>9. ASSUME r.kind = "save", Home!saveAnswered(r, q) PROVE MarkInv'
    <2>1. CASE Home!Load(server)
      <3>1. store' = Home!initData(server) /\ asked' = None
            /\ \A m \in 1 .. Len(flight') : flight'[m].kind \in Loads
        BY <2>1, Loaded
      <3>2. store'.itemToOpen = None
        BY <3>1 DEF Home!initData
      <3>3. Once(flight')
        BY <3>1 DEF Once, Loads
      <3> QED
        BY <3>1, <3>2, <3>3, UnaskedKeeps DEF Opened
    <2>2. CASE ~Home!Load(server)
      <3>1. Steady /\ Grows(q)
        BY <1>5, <1>9, <2>2 DEF Home!saveAnswered, Steady, Grows
      <3> QED
        BY <1>6, <1>9, <3>1
    <2> QED
      BY <2>1, <2>2
  <1>10. ASSUME r.kind = "push", flight' = Home!pushNotification(q, r, server),
                UNCHANGED <<store, server, asked>>
         PROVE  MarkInv'
    <2> DEFINE m == [kind |-> "topics", topics |-> server.visible]
    <2>1. m.kind # "mark" /\ flight' = Append(q, m)
      BY <1>10 DEF Home!pushNotification
    <2> HIDE DEF m
    <2>2. Steady /\ Grows(q)
      BY <1>10, <2>1 DEF Steady, Grows
    <2> QED
      BY <1>6, <1>10, <2>2
  <1>11. ASSUME r.kind = "mark", Home!markAnswered(r, q) PROVE MarkInv'
    <2>1. CASE r.ok
      <3>1. PICK s : /\ s = IF r.on THEN Home!bookmarkItems(store) ELSE Home!removeBookmark(store)
                     /\ Home!Draw(s, home.option, q)
        BY <1>11, <2>1 DEF Home!markAnswered, Home!Redraw
      <3>2. store' = s /\ SameServer /\ Extends(q, flight') /\ asked' = asked
        BY <1>2, <1>11, <3>1, Drawn DEF Home!markAnswered
      <3>3. \A m \in 1 .. Len(flight') : flight'[m].kind # "mark"
        <4>1. Len(q) \in Nat
          BY <1>2, SeqLength
        <4> QED
          BY <1>2, <1>11, <3>2, <4>1 DEF Extends, Loads
      <3>4. \/ s.itemToOpen = Home!Marked(store, TRUE) /\ r.on
            \/ s.itemToOpen = Home!Marked(store, FALSE) /\ ~r.on
        <4>1. CASE r.on
          <5>1. s = Home!bookmarkItems(store)
            BY <3>1, <4>1
          <5>2. Home!bookmarkItems(store).itemToOpen = Home!Marked(store, TRUE)
            BY ItemLeft
          <5>3. s.itemToOpen = Home!Marked(store, TRUE)
            BY <5>1, <5>2, Zenon
          <5> QED
            BY <4>1, <5>3, Zenon
        <4>2. CASE ~r.on
          <5>1. s = Home!removeBookmark(store)
            BY <3>1, <4>2
          <5>2. Home!removeBookmark(store).itemToOpen = Home!Marked(store, FALSE)
            BY ItemLeft
          <5>3. s.itemToOpen = Home!Marked(store, FALSE)
            BY <5>1, <5>2, Zenon
          <5> QED
            BY <4>2, <5>3, Zenon
        <4> QED
          BY <4>1, <4>2
      <3>5. Opened(s) /\ (asked # None => s.itemToOpen # None /\ s.itemToOpen.id = asked
                                           /\ s.itemToOpen.marked = (asked \in server.marks))
        <4>1. CASE asked = None
          BY <3>4, <4>1 DEF Home!Marked, MarkInv, Opened
        <4>2. CASE asked # None
          <5>1. PICK c : store.itemToOpen # None /\ store.itemToOpen = [id |-> asked, marked |-> c]
            BY <4>2 DEF MarkInv, Right, Opened
          <5>2. \A b : Home!Marked(store, b) = [id |-> asked, marked |-> b]
            BY <5>1 DEF Home!Marked
          <5>3. r.on = (asked \in server.marks)
            BY <1>3, <1>11, <2>1, <4>2
          <5>4. s.itemToOpen = [id |-> asked, marked |-> asked \in server.marks]
            <6>1. CASE asked \in server.marks
              <7>1. (asked \in server.marks) = TRUE /\ r.on
                BY <5>3, <6>1, Zenon
              <7>2. s.itemToOpen = Home!Marked(store, TRUE)
                BY <3>4, <7>1, Zenon
              <7>3. s.itemToOpen = [id |-> asked, marked |-> TRUE]
                BY <5>2, <7>2, Zenon
              <7> QED
                BY <7>1, <7>3
            <6>2. CASE asked \notin server.marks
              <7>1. (asked \in server.marks) = FALSE /\ ~r.on
                <8>1. (asked \in server.marks) = FALSE
                  BY <6>2
                <8>2. r.on = FALSE
                  BY <5>3, <8>1
                <8> QED
                  BY <8>1, <8>2
              <7>2. s.itemToOpen = Home!Marked(store, FALSE)
                BY <3>4, <7>1, Zenon
              <7>3. s.itemToOpen = [id |-> asked, marked |-> FALSE]
                BY <5>2, <7>2, Zenon
              <7> QED
                BY <7>1, <7>3
            <6> QED
              BY <6>1, <6>2
          <5>5. [id |-> asked, marked |-> asked \in server.marks] # None
            BY Zenon DEF NullIsNoItem
          <5>6. Opened(s)
            BY <5>4 DEF Opened
          <5> QED
            BY <5>4, <5>5, <5>6
        <4> QED
          BY <4>1, <4>2
      <3>6. Once(flight')
        BY <3>3 DEF Once
      <3> QED
        BY <3>2, <3>3, <3>5, <3>6 DEF MarkInv, Right, Opened, SameServer, Once
    <2>2. CASE ~r.ok
      <3>1. flight' = q /\ UNCHANGED <<store, server, asked>>
        BY <1>11, <2>2 DEF Home!markAnswered
      <3>2. Right(q, store.itemToOpen, server.marks)
        BY <1>2, <1>4, <1>11, <2>2 DEF Right, MarkInv
      <3> QED
        BY <1>2, <3>1, <3>2 DEF MarkInv, Right, Opened, Once
    <2> QED
      BY <2>1, <2>2
  <1> QED
    BY <1>1, <1>7, <1>8, <1>9, <1>10, <1>11

\* When the reader waits for the answer to a click on a bookmark, the item shows what the server has,
\* whichever old copy of it was opened and whether the answers are failures: what he sees is what he
\* turns round.
THEOREM HomeMarkShown == ASSUME Home!HomeAssumption, NullIsNoItem, Waits PROVE Home!Spec => []Home!MarkShown
  <1>1. Home!Init => HomeShape /\ MarkInv
    <2> SUFFICES ASSUME Home!Init PROVE HomeShape /\ MarkInv
      OBVIOUS
    <2>1. \A n \in 1 .. Len(flight) : flight[n].kind # "mark"
      BY FirstHomeShape DEF Loads
    <2>2. asked = None /\ store.itemToOpen = None
      BY DEF Home!Init, Home!initData
    <2> QED
      BY <2>1, <2>2, FirstHomeShape DEF MarkInv, Opened, Once, Right
  <1>2. HomeShape /\ MarkInv /\ [Home!Next]_Home!vars => (HomeShape /\ MarkInv)'
    BY HomeShapeKept, MarkKeptByClicks, MarkKeptByAnswers DEF Home!Next, Home!Answers
  <1>3. HomeShape /\ MarkInv => Home!MarkShown
    BY DEF MarkInv, Right, Home!MarkShown, Home!InFlight
  <1> QED
    BY <1>1, <1>2, <1>3, PTL DEF Home!Spec
===========================================================================
