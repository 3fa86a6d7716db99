----------------------------- MODULE WireResults -----------------------------
(***************************************************************************)
(* The list of results of the wire page in one browser tab: searches, next *)
(* pages, the badge of new items, removals pushed by the server, the item  *)
(* previewed or opened, the browser's back and forward buttons.  Requests  *)
(* are answered in any order.  Source: src/assets/wire/.                   *)
(***************************************************************************)
EXTENDS Naturals, Sequences, SequencesExt, FiniteSets

CONSTANTS
    Items, None,
    Queries,        \* what the search parameters can be (module SearchParams)
    Matches,        \* [Queries -> SUBSET Items]
    NextVersion,    \* [Items -> Items \cup {None}], the item that will supersede it
    Older,          \* the items published before the page is loaded, newest first
    PageSize,
    Limit,          \* MAX_ITEMS
    Tablet,         \* isTablet()
    MayFail,        \* requests can fail
    AnyOrder,       \* answers overtake each other
    MaxRequests, MaxHistory,    \* bounds
    Opened,         \* the items the reader ever opens or previews, a bound
    MaxChanges      \* a bound for each kind of change of the feed

ConstantsOK ==
    /\ Matches \in [Queries -> SUBSET Items]
    /\ NextVersion \in [Items -> Items \cup {None}]
    /\ PageSize \in Nat \ {0} /\ Limit \in Nat /\ MaxRequests \in Nat /\ MaxHistory \in Nat

VARIABLES
    feed,       \* server: the items published and not removed, newest first
    rev,        \* server: the item's revision (versioncreated)
    changes,    \* server: the changes of the feed of each kind, counted
    store,      \* the page's redux store
    requests,   \* the requests in flight
    pushes,     \* websocket events not yet handled
    sent,       \* the number of requests sent
    history,    \* the states pushed to the browser's history
    pos,        \* where in the history the browser is (0: the entry loaded first)
    applied     \* the newest request whose answer has reached the list, and whether the
                \* answer of an older one has come after it

vars == <<feed, rev, changes, store, requests, pushes, sent, history, pos, applied>>

Published == Range(feed)
Superseded(i) == NextVersion[i] \in Published

\* What the server answers: the matching items, superseded ones if asked for.
Results(q, all) ==
    SelectSeq(feed, LAMBDA i : i \in Matches[q] /\ (all \/ ~ Superseded(i)))
Page(list, from) ==
    SubSeq(list, from + 1, IF from + PageSize < Len(list) THEN from + PageSize ELSE Len(list))
Entry(i) == [id |-> i, rev |-> rev[i], superseded |-> Superseded(i)]

EmptyStore ==
    [query |-> CHOOSE q \in Queries : TRUE, all |-> FALSE, items |-> <<>>, known |-> <<>>,
     total |-> None, isLoading |-> FALSE, aggs |-> None, loadingAggs |-> FALSE,
     newItems |-> <<>>, preview |-> None, open |-> None,
     error |-> FALSE]

-----------------------------------------------------------------------------
(* Reducers: functions of the store. *)

Known(s) == DOMAIN s.known
With(known, i, e) == [j \in DOMAIN known \cup {i} |-> IF j = i THEN e ELSE known[j]]
Learn(known, entries) ==
    [j \in DOMAIN known \cup {entries[k].id : k \in DOMAIN entries} |->
        IF \E k \in DOMAIN entries : entries[k].id = j
        THEN LET k == CHOOSE k \in DOMAIN entries : entries[k].id = j
             IN  [rev |-> entries[k].rev, deleted |-> FALSE]
        ELSE known[j]]
Ids(entries) == [k \in DOMAIN entries |-> entries[k].id]
Uniq(seq) == FoldLeft(LAMBDA acc, i : IF i \in Range(acc) THEN acc ELSE Append(acc, i), <<>>, seq)

QueryItems(s) == [s EXCEPT !.isLoading = TRUE, !.total = None]
LoadingAggregations(s) == [s EXCEPT !.loadingAggs = TRUE]
PreviewItem(s, i) == [s EXCEPT !.preview = i]

RecieveItems(s, a) ==
    [s EXCEPT !.items = Ids(a.entries), !.known = Learn(s.known, a.entries),
              !.isLoading = FALSE, !.total = a.total, !.newItems = <<>>]
\* Mutant: the page is appended as it is.
RecieveNextAppended(s, a) ==
    [s EXCEPT !.items = s.items \o Ids(a.entries),
              !.known = Learn(s.known, a.entries), !.isLoading = FALSE]

\* A next page adds only what is unknown: what is known keeps its old data.
RecieveNextItems(s, a) ==
    LET unknown == SelectSeq(a.entries, LAMBDA e : e.id \notin Known(s))
    IN  [s EXCEPT !.items = Uniq(s.items \o Ids(a.entries)),
                  !.known = Learn(s.known, unknown), !.isLoading = FALSE]
RecieveAggs(s, a) == [s EXCEPT !.aggs = a.query, !.loadingAggs = FALSE]

\* The filter of SET_NEW_ITEMS: (!nextversion && unknown) || other versioncreated;
\* versioncreated of an unknown item is undefined, so every unknown item passes.
IsNew(s, e) ==
    \/ ~ e.superseded /\ e.id \notin Known(s)
    \/ e.id \notin Known(s) \/ s.known[e.id].rev # e.rev
SetNewItems(s, a) ==
    IF a.entries = <<>> THEN s
    ELSE [s EXCEPT !.newItems = Uniq(s.newItems \o
            Ids(SelectSeq(a.entries, LAMBDA e : IsNew(s, e))))]
MarkItemsRemoved(s, i) ==
    [s EXCEPT !.known = [j \in Known(s) |->
                            [s.known[j] EXCEPT !.deleted = @ \/ j = i]],
              !.preview = IF @ = i THEN None ELSE @,
              !.open = IF @ = i THEN None ELSE @]
SetError(s) == [s EXCEPT !.isLoading = FALSE]
SetErrorMessage(s) == [s EXCEPT !.isLoading = FALSE, !.error = TRUE]
\* OPEN_ITEM writes the item back under its id.
OpenItemDetails(s, i, data) ==
    IF i = None THEN [s EXCEPT !.open = None]
    ELSE [s EXCEPT !.open = i, !.known = With(s.known, i, data)]

-----------------------------------------------------------------------------
(* What the page shows, and so what the reader can do. *)

\* WireApp.renderPageContent: an error replaces the page, an opened item the list.
ItemToOpen(s) == IF s.open \in Known(s) THEN s.open ELSE None
Shown(s) == IF s.error THEN "error" ELSE IF ItemToOpen(s) # None THEN "item" ELSE "list"
\* WireListItem: a deleted item is a line of text without any handler.
Clickable(s) == {i \in Range(s.items) : i \in Known(s) /\ ~ s.known[i].deleted}

-----------------------------------------------------------------------------
(* Requests, and the browser's history. *)

Request(kind, s, from) ==
    [n |-> sent + 1, kind |-> kind, query |-> s.query, all |-> s.all, from |-> from,
     status |-> "sent", entries |-> <<>>, total |-> 0]
CanSend(n) == sent + n <= MaxRequests

\* updateRouteParams pushes the store without its items.
PushState(s) ==
    IF pos < MaxHistory
    THEN /\ history' = Append(SubSeq(history, 1, pos), [s EXCEPT !.items = <<>>, !.known = <<>>])
         /\ pos' = pos + 1
    ELSE UNCHANGED <<history, pos>>

\* fetchItems: the search is read from the store after the reducers have run.
FetchItemsStore(s) == PreviewItem(LoadingAggregations(QueryItems(s)), None)
FetchItems(s) ==
    /\ CanSend(2)
    /\ store' = FetchItemsStore(s)
    /\ requests' = requests \cup {Request("items", s, 0),
                                  [Request("aggs", s, 0) EXCEPT !.n = sent + 2]}
    /\ sent' = sent + 2

Init ==
    /\ feed = Older /\ rev = [i \in Items |-> 1] /\ changes = [k \in DOMAIN MaxChanges |-> 0]
    /\ store = FetchItemsStore(EmptyStore)
    /\ sent = 2
    /\ requests = {[n |-> n, kind |-> IF n = 1 THEN "items" ELSE "aggs",
                    query |-> EmptyStore.query, all |-> FALSE, from |-> 0,
                    status |-> "sent", entries |-> <<>>, total |-> 0] : n \in {1, 2}}
    /\ pushes = <<>> /\ history = <<>> /\ pos = 0
    /\ applied = [last |-> 0, mixed |-> FALSE]

-----------------------------------------------------------------------------
(* The server. *)

Changes(kind) ==
    /\ changes[kind] < MaxChanges[kind]
    /\ changes' = [changes EXCEPT ![kind] = @ + 1]

PublishItem(i) ==
    /\ i \notin Published /\ i \notin Range(Older)
    /\ i \notin {pushes[k].item : k \in DOMAIN pushes}
    /\ feed' = <<i>> \o feed
    /\ pushes' = Append(pushes, [event |-> "new_item", item |-> i])
    /\ Changes("publish")
    /\ UNCHANGED <<rev, store, requests, sent, history, pos, applied>>

CorrectItem(i) ==
    /\ i \in Published
    /\ rev' = [rev EXCEPT ![i] = @ + 1]
    /\ pushes' = Append(pushes, [event |-> "new_item", item |-> i])
    /\ Changes("correct")
    /\ UNCHANGED <<feed, store, requests, sent, history, pos, applied>>

RemoveItem(i) ==
    /\ i \in Published
    /\ feed' = SelectSeq(feed, LAMBDA j : j # i)
    /\ pushes' = Append(pushes, [event |-> "items_deleted", item |-> i])
    /\ Changes("remove")
    /\ UNCHANGED <<rev, store, requests, sent, history, pos, applied>>

Answer(r) ==
    /\ r.status = "sent"
    /\ AnyOrder \/ \A o \in requests : o.status = "sent" => o.n >= r.n
    /\ LET list == Results(r.query, r.all)
           part == IF r.kind = "aggs" THEN <<>> ELSE Page(list, r.from)
       IN  requests' = (requests \ {r}) \cup
              {[r EXCEPT !.status = "answered", !.total = Len(list),
                         !.entries = [k \in DOMAIN part |-> Entry(part[k])]]}
    /\ UNCHANGED <<feed, rev, changes, store, pushes, sent, history, pos, applied>>

-----------------------------------------------------------------------------
(* Answers reach the page. *)

Arrives(r, kind) ==
    /\ r.kind = kind /\ r.status = "answered"
    /\ AnyOrder \/ \A o \in requests : o.n >= r.n
    /\ requests' = requests \ {r}
    /\ UNCHANGED <<feed, rev, changes, pushes, sent, history, pos>>

\* The history of the answers about items: a new list makes up for what was mixed
\* into the last one, unless it is overtaken itself.
Applied(r) ==
    applied' = [last |-> IF r.n > applied.last THEN r.n ELSE applied.last,
                mixed |-> r.n < applied.last \/ (r.kind # "items" /\ applied.mixed)]

ReceiveItems(r) == Arrives(r, "items") /\ store' = RecieveItems(store, r) /\ Applied(r)
ReceiveAggs(r) == Arrives(r, "aggs") /\ store' = RecieveAggs(store, r) /\ UNCHANGED applied
ReceiveNextItems(r) == Arrives(r, "next") /\ store' = RecieveNextItems(store, r) /\ Applied(r)
ReceiveNewItems(r) == Arrives(r, "new") /\ store' = SetNewItems(store, r) /\ Applied(r)

\* errorHandler is given a dispatch for the aggregations and for new items, and
\* setError for the former: elsewhere a failed request leaves the store alone.
Failed(s, kind, error) ==
    CASE kind = "aggs" /\ error = "errorData" -> SetError(s)
      [] kind \in {"aggs", "new"} /\ error = "403" -> SetErrorMessage(s)
      [] OTHER -> s
Fail(r, error) ==
    /\ MayFail
    /\ requests' = requests \ {r}
    /\ store' = Failed(store, r.kind, error)
    /\ UNCHANGED <<feed, rev, changes, pushes, sent, history, pos, applied>>

\* pushNotification: events come in order; the throttle lets at least the last of
\* a burst of new items fetch, so a fetch in flight does not stop another.
HandlePush ==
    /\ pushes # <<>>
    /\ pushes' = Tail(pushes)
    /\ IF Head(pushes).event = "items_deleted"
       THEN /\ store' = MarkItemsRemoved(store, Head(pushes).item)
            /\ UNCHANGED <<requests, sent>>
       ELSE /\ CanSend(1)
            /\ requests' = requests \cup {Request("new", store, 0)}
            /\ sent' = sent + 1
            /\ UNCHANGED store
    /\ UNCHANGED <<feed, rev, changes, history, pos, applied>>

-----------------------------------------------------------------------------
(* The reader. *)

\* A change of the search parameters, or of the search bar: the new parameters
\* are pushed to the history and searched.
Search(q) ==
    /\ Shown(store) = "list" /\ q # store.query
    /\ LET s == [store EXCEPT !.query = q]
       IN  FetchItems(s) /\ PushState(s)
    /\ UNCHANGED <<feed, rev, changes, pushes, applied>>

ToggleSearchAllVersions ==
    /\ Shown(store) = "list"
    /\ FetchItems([store EXCEPT !.all = ~ @])
    /\ UNCHANGED <<feed, rev, changes, pushes, history, pos, applied>>

\* NewItemsIcon is shown when there are new items, and searches again.
Refresh ==
    /\ Shown(store) = "list" /\ store.newItems # <<>>
    /\ FetchItems(store)
    /\ UNCHANGED <<feed, rev, changes, pushes, history, pos, applied>>

\* onListScroll at the end of the list; null counts as 0 in Math.min.
FetchMoreItems ==
    /\ Shown(store) = "list"
    /\ ~ store.isLoading
    /\ LET total == IF store.total = None THEN 0 ELSE store.total
       IN  Len(store.items) < (IF total < Limit THEN total ELSE Limit)
    /\ CanSend(1)
    /\ store' = [store EXCEPT !.isLoading = TRUE]
    /\ requests' = requests \cup {Request("next", store, Len(store.items))}
    /\ sent' = sent + 1
    /\ UNCHANGED <<feed, rev, changes, pushes, history, pos, applied>>

\* A click, after its timeout, opens the item's preview or closes it.
Click(i) ==
    /\ Shown(store) = "list" /\ i \in Clickable(store)
    /\ IF store.preview # i
       THEN store' = PreviewItem(store, i) /\ PushState(store')
       ELSE store' = PreviewItem(store, None) /\ UNCHANGED <<history, pos>>
    /\ UNCHANGED <<feed, rev, changes, requests, pushes, sent, applied>>

Open(i) ==
    /\ Shown(store) = "list" /\ i \in Clickable(store)
    /\ store' = OpenItemDetails(store, i, store.known[i])
    /\ PushState(store')
    /\ UNCHANGED <<feed, rev, changes, requests, pushes, sent, applied>>

Close ==
    /\ Shown(store) = "item"
    /\ store' = OpenItemDetails(store, None, None)
    /\ PushState(store')
    /\ UNCHANGED <<feed, rev, changes, requests, pushes, sent, applied>>

\* onpopstate: nothing happens on the entry loaded first, whose state is null.
GoTo(p) ==
    /\ p \in {pos - 1, pos + 1} /\ p \in 0 .. Len(history)
    /\ pos' = p
    /\ IF p = 0 THEN UNCHANGED <<store, requests, sent>>
       ELSE IF Tablet
            THEN /\ store' = PreviewItem(OpenItemDetails(store, None, None), None)
                 /\ UNCHANGED <<requests, sent>>
            ELSE FetchItems(history[p])
    /\ UNCHANGED <<feed, rev, changes, pushes, history, applied>>

Reader ==
    \/ \E q \in Queries : Search(q)
    \/ ToggleSearchAllVersions
    \/ Refresh
    \/ FetchMoreItems
    \/ \E i \in Opened : Click(i) \/ Open(i)
    \/ Close
    \/ \E p \in 0 .. MaxHistory : GoTo(p)

Server ==
    \/ \E i \in Items : PublishItem(i) \/ CorrectItem(i) \/ RemoveItem(i)
    \/ \E r \in requests : Answer(r)

Deliver ==
    \/ \E r \in requests : \/ ReceiveItems(r) \/ ReceiveAggs(r)
                           \/ ReceiveNextItems(r) \/ ReceiveNewItems(r)
    \/ HandlePush

Next ==
    \/ Reader \/ Server \/ Deliver
    \/ \E r \in requests, error \in {"errorData", "403", "other"} : Fail(r, error)

Spec == Init /\ [][Next]_vars

\* Requests are answered and the answers handled; nothing obliges the reader.
FairSpec == Spec /\ WF_vars(\E r \in requests : Answer(r)) /\ WF_vars(Deliver)

-----------------------------------------------------------------------------
IsStore(s) ==
    /\ s.query \in Queries /\ {s.all, s.isLoading, s.loadingAggs, s.error} \subseteq BOOLEAN
    /\ Range(s.items) \cup Range(s.newItems) \cup Known(s) \subseteq Items
    /\ {s.preview, s.open} \subseteq Items \cup {None}
    /\ s.total \in Nat \cup {None} /\ s.aggs \in Queries \cup {None}
    /\ \A i \in Known(s) : s.known[i].deleted \in BOOLEAN /\ s.known[i].rev \in 1 .. rev[i]

\* The store and the browser's history keep their shape (src/assets/wire/reducers.ts).
TypeOK ==
    /\ IsStore(store)
    /\ \A r \in requests : r.kind \in {"items", "aggs", "next", "new"} /\ r.n \in 1 .. sent
    /\ \A k \in DOMAIN history : IsStore(history[k])
    /\ pos \in 0 .. Len(history) /\ Len(history) <= MaxHistory

\* Whatever order answers, removals and the back button come in, every item of the
\* list has its data: ItemsList renders itemsById[_id] without looking.
ItemsKnown == Range(store.items) \subseteq Known(store)

\* No item is listed twice, nor counted twice in the badge, although pages are cut
\* by offset from results that grow while the reader scrolls.
NoRepeats == IsInjective(store.items) /\ IsInjective(store.newItems)

\* Nothing is in flight, and no answer about items has come after that of a newer
\* request since the list was loaded.
Settled == requests = {} /\ pushes = <<>> /\ ~ store.error /\ ~ applied.mixed

\* In whatever order the requests are answered, once the page has settled each item
\* published since it was loaded that belongs on the first page is there in its newest
\* revision, or the badge says that there is something new.  (A removal brings items back
\* to the first page without a word: none is made here.)
NewsNoticed ==
    Settled /\ changes["remove"] = 0 =>
        \A i \in Range(Page(Results(store.query, store.all), 0)) \ Range(Older) :
            \/ i \in Known(store) /\ store.known[i].rev = rev[i]
            \/ i \in Range(store.newItems)

\* Then, too, the rows and the badge are of the search that is shown, whatever was searched
\* before, gone back to, or scrolled on while the answers were on their way: what an answer
\* that was overtaken has mixed into the list is gone with the next one.
RowsOfSearch == Settled => Range(store.items) \cup Range(store.newItems) \subseteq Matches[store.query]

=============================================================================
