---------------------------- MODULE AgendaResults ----------------------------
(***************************************************************************)
(* The list of the agenda page in one browser tab: searches by day, type   *)
(* and featured stories, next pages, the groups of rows per day, previews  *)
(* that fetch the related items, watching, and the items the server        *)
(* pushes.  Source: src/assets/agenda/.                                    *)
(***************************************************************************)
EXTENDS Naturals, Sequences, SequencesExt, FiniteSets, FiniteSetsExt

CONSTANTS
    Items,          \* a set of numbers
    None,
    Days,           \* 1 .. the last day that is looked at
    Events,         \* the items that are events; the others are planning items
    Featured,       \* the items that are featured stories
    Related,        \* [Items -> SUBSET Items]: planning_ids, or event_ids
    Agenda0,        \* what the server has when the page is loaded
    PageSize,
    Limit,          \* MAX_ITEMS
    Bookmarks,      \* this is the page of the saved and watched items
    MayFail,        \* requests can fail
    AnyOrder,       \* requests and messages overtake each other
    Waits,          \* the reader searches only when nothing is on its way
    Acts,           \* what the reader does in this instance
    MaxRequests, MaxChanges     \* bounds; one for each kind of change

AgendaConstantsOK ==
    /\ Events \cup Featured \subseteq Items
    /\ Related \in [Items -> SUBSET Items]
    /\ PageSize \in Nat \ {0} /\ Limit \in Nat /\ MaxRequests \in Nat

VARIABLES
    agenda,     \* server: [live, days, covs, watch, cwatch, text] of each item
    changes,    \* server: the changes made, of each kind
    store,      \* the page's redux store
    up,         \* requests on their way to the server
    down,       \* answers and pushes on their way to the page
    sent        \* how many requests were sent

vars == <<agenda, changes, store, up, down, sent>>

Live == {i \in Items : agenda[i].live}
Types == {"combined", "events", "planning"}

\* /agenda/search: what is on the day or later, by its first day.
Matches(q, i) ==
    /\ agenda[i].live
    /\ q.type = "events" => i \in Events
    /\ q.type = "planning" => i \notin Events
    /\ IF Bookmarks THEN agenda[i].watch \/ agenda[i].cwatch
       ELSE IF q.featured THEN i \in Featured /\ q.date \in agenda[i].days
       ELSE \E d \in agenda[i].days : d >= q.date
Before(i, j) ==
    LET a == Min(agenda[i].days)  b == Min(agenda[j].days) IN a < b \/ (a = b /\ i < j)
Results(q) == SetToSortSeq({i \in Items : Matches(q, i)}, Before)
Cut(list, from) == SubSeq(list, from + 1, Min({from + PageSize, Len(list)}))

-----------------------------------------------------------------------------
(* Reducers: functions of the store. *)

EmptyStore ==
    [date |-> 1, type |-> "combined", featuredOnly |-> FALSE, sorted |-> FALSE,
     items |-> <<>>, known |-> <<>>, groups |-> <<>>, from |-> 0, total |-> None,
     isLoading |-> FALSE, newItems |-> <<>>, preview |-> None, open |-> None,
     wire |-> <<>>]

Known(s) == DOMAIN s.known
Learn(known, data) == [j \in DOMAIN known \cup DOMAIN data |-> IF j \in DOMAIN data THEN data[j] ELSE known[j]]
QueryItems(s) == [s EXCEPT !.isLoading = TRUE, !.total = None]

RecieveItems(s, m) ==
    [s EXCEPT !.items = m.ids, !.known = Learn(s.known, m.data), !.from = Len(m.ids),
              !.groups = <<>>, !.isLoading = FALSE, !.total = m.total, !.newItems = <<>>]
\* STORE_ITEMS, of the related items of a preview: they take the list's place.
StoreItems(s, m) == [s EXCEPT !.items = m.ids, !.known = Learn(s.known, m.data)]
ReceiveItem(s, m) == [s EXCEPT !.known = Learn(s.known, m.data)]
\* Mutant: the next page starts after the items that are listed, known or not.
RecieveNextTwice(s, m) ==
    [s EXCEPT !.items = s.items \o m.ids, !.known = Learn(m.data, s.known),
              !.from = @ + PageSize + 1, !.isLoading = FALSE]

\* What is known keeps its data; an item is listed once.
RecieveNextItems(s, m) ==
    [s EXCEPT !.items = s.items \o SelectSeq(m.ids, LAMBDA i : i \notin Range(s.items)),
              !.known = Learn(m.data, s.known),
              !.from = @ + Len(m.ids), !.isLoading = FALSE]

\* setListGroupsAndLoadHiddenItems: from the items of the answer and the search of
\* the store as it is now.  A day's rows are what happens on it; what began before
\* is hidden, unless only featured stories are asked for.
MinDay(s) == IF Bookmarks THEN 1 ELSE s.date
GroupItems(s, m) ==
    LET ids == Range(m.ids)
        On(d) == {i \in ids : d \in m.data[i].days}
        Hidden(d) == IF s.featuredOnly THEN {} ELSE {i \in On(d) : d # Min(m.data[i].days)}
    IN  IF s.sorted THEN 0 :> [items |-> ids, hidden |-> {}]
        ELSE [d \in {e \in Days : e >= MinDay(s) /\ On(e) # {}} |->
                [items |-> On(d) \ Hidden(d), hidden |-> Hidden(d)]]
AddItemsToListGroups(s, groups) ==
    LET G(g, d) == IF d \in DOMAIN g THEN g[d] ELSE [items |-> {}, hidden |-> {}]
    IN  [s EXCEPT !.groups = [d \in DOMAIN s.groups \cup DOMAIN groups |->
            [items |-> G(s.groups, d).items \cup G(groups, d).items,
             hidden |-> G(s.groups, d).hidden \cup G(groups, d).hidden]]]

\* UPDATE_ITEM: the data of a known item; a killed one leaves items and itemsById.
UpdateItem(s, i, e) ==
    IF i \notin Known(s) THEN s
    ELSE IF e.live THEN [s EXCEPT !.known[i] = e]
    ELSE [s EXCEPT !.known = Restrict(s.known, Known(s) \ {i}),
                   !.items = SelectSeq(@, LAMBDA j : j # i)]
SetNewItem(s, i) ==
    IF i \in Known(s) THEN s ELSE [s EXCEPT !.newItems = Append(@, i)]

WatchEvents(s, i) ==
    IF i \in Known(s) THEN [s EXCEPT !.known[i].watch = TRUE, !.known[i].cwatch = FALSE] ELSE s
\* Of an unknown item the reducer makes one that has watches and nothing else.
Hollow == [live |-> TRUE, days |-> {}, covs |-> 0, watch |-> FALSE, cwatch |-> FALSE, text |-> 0]
StopWatchingEvents(s, i) ==
    [s EXCEPT !.known = [j \in Known(s) \cup {i} |->
        IF j \notin Known(s) THEN Hollow
        ELSE IF j = i THEN [s.known[j] EXCEPT !.watch = FALSE] ELSE s.known[j]]]
WatchCoverage(s, i, on) ==
    IF i \in Known(s) /\ s.known[i].covs > 0 THEN [s EXCEPT !.known[i].cwatch = on] ELSE s

\* SELECT_DATE also closes the preview.
SelectDateStore(s, d) == [s EXCEPT !.date = d, !.preview = None]
ItemToOpen(s) == IF s.open \in Known(s) THEN s.open ELSE None
OpenItemDetails(s, i) == [s EXCEPT !.open = i]

-----------------------------------------------------------------------------
(* What the page shows, and so what the reader can do. *)

Rows(s) == UNION {s.groups[d].items \cup s.groups[d].hidden : d \in DOMAIN s.groups}
\* AgendaApp.renderPageContent: the details of an item take the list's place.
Shown(s) == IF ItemToOpen(s) # None THEN "item" ELSE "list"
Controls(s) ==
    {c \in {"date", "featured", "type", "sort", "refresh"} :
        /\ c \in {"date", "featured", "type"} => ~ Bookmarks
        /\ c = "featured" => s.type # "events"
        /\ c = "refresh" => s.newItems # <<>>}
CanDo(act) == act \in Acts /\ (act \in {"date", "featured", "type", "sort", "refresh"} =>
                                Shown(store) = "list" /\ act \in Controls(store))
\* A row is drawn from itemsById, which has to have it.
Drawn(s) == Rows(s) \cap Known(s)
Watchable(s, i) ==
    /\ ~ s.known[i].watch
    /\ Bookmarks => ~ s.known[i].cwatch

-----------------------------------------------------------------------------
(* Requests.  The search is read from the store once the reducers have run. *)

SearchParams(s) ==
    [date |-> s.date, type |-> s.type,
     featured |-> s.featuredOnly /\ ~ Bookmarks /\ s.type # "events"]
Request(kind, s, from, i) == [kind |-> kind, q |-> SearchParams(s), from |-> from, item |-> i]
Send(reqs) ==
    /\ sent + Len(reqs) <= MaxRequests
    /\ up' = up \o reqs /\ sent' = sent + Len(reqs)
FetchItems(s) == <<Request("search", QueryItems(s), 0, None)>>
FetchItem(i) == <<Request("item", store, 0, i)>>
\* fetchWireItemsForAgenda: if a coverage has been delivered.
FetchWire(s, i) ==
    IF i \in Known(s) /\ s.known[i].text > 0 THEN <<Request("wire", s, 0, i)>> ELSE <<>>
\* The preview's lists of related items fetch them when they are first shown.
FetchRelated(s, i) ==
    IF i \in Known(s) /\ Related[i] # {} THEN <<Request("related", s, 0, i)>> ELSE <<>>

Init ==
    /\ agenda = Agenda0 /\ changes = [k \in DOMAIN MaxChanges |-> 0]
    /\ store = QueryItems(EmptyStore)
    /\ up = FetchItems(EmptyStore) /\ sent = 1 /\ down = <<>>

-----------------------------------------------------------------------------
(* The server. *)

Changes(kind) ==
    /\ changes[kind] < MaxChanges[kind]
    /\ changes' = [changes EXCEPT ![kind] = @ + 1]
Push(i, e) == down' = Append(down, [kind |-> "new_item", item |-> i, entry |-> e])

Publish(i) ==
    /\ i \notin Live /\ agenda[i].days # {}
    /\ agenda' = [agenda EXCEPT ![i].live = TRUE]
    /\ Push(i, agenda'[i]) /\ Changes("publish")
    /\ UNCHANGED <<store, up, sent>>

\* A coverage on another day makes the item happen on that day, too.
AddCoverage(i, d) ==
    /\ i \in Live /\ d > Min(agenda[i].days)
    /\ agenda' = [agenda EXCEPT ![i].covs = @ + 1, ![i].days = @ \cup {d}]
    /\ Push(i, agenda'[i]) /\ Changes("cover")
    /\ UNCHANGED <<store, up, sent>>

Kill(i) ==
    /\ i \in Live
    /\ agenda' = [agenda EXCEPT ![i].live = FALSE, ![i].days = {}]
    /\ Push(i, [agenda[i] EXCEPT !.live = FALSE]) /\ Changes("kill")
    /\ UNCHANGED <<store, up, sent>>

\* The story of a coverage is corrected; the wire item is pushed.
CorrectText(i) ==
    /\ i \in Live /\ agenda[i].text > 0
    /\ agenda' = [agenda EXCEPT ![i].text = @ + 1]
    /\ down' = Append(down, [kind |-> "text", item |-> i]) /\ Changes("text")
    /\ UNCHANGED <<store, up, sent>>

Found(kind, ids, total) ==
    [kind |-> kind, ids |-> ids, data |-> [i \in Range(ids) |-> agenda[i]], total |-> total]
\* What the server does with a request, and answers.
Handled(r) ==
    LET W == [watch |-> [agenda[r.item] EXCEPT !.watch = TRUE, !.cwatch = FALSE],
              unwatch |-> IF Bookmarks /\ ~ agenda[r.item].watch
                          THEN [agenda[r.item] EXCEPT !.cwatch = FALSE]
                          ELSE [agenda[r.item] EXCEPT !.watch = FALSE],
              cwatch |-> [agenda[r.item] EXCEPT !.cwatch = TRUE],
              cunwatch |-> [agenda[r.item] EXCEPT !.cwatch = FALSE]]
    IN  W[r.kind]
Refused(r) == r.kind \in {"cwatch", "cunwatch"} /\ agenda[r.item].watch
AnswerTo(r) ==
    LET list == Results(r.q)
    IN  CASE r.kind \in {"search", "more"} -> Found(r.kind, Cut(list, r.from), Len(list))
          [] r.kind = "item" -> Found(r.kind, SetToSeq({r.item} \cap Live), 1)
          [] r.kind = "related" -> Found(r.kind, SetToSeq(Related[r.item] \cap Live), 1)
          [] r.kind = "wire" -> [kind |-> "wire", item |-> r.item, text |-> agenda[r.item].text]
          [] OTHER -> [kind |-> r.kind, item |-> r.item]

Answer(k) ==
    /\ AnyOrder \/ k = 1
    /\ up' = RemoveAt(up, k)
    /\ LET r == up[k]
       IN  IF r.kind \in {"watch", "unwatch", "cwatch", "cunwatch"}
           THEN IF Refused(r) THEN UNCHANGED <<agenda, down>>
                ELSE /\ agenda' = [agenda EXCEPT ![r.item] = Handled(r)]
                     /\ down' = Append(down, AnswerTo(r))
           ELSE down' = Append(down, AnswerTo(r)) /\ UNCHANGED agenda
    /\ UNCHANGED <<changes, store, sent>>

\* Only a failed search has its error stored; a page that fails leaves isLoading.
Fail(k) ==
    /\ MayFail /\ (AnyOrder \/ k = 1)
    /\ up' = RemoveAt(up, k)
    /\ store' = IF up[k].kind = "search" THEN [store EXCEPT !.isLoading = FALSE] ELSE store
    /\ UNCHANGED <<agenda, changes, down, sent>>

-----------------------------------------------------------------------------
(* Messages reach the page. *)

Takes(k, kind) == /\ AnyOrder \/ k = 1
                  /\ down[k].kind = kind /\ down' = RemoveAt(down, k)
                  /\ UNCHANGED <<agenda, changes>>

ReceiveSearch(k) ==
    /\ Takes(k, "search")
    /\ LET s == RecieveItems(store, down[k])
       IN  store' = [s EXCEPT !.groups = GroupItems(s, down[k])]
    /\ UNCHANGED <<up, sent>>
ReceiveMore(k) ==
    /\ Takes(k, "more")
    /\ LET s == RecieveNextItems(store, down[k])
       IN  store' = AddItemsToListGroups(s, GroupItems(s, down[k]))
    /\ UNCHANGED <<up, sent>>
ReceiveOne(k) == Takes(k, "item") /\ store' = ReceiveItem(store, down[k]) /\ UNCHANGED <<up, sent>>
ReceiveRelated(k) == Takes(k, "related") /\ store' = StoreItems(store, down[k]) /\ UNCHANGED <<up, sent>>
ReceiveWire(k) ==
    /\ Takes(k, "wire")
    /\ store' = [store EXCEPT !.wire = <<down[k].item, down[k].text>>]
    /\ UNCHANGED <<up, sent>>

\* The page of the watched items is read again when one is watched no more.
Reread(kind) == Bookmarks /\ kind \in {"unwatch", "cunwatch"}
\* Watching is told to the store.
ReceiveWatch(k) ==
    /\ \E kind \in {"watch", "unwatch", "cwatch", "cunwatch"} : Takes(k, kind)
    /\ LET i == down[k].item
           s == CASE down[k].kind = "watch" -> WatchEvents(store, i)
                  [] down[k].kind = "cwatch" -> WatchCoverage(store, i, TRUE)
                  [] down[k].kind = "cunwatch" -> WatchCoverage(store, i, FALSE)
                  [] OTHER -> IF ~ Bookmarks THEN StopWatchingEvents(store, i)
                              ELSE IF store.preview = i THEN [store EXCEPT !.preview = None] ELSE store
       IN  IF Reread(down[k].kind)
           THEN store' = QueryItems(s) /\ Send(FetchItems(s))
           ELSE store' = s /\ UNCHANGED <<up, sent>>

\* setAndUpdateNewItems: of an item known with another number of coverages the list
\* is read again; else the item is updated, and an event's planning items fetched.
Pushed(s, i, e) ==
    LET plans == IF i \in Events THEN SetToSeq(Related[i]) ELSE <<>>
    IN  IF i \in Known(s) /\ s.known[i].covs # e.covs
        THEN [store |-> QueryItems(s), reqs |-> FetchItems(s)]
        ELSE [store |-> UpdateItem(s, i, e),
              reqs |-> [n \in DOMAIN plans |-> FetchItem(plans[n])[1]]]
HandleNewItem(k) ==
    /\ Takes(k, "new_item")
    /\ LET i == down[k].item  e == down[k].entry
           p == Pushed(store, i, e)
       IN  /\ store' = IF e.live THEN SetNewItem(p.store, i) ELSE p.store
           /\ Send(p.reqs)

\* A pushed wire item: `item !== 'text'` compares the item, not its type, and is
\* always so, so the story of the previewed item is never fetched.
HandleText(k) == Takes(k, "text") /\ UNCHANGED <<store, up, sent>>

-----------------------------------------------------------------------------
(* The reader. *)

Search(act, s) ==
    /\ CanDo(act) /\ (Waits => up = <<>> /\ down = <<>>)
    /\ store' = QueryItems(s) /\ Send(FetchItems(s))
    /\ UNCHANGED <<agenda, changes, down>>
SelectDate(d) == d # store.date /\ Search("date", SelectDateStore(store, d))
ToggleFeaturedFilter == Search("featured", [store EXCEPT !.featuredOnly = ~ @])
\* toggleDropdownFilter closes the preview.
SetItemTypeFilter(t) == t # store.type /\ Search("type", [store EXCEPT !.type = t, !.preview = None])
SetSortQuery == Search("sort", [store EXCEPT !.sorted = ~ @])
Refresh == Search("refresh", store)

FetchMoreItems ==
    /\ "more" \in Acts /\ Shown(store) = "list" /\ ~ store.isLoading
    /\ Len(store.items) < Min({Limit, IF store.total = None THEN 0 ELSE store.total})
    /\ store' = [store EXCEPT !.isLoading = TRUE]
    /\ Send(<<Request("more", store, store.from, None)>>)
    /\ UNCHANGED <<agenda, changes, down>>

PreviewItem(i) ==
    /\ "preview" \in Acts /\ Shown(store) = "list" /\ i \in Drawn(store)
    /\ store' = [store EXCEPT !.preview = IF @ = i THEN None ELSE i]
    /\ Send(IF store.preview = i THEN <<>> ELSE FetchWire(store, i) \o FetchRelated(store, i))
    /\ UNCHANGED <<agenda, changes, down>>
OpenItem(i) ==
    /\ "open" \in Acts /\ Shown(store) = "list" /\ i \in Drawn(store)
    /\ store' = OpenItemDetails(store, i)
    /\ Send(FetchWire(store, i) \o FetchRelated(store, i))
    /\ UNCHANGED <<agenda, changes, down>>
CloseItem ==
    /\ Shown(store) = "item"
    /\ store' = OpenItemDetails(store, None)
    /\ UNCHANGED <<agenda, changes, up, down, sent>>

Ask(act, i, kind) ==
    /\ act \in Acts /\ Shown(store) = "list" /\ i \in Drawn(store)
    /\ Send(<<Request(kind, store, 0, i)>>)
    /\ UNCHANGED <<agenda, changes, store, down>>
Watch(i) == i \in Known(store) /\ Watchable(store, i) /\ Ask("watch", i, "watch")
StopWatching(i) == i \in Known(store) /\ ~ Watchable(store, i) /\ Ask("watch", i, "unwatch")
\* The coverages' own actions are offered while the item itself is not watched.
WatchOneCoverage(i) ==
    /\ i \in Known(store) /\ ~ store.known[i].watch /\ store.known[i].covs > 0
    /\ Ask("coverage", i, IF store.known[i].cwatch THEN "cunwatch" ELSE "cwatch")

Server ==
    \/ \E i \in Items : Publish(i) \/ Kill(i) \/ CorrectText(i) \/ \E d \in Days : AddCoverage(i, d)
    \/ \E k \in DOMAIN up : Answer(k) \/ Fail(k)
Deliver ==
    \E k \in DOMAIN down :
        \/ ReceiveSearch(k) \/ ReceiveMore(k) \/ ReceiveOne(k) \/ ReceiveRelated(k)
        \/ ReceiveWire(k) \/ ReceiveWatch(k) \/ HandleNewItem(k) \/ HandleText(k)
Reader ==
    \/ \E d \in Days : SelectDate(d)
    \/ ToggleFeaturedFilter \/ SetSortQuery \/ Refresh \/ FetchMoreItems \/ CloseItem
    \/ \E t \in Types : SetItemTypeFilter(t)
    \/ \E i \in Items : \/ PreviewItem(i) \/ OpenItem(i)
                        \/ Watch(i) \/ StopWatching(i) \/ WatchOneCoverage(i)

Next == Server \/ Deliver \/ Reader
Spec == Init /\ [][Next]_vars

-----------------------------------------------------------------------------
Settled == up = <<>> /\ down = <<>>

\* The store keeps its shape (src/assets/agenda/reducers.ts).
TypeOK ==
    /\ store.date \in Days /\ store.type \in Types
    /\ {store.featuredOnly, store.sorted, store.isLoading} \subseteq BOOLEAN
    /\ Range(store.items) \cup Range(store.newItems) \cup Known(store) \cup Rows(store) \subseteq Items
    /\ IsInjective(store.items) /\ store.from \in Nat /\ store.total \in Nat \cup {None}
    /\ DOMAIN store.groups \subseteq Days \cup {0}
    /\ {store.preview, store.open} \subseteq Items \cup {None}

\* When messages keep their order and all have come, each row stands under the days
\* on which the server has it, whatever was searched, paged and pushed meanwhile:
\* the groups are computed from one answer and the parameters of another moment.
RowsUnderTheirDays ==
    (Settled /\ ~ store.sorted) =>
        \A i \in Rows(store), d \in Days :
            d >= MinDay(store) /\ d \in agenda[i].days
                <=> d \in DOMAIN store.groups /\ i \in store.groups[d].items \cup store.groups[d].hidden

\* Pages are cut by offset from results that grow.  When messages keep their order
\* and the last page has come, every result has a row or is in the badge of new items.
NoneSkipped ==
    (Settled /\ ~ store.isLoading) =>
        LET list == Results(SearchParams(store))
        IN  store.from >= Len(list) => Range(list) \subseteq Rows(store) \cup Range(store.newItems)

\* When messages keep their order and all have come, the page agrees with the server
\* on what the user watches, although pushed items and answers carry it as well.
WatchAgrees ==
    Settled => \A i \in Drawn(store) :
        agenda[i].live => /\ store.known[i].watch = agenda[i].watch
                          /\ store.known[i].cwatch = agenda[i].cwatch

=============================================================================
