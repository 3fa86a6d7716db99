----------------------------- MODULE FilterPanel -----------------------------
(***************************************************************************)
(* The groups of check boxes in the filter panel (FiltersTab, FilterGroup) *)
(* and the pages they are drawn in (WithPagination).  A list of boxes is   *)
(* computed when it is mounted and not when the buckets change.            *)
(***************************************************************************)
EXTENDS Naturals, Sequences, FiniteSetsExt, SequencesExt

CONSTANTS
    Groups,
    Keys,      \* the keys of all buckets, in the order they are sorted in (numbers)
    Answers,   \* what a search may return: [Groups -> SUBSET Keys]
    Filters,   \* the filters a topic may bring: [Groups -> SUBSET Keys]
    Single,    \* groups in which one box is checked at a time
    Terms,     \* what can be searched for in a group, "" (nothing) among them
    Matches,   \* the keys a term is in: [Terms -> SUBSET Keys]
    Threshold, \* searchbar_threshold_value
    Limit,     \* LIMIT: boxes before "Show more"
    PageSize,  \* boxes in a page
    None,
    MayFail, Waits, \* searches may fail; the user waits for the answer
    MaxFlight  \* bound: searches on their way

NoFilter == [g \in Groups |-> {}]

PanelAssumption ==
    /\ Keys \subseteq Nat /\ Answers \subseteq [Groups -> SUBSET Keys]
    /\ Filters \subseteq [Groups -> SUBSET Keys] /\ NoFilter \in Filters
    /\ Single \subseteq Groups
    /\ "" \in Terms /\ Matches \in [Terms -> SUBSET Keys] /\ Matches[""] = Keys
    /\ {Threshold, Limit, PageSize, MaxFlight} \subseteq Nat \ {0}
    /\ MayFail \in BOOLEAN /\ Waits \in BOOLEAN

VARIABLES
    loadingAggregations, aggregations, \* the store: loading, and the buckets by group or None
    flight,       \* how many searches are on their way
    activeFilter, \* the store's filter
    chosen,       \* the panel's own copy of it, with the boxes checked since
    openGroup,    \* the group that shows all boxes of its page, or None
    searchTerm,   \* by group
    lists         \* by group: the mounted WithPagination [items, pages, page], or None

vars == <<loadingAggregations, aggregations, flight, activeFilter, chosen, openGroup, searchTerm, lists>>
----------------------------------------------------------------------------
(***************************************************************************)
(* The buttons of the pages.                                               *)
(***************************************************************************)
Dots == 0

Around(current, total) ==
    LET from == Max({1, current - 2})
        to == Min({total, current + 2})
    IN  [i \in 1 .. (to - from + 1) |-> from + i - 1]

\* getPagination: the first page, then dots, always; dots before the last page only over a gap.
getPagination(current, total) ==
    IF current = 0 \/ total = 0 \/ current > total THEN <<>>
    ELSE LET around == Around(current, total)
             start == IF Head(around) = 1 THEN <<>> ELSE <<1, Dots>>
             end == IF Last(around) = total THEN <<>>
                    ELSE IF Last(around) = total - 1 THEN <<total>> ELSE <<Dots, total>>
         IN  start \o around \o end

\* The pages that a click leads to, the arrows included.
Offered(list) ==
    IF list.pages <= 1 THEN {}
    ELSE (ToSet(getPagination(list.page, list.pages)) \ {Dots})
            \cup (IF list.page > 1 THEN {list.page - 1} ELSE {})
            \cup (IF list.page # list.pages THEN {list.page + 1} ELSE {})
----------------------------------------------------------------------------
(***************************************************************************)
(* The boxes of a group.                                                   *)
(***************************************************************************)
\* The buckets and the values in force, without repetition, sorted.
allBuckets(buckets, filter) ==
    LET all == buckets \cup filter IN
    [i \in 1 .. Cardinality(all) |-> CHOOSE k \in all : Cardinality({m \in all : m < k}) = i - 1]

\* The buckets that contain what is searched for.
Matching(buckets, filter, term) == SelectSeq(allBuckets(buckets, filter), LAMBDA k : k \in Matches[term])

\* The page of a list, what getItems returns.
getItems(s, page) == SubSeq(s, (page - 1) * PageSize + 1, Min({Len(s), page * PageSize}))

PageCount(n) == (n + PageSize - 1) \div PageSize

\* WithPagination as it is mounted; FilterGroup passes it the sorted buckets.
Mounted(s) == [items |-> getItems(s, 1), pages |-> PageCount(Len(s)), page |-> 1]

Shown(g) == lists[g] # None

HasSearchBar(g) == Shown(g) /\ Len(allBuckets(aggregations[g], chosen[g])) > Threshold

\* Five boxes of the page and "Show more", or all of them.
getVisibleBuckets(g) ==
    LET items == lists[g].items IN
    IF Len(items) > Limit /\ openGroup # g THEN SubSeq(items, 1, Limit) ELSE items

\* The answer mounts what was hidden while it was loading.
Remounted(a, filter) ==
    [g \in Groups |-> IF Shown(g) THEN lists[g] ELSE Mounted(Matching(a[g], filter[g], searchTerm[g]))]

Hidden == [g \in Groups |-> None]

toggleValue(values, v) == IF v \in values THEN values \ {v} ELSE values \cup {v}
----------------------------------------------------------------------------
Init ==
    /\ loadingAggregations = TRUE /\ aggregations = None /\ flight = 1
    /\ activeFilter \in Filters /\ chosen = activeFilter
    /\ openGroup = None
    /\ searchTerm = [g \in Groups |-> ""]
    /\ lists = Hidden

UserMay == Waits => flight = 0

\* LOADING_AGGREGATIONS replaces the lists by a skeleton; what is searched for stays.
fetchItems ==
    /\ flight < MaxFlight
    /\ flight' = flight + 1
    /\ loadingAggregations' = TRUE
    /\ lists' = Hidden
    /\ UNCHANGED <<aggregations, openGroup, searchTerm>>

updateFilter(g, k) ==
    LET toggled == toggleValue(chosen[g], k) IN
    [chosen EXCEPT ![g] = IF toggled # {} /\ g \in Single THEN toggled \cap {k} ELSE toggled]

FilterItem ==
    \E g \in Groups :
        /\ Shown(g)
        /\ \E k \in ToSet(getVisibleBuckets(g)) : chosen' = updateFilter(g, k)
        /\ UNCHANGED <<loadingAggregations, aggregations, flight, activeFilter, openGroup, searchTerm, lists>>

toggleGroup ==
    \E g \in Groups :
        /\ Shown(g) /\ Len(lists[g].items) > Limit
        /\ openGroup' = (IF openGroup = g THEN None ELSE g)
        /\ UNCHANGED <<loadingAggregations, aggregations, flight, activeFilter, chosen, searchTerm, lists>>

\* The list is keyed by the term: it is mounted anew.
setSearchTerm ==
    \E g \in Groups : \E t \in Terms \ {searchTerm[g]} :
        /\ HasSearchBar(g)
        /\ searchTerm' = [searchTerm EXCEPT ![g] = t]
        /\ lists' = [lists EXCEPT ![g] = Mounted(Matching(aggregations[g], chosen[g], t))]
        /\ UNCHANGED <<loadingAggregations, aggregations, flight, activeFilter, chosen, openGroup>>

\* The page comes from the buckets of now, the number of pages from those of the mount.
switchPage ==
    \E g \in Groups :
        /\ Shown(g)
        /\ \E page \in Offered(lists[g]) :
              lists' = [lists EXCEPT ![g] =
                  [@ EXCEPT !.page = page,
                            !.items = getItems(Matching(aggregations[g], chosen[g], searchTerm[g]), page)]]
        /\ UNCHANGED <<loadingAggregations, aggregations, flight, activeFilter, chosen, openGroup, searchTerm>>

Footer == chosen # NoFilter

search ==
    /\ UserMay /\ Footer
    /\ fetchItems
    /\ activeFilter' = chosen
    /\ UNCHANGED chosen

reset ==
    /\ UserMay /\ Footer
    /\ fetchItems
    /\ activeFilter' = NoFilter /\ chosen' = NoFilter

\* A topic, or the browser's history, brings another filter; the panel takes it over.
OtherSearch ==
    /\ UserMay
    /\ \E f \in Filters :
          /\ activeFilter' = f
          /\ chosen' = (IF f # activeFilter THEN f ELSE chosen)
    /\ fetchItems

recieveAggs ==
    /\ flight > 0
    /\ flight' = flight - 1
    /\ aggregations' \in Answers
    /\ loadingAggregations' = FALSE
    /\ lists' = Remounted(aggregations', chosen)
    /\ UNCHANGED <<activeFilter, chosen, openGroup, searchTerm>>

\* The error is told; the skeletons stay.
SearchFails ==
    /\ MayFail
    /\ flight > 0
    /\ flight' = flight - 1
    /\ UNCHANGED <<loadingAggregations, aggregations, activeFilter, chosen, openGroup, searchTerm, lists>>

Next ==
    \/ FilterItem \/ toggleGroup \/ setSearchTerm \/ switchPage
    \/ search \/ reset \/ OtherSearch \/ recieveAggs \/ SearchFails

\* Searches are answered.
Spec == Init /\ [][Next]_vars /\ WF_vars(recieveAggs)
----------------------------------------------------------------------------
MaxItems == Cardinality(Keys)

\* The type invariant; a list is on one of its pages.
TypeOK ==
    /\ loadingAggregations \in BOOLEAN
    /\ aggregations \in Answers \cup {None}
    /\ flight \in 0 .. MaxFlight
    /\ {activeFilter, chosen} \subseteq [Groups -> SUBSET Keys]
    /\ openGroup \in Groups \cup {None}
    /\ searchTerm \in [Groups -> Terms]
    /\ \A g \in Groups :
          Shown(g) => /\ ToSet(lists[g].items) \subseteq Keys
                      /\ Len(lists[g].items) <= PageSize
                      /\ lists[g].pages <= MaxItems
                      /\ lists[g].page \in 1 .. Max({1, lists[g].pages})

\* Once the searches are answered, every bucket of the last answer, and every value that is
\* chosen, can be got at: in the list that is drawn or by a page of it.  The list and the
\* number of its pages are those of the mount (componentDidMount of WithPagination).
EveryBucketReachable ==
    flight = 0 /\ ~loadingAggregations =>
        \A g \in Groups :
            LET wanted == Matching(aggregations[g], chosen[g], searchTerm[g]) IN
            ToSet(wanted) \subseteq ToSet(lists[g].items)
                                \cup UNION {ToSet(getItems(wanted, p)) : p \in 1 .. lists[g].pages}

\* However the user pages, checks and searches, no box is drawn that was not found, and a
\* box that is checked in a group of single values is the only one.
OnlyFoundDrawn ==
    \A g \in Groups :
        /\ Shown(g) => ToSet(lists[g].items) \subseteq Matches[searchTerm[g]]
        /\ g \in Single /\ (\A f \in Filters : Cardinality(f[g]) <= 1) => Cardinality(chosen[g]) <= 1

=============================================================================
