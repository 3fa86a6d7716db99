------------------------------ MODULE SearchParams ------------------------------
(* What the wire page is searching for: the part of the store that becomes the
   query, the URL and the browser's history that are to say the same, and the
   panels in which the user composes it (assets/search, the search panels of
   assets/wire and layout/components/SearchBase).

   The network is not here: shown is the search the results on the page were
   asked for (WireResults has the answers). A value the store does not have is
   None; the filters, the dates and the advanced search are sets of pairs, as
   they are kept by field. An entry of the history has a URL and the state that
   was pushed with it, which is not always the state the URL is of. *)
EXTENDS Integers, Sequences, FiniteSets, SequencesExt, TLC

CONSTANTS Queries, Navs, Products, Sorts, Words, None,
          Filters,      \* the pairs of a field and a value that can be filtered by
          Singles,      \* the fields that take one value
          Known,        \* the fields that are filter groups of the page
          Dates,        \* what of the dates is used: "last", "custom", "from", "to"
          Boxes,        \* the boxes used of the advanced search: "all", "any", "exclude"
          AdvFields,    \* the fields an advanced search can look in
          Topics, TopicDef, Folders,
          MultiSelect,  \* several navigations may be selected at once
          InitialURLs,
          Acts,         \* what the user does in this run
          MaxHist       \* the entries the browser keeps

HistAssumption == MaxHist \in Nat \ {0}
TopicAssumption == DOMAIN TopicDef = Topics

VARIABLES store,  \* search.activeQuery, activeNavigation, ...
          hist,   \* the entries of the browser's history
          pos,    \* the entry the browser is at
          shown,  \* the search the results are of
          panel   \* what the panels keep to themselves
vars == <<store, hist, pos, shown, panel>>

Range1(pairs, f) == {p[2] : p \in {q \in pairs : q[1] = f}}
Without(pairs, f) == {p \in pairs : p[1] # f}

-------------------------------------------------------------------------------
(* The reducer and the selectors. *)
getAdvancedSearchFields == {<<"fields", f>> : f \in AdvFields}
INITIAL_STATE == [topic |-> None, nav |-> {}, query |-> None, filter |-> {}, created |-> {},
                  product |-> None, advanced |-> getAdvancedSearchFields, sort |-> None]
resetSearchParams(s) == INITIAL_STATE

hasKeywords(advanced) == \E p \in advanced : p[1] \in Boxes
searchParamsSelector(s) ==
    [query |-> s.query, sortQuery |-> s.sort, created |-> s.created, navigation |-> s.nav, product |-> s.product,
     filter |-> s.filter, advanced |-> IF hasKeywords(s.advanced) THEN s.advanced ELSE {}]
activeTopicSelector(s) == IF s.topic \in Topics THEN s.topic ELSE None

(* A topic keeps what the search had when it was saved. *)
TopicOf(params) ==
    LET given(v) == IF v = {} THEN None ELSE v
    IN [query |-> params.query, created |-> given(params.created), navigation |-> params.navigation,
        filter |-> given(params.filter), product |-> params.product, advanced |-> given(params.advanced)]

orEmpty(v) == IF v = None THEN {} ELSE v
(* The parameters always have all of their keys, if only undefined ones, so that
   without a topic neither of the two cases in which nothing is to be saved is
   ever met. *)
showSaveTopicSelector(s, topic) ==
    LET p == searchParamsSelector(s)
    IN topic # None => \/ p.query # topic.query
                       \/ p.created # orEmpty(topic.created)
                       \/ p.filter # orEmpty(topic.filter)
                       \/ p.advanced # orEmpty(topic.advanced)
                       \/ p.navigation # topic.navigation
searchParamsUpdated(p) ==
    p.query # None \/ p.navigation # {} \/ p.product # None \/ p.advanced # {} \/ p.created # {} \/ p.filter # {}
getSingleFilterValue(s) ==
    \E f \in {"genre", "subject"} : (\A p \in s.filter : p[1] = f) /\ Cardinality(s.filter) = 1

(* What the parameters lack stays as it is. *)
setParams(s, p) ==
    [s EXCEPT !.created = IF p.created # None THEN p.created ELSE @,
              !.query = IF p.query # None THEN p.query ELSE @,
              !.nav = IF p.navigation \notin {None, {}} THEN p.navigation ELSE @,
              !.filter = IF p.filter # None THEN p.filter ELSE @,
              !.product = IF p.product # None THEN p.product ELSE @,
              !.advanced = IF p.advanced # None THEN p.advanced ELSE @]

-------------------------------------------------------------------------------
(* The URL. *)
NoURL == [topic |-> None, q |-> None, created |-> None, navigation |-> None, filter |-> None, product |-> None,
          advanced |-> None, sort |-> None]
(* Empty values are deleted from the URL, unless deleteEmpty is false. *)
updateRouteParams(url, updates, deleteEmpty) ==
    LET value(v) == IF v = {} /\ deleteEmpty THEN None ELSE v
    IN [k \in DOMAIN url |-> IF k \in DOMAIN updates THEN value(updates[k]) ELSE url[k]]
getNavigationUrlParam(navs) == IF navs = {} THEN None ELSE navs

getSearchParams(custom, topic) ==
    [f \in DOMAIN custom |-> IF custom[f] # None THEN custom[f] ELSE IF topic # None THEN topic[f] ELSE None]
(* The sort order of the URL is never read. *)
initParams(url) ==
    LET custom == [query |-> url.q, created |-> url.created, navigation |-> url.navigation, filter |-> url.filter,
                   product |-> url.product, advanced |-> url.advanced]
        s == [INITIAL_STATE EXCEPT !.topic = url.topic]
        topic == IF activeTopicSelector(s) = None THEN None ELSE TopicDef[s.topic]
    IN setParams(s, getSearchParams(custom, topic))

-------------------------------------------------------------------------------
componentDidUpdate(p, s, t) ==
    [p EXCEPT !.filter = IF t.filter # s.filter THEN t.filter ELSE @,
              !.created = IF t.created # s.created THEN t.created ELSE @,
              !.touched = @ \ ((IF t.filter # s.filter THEN {"filter"} ELSE {}) \cup
                               (IF t.created # s.created THEN {"created"} ELSE {}))]
componentWillReceiveProps(p, s, t) ==
    [p EXCEPT !.typed = IF t.query # s.query THEN t.query ELSE @,
              !.touched = IF t.query # s.query THEN @ \ {"query"} ELSE @]
Rendered(p, s, t) == componentWillReceiveProps(componentDidUpdate(p, s, t), s, t)

(* What there is to click on. *)
SearchBase == panel.sidebar
SearchSidebar(tab) == panel.sidebar /\ panel.tab = tab
NavigationTab == IF SearchSidebar("nav") THEN Navs ELSE {}
NavigationTabAll == SearchSidebar("nav") /\ Cardinality(Navs) > 1
TopicsTab == {t \in Topics : SearchSidebar("topics") /\ TopicDef[t].folder \in Folders \cup {None}}
NavCreatedPicker(c) == {x \in {{}, {"last"}, {"custom"}} : x \subseteq Dates} \cup (IF "custom" \in c THEN {c \cup {x} : x \in Dates \cap {"from", "to"}} ELSE {})
FilterGroup(f) == Range1(Filters, f)
Footer == panel.filter # {} \/ panel.created # {} \/ panel.created # store.created

Bar == \/ searchParamsUpdated(searchParamsSelector(store))
       \/ activeTopicSelector(store) # None
       \/ store.query # None
WireApp == /\ Bar
           /\ \/ activeTopicSelector(store) # None
              \/ store.nav # {}
              \/ store.product # None
              \/ getSingleFilterValue(store)
              \/ showSaveTopicSelector(store, None)
SearchResultsBar == Bar /\ (~WireApp \/ panel.tags)
SearchResultsTopicRow == IF SearchResultsBar THEN store.nav ELSE {}
SearchResultsQueryRow == SearchResultsBar /\ store.query # None
SearchResultsAdvancedSearchRow == IF SearchResultsBar THEN searchParamsSelector(store).advanced ELSE {}
getCreatedSearchParamLabel(c) ==
    CASE "to" \in c -> c \cap {"from", "to"}
      [] "from" \in c -> {"from"}
      [] "last" \in c -> {"last"}
      [] OTHER -> {}
(* A filter of no group takes all the tags of this row with it. *)
SearchResultsFiltersRow ==
    IF SearchResultsBar /\ \A p \in store.filter : p[1] \in Known
    THEN store.filter \cup {<<"created", x>> : x \in getCreatedSearchParamLabel(store.created)} ELSE {}

-------------------------------------------------------------------------------
(* Steps. Push(t, updates, deleteEmpty, captured) dispatches, so that the store
   becomes t, and pushes the URL with the state captured. The browser keeps the
   last MaxHist entries. *)
May(act) == act \in Acts
URL == hist[pos].url
(* The state of an entry is kept in the runs that go back to it. *)
Entry(url, state) == [url |-> url, state |-> IF May("back") THEN state ELSE None]
Push(t, updates, deleteEmpty, captured) ==
    /\ store' = t
    /\ hist' = LET h == Append(SubSeq(hist, 1, pos), Entry(updateRouteParams(URL, updates, deleteEmpty), captured))
               IN IF Len(h) > MaxHist THEN Tail(h) ELSE h
    /\ pos' = Len(hist')
Fetch(t) == shown' = searchParamsSelector(t)
Panels(t, p) == panel' = Rendered(p, store, t)

WithQuery(q) == [store EXCEPT !.query = q]
\* Mutant: the URL is forgotten.
setQueryNoURL(q) == Push(WithQuery(q), <<>>, TRUE, WithQuery(q))
setQuery(q) == Push(WithQuery(q), [q |-> q], TRUE, WithQuery(q))
setSortQuery(x) == LET t == [store EXCEPT !.sort = x] IN Push(t, [sort |-> x], TRUE, t)

Selected(n) == CASE n = None -> {}
                 [] n # None /\ MultiSelect -> IF n \in store.nav THEN store.nav \ {n} ELSE store.nav \cup {n}
                 [] OTHER -> IF store.nav = {n} THEN {} ELSE {n}
toggleNavigation(n) ==
    Push([store EXCEPT !.nav = Selected(n)],
         [NoURL EXCEPT !.navigation = getNavigationUrlParam(Selected(n)), !.sort = URL.sort], TRUE, store)

Toggled(fs, f, v) ==
    CASE <<f, v>> \in fs -> fs \ {<<f, v>>}
      [] <<f, v>> \notin fs /\ f \in Singles -> Without(fs, f) \cup {<<f, v>>}
      [] OTHER -> fs \cup {<<f, v>>}
toggleFilter(f, v) ==
    LET fs == Toggled(store.filter, f, v)
    IN Push([store EXCEPT !.filter = fs], [filter |-> fs], FALSE, store)
setCreatedFilter(c) == Push([store EXCEPT !.created = c], [created |-> c], FALSE, store)
updateFilterStateAndURL(fs, c) ==
    Push([store EXCEPT !.filter = fs, !.created = c], [filter |-> fs, created |-> c], FALSE, store)
resetFilter ==
    Push([store EXCEPT !.filter = {}, !.created = {}], [filter |-> None, created |-> None], TRUE, store)

WithAdvanced(ps) == [store EXCEPT !.advanced = ps]
SetAdvanced(ps) == Push(WithAdvanced(ps), [advanced |-> ps], TRUE, WithAdvanced(ps))
setAdvancedSearchKeywords(f, ws) == SetAdvanced(Without(store.advanced, f) \cup {<<f, w>> : w \in ws})
ToggledField(f) == IF <<"fields", f>> \in store.advanced THEN store.advanced \ {<<"fields", f>>}
                   ELSE store.advanced \cup {<<"fields", f>>}
CanToggle(f) == Range1(store.advanced, "fields") # {f}
toggleAdvancedSearchField(f) == CanToggle(f) /\ SetAdvanced(ToggledField(f))
clearAdvancedSearchParams ==
    LET t == WithAdvanced(getAdvancedSearchFields) IN Push(t, [advanced |-> None], TRUE, t)

resetSearchParamsAndUpdateURL ==
    LET t == resetSearchParams(store) IN Push(t, [NoURL EXCEPT !.sort = URL.sort], TRUE, t)
Loaded(t) ==
    LET next == IF store.topic = t THEN None ELSE t
        s == [resetSearchParams(store) EXCEPT !.topic = next]
    IN IF next = None THEN s ELSE setParams(s, TopicDef[t])
loadMyTopic(t) ==
    Push(Loaded(t), [NoURL EXCEPT !.topic = Loaded(t).topic, !.product = URL.product, !.sort = URL.sort], TRUE, store)
deselectMyTopic ==
    LET t == [store EXCEPT !.topic = None]
        p == searchParamsSelector(store)
    IN Push(t, [topic |-> None, q |-> p.query, created |-> p.created, filter |-> p.filter, navigation |-> p.navigation,
                product |-> p.product, advanced |-> p.advanced], TRUE, t)

-------------------------------------------------------------------------------
(* What the user does. *)
TypeQuery(q) == /\ May("query") /\ panel.typed # q
                /\ panel' = [panel EXCEPT !.typed = q, !.touched = @ \cup {"query"}]
                /\ UNCHANGED <<store, hist, pos, shown>>
(* SearchBar: submitting and clearing. *)
SearchBar(q) == /\ May("query") /\ q \in {panel.typed, None}
                /\ setQuery(q)
                /\ Fetch(store')
                /\ Panels(store', [panel EXCEPT !.typed = q, !.touched = @ \ {"query"}])
ToggleSidebar == /\ May("panels")
                 /\ panel' = [panel EXCEPT !.sidebar = ~@, !.filter = store.filter, !.created = store.created,
                                           !.touched = @ \ {"filter", "created"}]
                 /\ UNCHANGED <<store, hist, pos, shown>>
ChooseTab(tab) == /\ SearchBase /\ panel.tab # tab /\ May(tab)
                  /\ panel' = [panel EXCEPT !.tab = tab]
                  /\ UNCHANGED <<store, hist, pos, shown>>
ClickNavigation(n) == /\ n \in NavigationTab \/ (n = None /\ NavigationTabAll)
                      /\ May("nav")
                      /\ toggleNavigation(n) /\ Fetch(store') /\ Panels(store', panel)
ClickTopic(t) == /\ t \in TopicsTab /\ May("topics")
                 /\ loadMyTopic(t) /\ Fetch(store') /\ Panels(store', panel)

FiltersTab == SearchSidebar("filters") /\ May("filters")
updateFilter(f, v) == /\ FiltersTab /\ v \in FilterGroup(f)
                      /\ panel' = [panel EXCEPT !.filter = Toggled(@, f, v), !.touched = @ \cup {"filter"}]
                      /\ UNCHANGED <<store, hist, pos, shown>>
setCreatedFilterAndSearch(c) == /\ FiltersTab /\ c \in NavCreatedPicker(panel.created) \ {panel.created}
                                /\ panel' = [panel EXCEPT !.created = c, !.touched = @ \cup {"created"}]
                                /\ UNCHANGED <<store, hist, pos, shown>>
SearchFilters == /\ FiltersTab /\ Footer
                 /\ updateFilterStateAndURL(panel.filter, panel.created)
                 /\ Fetch(store')
                 /\ Panels(store', [panel EXCEPT !.touched = @ \ {"filter", "created"}])
ResetFilters == /\ FiltersTab /\ Footer
                /\ resetFilter
                /\ Fetch(store')
                /\ Panels(store', [panel EXCEPT !.filter = {}, !.created = {}, !.touched = @ \ {"filter", "created"}])

(* What is typed into the advanced panel goes into the store and the URL at
   once; the search is made with its buttons. *)
AdvancedSearchPanel == panel.advanced /\ May("advanced")
toggleAdvancedSearchPanel == /\ May("advanced")
                             /\ panel' = [panel EXCEPT !.advanced = ~@]
                             /\ UNCHANGED <<store, hist, pos, shown>>
TypeKeywords(f, ws) == /\ AdvancedSearchPanel /\ Range1(store.advanced, f) # ws
                       /\ setAdvancedSearchKeywords(f, ws)
                       /\ panel' = [panel EXCEPT !.typing = TRUE] /\ UNCHANGED shown
TickField(f) == /\ AdvancedSearchPanel
                /\ toggleAdvancedSearchField(f)
                /\ panel' = [panel EXCEPT !.typing = TRUE] /\ UNCHANGED shown
SearchAdvanced == /\ AdvancedSearchPanel
                  /\ panel' = [panel EXCEPT !.advanced = FALSE, !.typing = FALSE]
                  /\ Fetch(store) /\ UNCHANGED <<store, hist, pos>>
ClearAdvanced == /\ AdvancedSearchPanel
                 /\ clearAdvancedSearchParams
                 /\ Fetch(store') /\ panel' = [panel EXCEPT !.advanced = FALSE, !.typing = FALSE]

(* The tags of the bar. A click on one searches again, except on those of the
   topic and the navigations. *)
Refresh == Fetch(store') /\ Panels(store', [panel EXCEPT !.typing = FALSE])
TopicTag == /\ May("topictag") /\ SearchResultsBar /\ activeTopicSelector(store) # None
            /\ deselectMyTopic /\ Panels(store', panel) /\ UNCHANGED shown
NavTag(n) == /\ May("navtag") /\ n \in SearchResultsTopicRow
             /\ toggleNavigation(n) /\ Panels(store', panel) /\ UNCHANGED shown
QueryTag == May("tags") /\ SearchResultsQueryRow /\ setQuery(None) /\ Refresh
removeKeywordEntry(f, w) == /\ May("tags") /\ <<f, w>> \in SearchResultsAdvancedSearchRow /\ f # "fields"
                            /\ setAdvancedSearchKeywords(f, Range1(store.advanced, f) \ {w}) /\ Refresh
ClearKeywords == May("tags") /\ SearchResultsAdvancedSearchRow # {} /\ clearAdvancedSearchParams /\ Refresh
FieldTag(f) == /\ May("tags") /\ SearchResultsAdvancedSearchRow # {}
               /\ toggleAdvancedSearchField(f) /\ Refresh
FilterTag(p) == /\ May("tags") /\ p \in SearchResultsFiltersRow
                /\ IF p[1] # "created" THEN toggleFilter(p[1], p[2])
                   ELSE setCreatedFilter(IF p[2] = "last" THEN {} ELSE store.created \ {p[2]})
                /\ Refresh
ClearFiltersTag == May("tags") /\ SearchResultsFiltersRow # {} /\ resetFilter /\ Refresh
SortBy(x) == May("sort") /\ WireApp /\ x # store.sort /\ setSortQuery(x) /\ Refresh
ClearAll == May("clear") /\ WireApp /\ resetSearchParamsAndUpdateURL /\ Refresh
ToggleTags == /\ May("panels") /\ WireApp /\ panel' = [panel EXCEPT !.tags = ~@]
              /\ UNCHANGED <<store, hist, pos, shown>>

(* Back, forward, reload. An entry without a state changes nothing but the URL. *)
onpopstate(i) == /\ May("back") /\ i \in {pos - 1, pos + 1} /\ i \in DOMAIN hist
                 /\ hist[i].state = None => May("start")
                 /\ pos' = i /\ UNCHANGED hist
                 /\ IF hist[i].state = None THEN UNCHANGED <<store, shown, panel>>
                    ELSE store' = hist[i].state /\ Refresh
PanelsOf(s) == [typed |-> s.query, filter |-> s.filter, created |-> s.created, touched |-> {},
                sidebar |-> TRUE, tab |-> "nav", advanced |-> FALSE, typing |-> FALSE, tags |-> TRUE]
Reload == /\ May("reload")
          /\ store' = initParams(URL) /\ Fetch(store') /\ panel' = PanelsOf(store')
          /\ UNCHANGED <<hist, pos>>

Init == \E url \in InitialURLs :
    /\ hist = <<Entry(url, None)>> /\ pos = 1
    /\ store = initParams(url)
    /\ shown = searchParamsSelector(store)
    /\ panel = PanelsOf(store)
Next ==
    \/ \E q \in Queries \cup {None} : TypeQuery(q) \/ SearchBar(q)
    \/ ToggleSidebar
    \/ \E tab \in {"nav", "topics", "filters"} : ChooseTab(tab)
    \/ \E n \in Navs \cup {None} : ClickNavigation(n)
    \/ \E n \in Navs : NavTag(n)
    \/ \E t \in Topics : ClickTopic(t)
    \/ \E p \in Filters : updateFilter(p[1], p[2])
    \/ \E c \in SUBSET Dates : setCreatedFilterAndSearch(c)
    \/ SearchFilters \/ ResetFilters
    \/ toggleAdvancedSearchPanel \/ SearchAdvanced \/ ClearAdvanced
    \/ \E f \in Boxes, ws \in SUBSET Words : TypeKeywords(f, ws)
    \/ \E f \in AdvFields : TickField(f) \/ FieldTag(f)
    \/ TopicTag \/ QueryTag \/ ClearKeywords \/ ClearFiltersTag
    \/ \E f \in Boxes, w \in Words : removeKeywordEntry(f, w)
    \/ \E p \in Filters \cup ({"created"} \X {"last", "from", "to"}) : FilterTag(p)
    \/ \E x \in Sorts \cup {None} : SortBy(x)
    \/ ClearAll \/ ToggleTags \/ Reload
    \/ \E i \in 1 .. MaxHist : onpopstate(i)
Spec == Init /\ [][Next]_vars

-------------------------------------------------------------------------------
(* Properties. *)
Searches == [topic : Topics \cup {None}, nav : SUBSET Navs, query : Queries \cup {None}, filter : SUBSET Filters,
             created : SUBSET Dates, product : Products \cup {None},
             advanced : SUBSET (({"fields"} \X AdvFields) \cup (Boxes \X Words)),
             sort : Sorts \cup {None}]
(* One navigation at most is selected where several are not allowed, a field that
   takes one value has one, a relative date has no bounds, and an advanced search
   looks in a field at least. *)
TypeOK == /\ store \in Searches
          /\ pos \in DOMAIN hist /\ Len(hist) \in 1 .. MaxHist
          /\ MultiSelect \/ Cardinality(store.nav) <= 1 \/ activeTopicSelector(store) # None
          /\ \A f \in Singles : Cardinality(Range1(store.filter, f)) <= 1
          /\ "last" \in store.created => store.created = {"last"}
          /\ Range1(store.advanced, "fields") # {}

Searched(p) == [p EXCEPT !.sortQuery = None]
(* The page that is loaded again from its URL makes the same search, but for the
   order: "Set state on app init using url params" (search/actions.ts:520). *)
ReloadSame == /\ Searched(searchParamsSelector(initParams(URL))) = Searched(searchParamsSelector(store))
              /\ initParams(URL).topic = store.topic
(* Going back to an entry restores the search its URL is of: "handle history"
   (wire/index.ts:32). *)
EntriesAgree == \A i \in DOMAIN hist : hist[i].state # None =>
    Searched(searchParamsSelector(hist[i].state)) = Searched(searchParamsSelector(initParams(hist[i].url)))

(* The search the user sees, saved as a topic and loaded, is the same search, and
   is not offered to be saved again: loading leaves nothing behind of what there
   was before and loses nothing but the order. *)
SavedTopicLoads ==
    LET topic == TopicOf(searchParamsSelector(store))
        s == setParams(resetSearchParams(store), topic)
    IN /\ Searched(searchParamsSelector(s)) = Searched(searchParamsSelector(store))
       /\ ~showSaveTopicSelector(s, topic)
(* And a topic that was changed in anything but product and order is. *)
ChangedTopicIsOffered ==
    LET t == activeTopicSelector(store)
        narrowing(p) == [p EXCEPT !.sortQuery = None, !.product = None]
    IN t # None /\ narrowing(searchParamsSelector(store)) # narrowing(searchParamsSelector(setParams(INITIAL_STATE, TopicDef[t])))
         => showSaveTopicSelector(store, TopicDef[t])

(* A box or a tick that the user has not touched shows what is searched for. *)
PanelsFollow == /\ "query" \notin panel.touched => panel.typed = store.query
                /\ "filter" \notin panel.touched => panel.filter = store.filter
                /\ "created" \notin panel.touched => panel.created = store.created

===============================================================================
