----------------------------- MODULE CompanyReports -----------------------------
(* The reports of the administrators: one is chosen, filtered, run, scrolled,
   exported and printed (assets/company-reports). All panels share the filters,
   the rows and the loading flag of one store, and a panel draws whatever rows
   are there. A panel that fails to draw takes the page with it.

   A row is [r, q, i]: row i of what report r lists for the parameters q. *)
EXTENDS Integers, Sequences, FiniteSets, SequencesExt, TLC

CONSTANTS Reports,       \* the reports the user has
          Values,        \* the values that are chosen, by filter
          Acts, AnyOrder, Failures, Waits,
          PageSize, Total,   \* of the rows of subscriber-activity
          MaxFlight,
          None

PagesAssumption == PageSize \in Nat \ {0} /\ Total \in Nat /\ MaxFlight \in Nat

VARIABLES store,    \* active, rows, loading, params, aggs, products
          ui,       \* what the panel that is mounted keeps to itself
          flight, crashed,
          out,      \* the last file or page asked for, with the rows it was asked for at
          opened    \* the parameters a panel that runs by itself was opened with
vars == <<store, ui, flight, crashed, out, opened>>

Fields == {"company", "action", "section", "product", "genre", "date_from", "date_to"}
Paged == "subscriber-activity"
Usage == "company-news-api-usage"
Content == "content-activity"
PerProduct == "product-companies"
May(act) == act \in Acts
Idle == flight = <<>>

-------------------------------------------------------------------------------
(* The value of a filter is none, one string or a list of them. *)
NoValue == [t |-> "none", vs |-> {}]
One(v) == [t |-> "one", vs |-> {v}]
Many(vs) == [t |-> "many", vs |-> vs]
Downloads == {"download", "download audio", "download video", "download picture"}
\* JavaScript's includes: of a list or of a string, which includes its substrings.
includes(p, v) == IF p.t = "one" THEN v \in p.vs \/ (v = "download" /\ p.vs \subseteq Downloads) ELSE v \in p.vs
initialState == [active |-> None, rows |-> [shape |-> "list", items |-> <<>>], loading |-> FALSE,
                 params |-> [f \in Fields |-> IF f \in {"date_from", "date_to"} THEN One("today") ELSE NoValue],
                 aggs |-> None, products |-> FALSE]
NoRows == initialState.rows

(* The reducer. *)
queryReport(s) == [s EXCEPT !.rows = NoRows, !.loading = TRUE]
setActiveReport(s, r) == [s EXCEPT !.active = r, !.rows = NoRows]
receivedData(s, data) == [s EXCEPT !.rows = data, !.loading = FALSE]
setError(s) == [s EXCEPT !.loading = FALSE]
toggleFilter(s, f, v) == [s EXCEPT !.params[f] = v]
addResults(s, data) == [s EXCEPT !.rows.items = @ \o data.items]
isLoading(s, b) == [s EXCEPT !.loading = b]
getProducts(s) == [s EXCEPT !.products = TRUE]
receiveAggregations(s, a) == [s EXCEPT !.aggs = a]

-------------------------------------------------------------------------------
(* What the panels need of a row to draw it, and the rows have. *)
HasFields(r) ==
    CASE r \in {"company-saved-searches", "user-saved-searches", "product-stories",
                "company-and-user-saved-searches"} -> {"is_enabled"}
      [] r = "company-products" -> {"is_enabled", "products"}
      [] r = "company" -> {"is_enabled", "products", "company"}
      [] r = PerProduct -> {"enabled_companies", "disabled_companies"}
      [] OTHER -> {}
CompanyProducts == {"is_enabled", "products"}
CompanySavedSearches == {"is_enabled"}
UserSavedSearches == {"is_enabled"}
SavedMyTopicsAndCompanyTopics == {"is_enabled"}
ProductStories == {"is_enabled"}
Company == {"company"}
ExpiredCompanies == {}
ProductCompanies == {"enabled_companies", "disabled_companies"}
ContentActivity == {}
Needs(panel) ==
    CASE panel = "company-products" -> CompanyProducts
      [] panel = "company-saved-searches" -> CompanySavedSearches
      [] panel = "user-saved-searches" -> UserSavedSearches
      [] panel = "company-and-user-saved-searches" -> SavedMyTopicsAndCompanyTopics
      [] panel = "product-stories" -> ProductStories
      [] panel = "company" -> Company
      [] panel = PerProduct -> ProductCompanies
      [] panel = Content -> ContentActivity
      [] OTHER -> ExpiredCompanies
(* The usage of the API is an object and not a list; three panels ask for a
   length first. An object cannot be drawn in a cell. *)
SubscriberActivity(rows) == rows.shape = "list" => \A i \in DOMAIN rows.items : "company" \notin HasFields(rows.items[i].r)
Draws(panel, rows) ==
    CASE panel = Paged -> SubscriberActivity(rows)
      [] panel \in {Usage, None} -> TRUE
      [] panel \in {PerProduct, Content} -> rows.shape = "list" => \A i \in DOMAIN rows.items : Needs(panel) \subseteq HasFields(rows.items[i].r)
      [] OTHER -> rows.shape = "list" /\ \A i \in DOMAIN rows.items : Needs(panel) \subseteq HasFields(rows.items[i].r)

-------------------------------------------------------------------------------
(* Requests. *)
getReportQueryString(s, next) ==
    [q |-> s.params, from |-> IF next /\ s.rows.shape = "list" THEN Len(s.rows.items) ELSE 0]
Request(kind, r, s) == [kind |-> kind, report |-> r] @@ getReportQueryString(s, kind = "next")
fetchReport(r, s) == Request("report", r, s)
fetchAggregations(s) == Request("aggs", Content, s)
fetchProducts(s) == Request("products", None, s)
runReport(s) == [store |-> queryReport(s), sent |-> <<fetchReport(s.active, queryReport(s))>>]

(* Mounting a panel: two of them run, one asks for what its filters offer, one
   copies the products there are. *)
NoPanel == [panel |-> None, prev |-> 0]
Mounted(r) == [panel |-> r, prev |-> 0]
componentWillMount(s) ==
    CASE s.active \in {Paged, Usage} -> runReport(s)
      [] s.active = Content -> [store |-> s, sent |-> <<fetchAggregations(s)>>]
      [] OTHER -> [store |-> s, sent |-> <<>>]
getPanel(s) == s.active # PerProduct \/ s.products
(* A filter that is set, to what it was too, starts the scrolling anew. *)
componentWillReceiveProps(u) == IF u.panel \in {Paged, Usage} THEN [u EXCEPT !.prev = 0] ELSE u

User(act) == /\ May(act) /\ ~crashed
             /\ IF Waits THEN Idle ELSE Len(flight) < MaxFlight
Do(step) == /\ store' = step.store
            /\ flight' = flight \o step.sent
            /\ crashed' = ~Draws(ui.panel, step.store.rows)
            /\ UNCHANGED <<out, opened>>

-------------------------------------------------------------------------------
(* What the user does. *)
reportOptions == Reports \cup {None}
Select(r) == /\ User("select") /\ r \in reportOptions /\ r # store.active
             /\ LET chosen == setActiveReport(store, r)
                    step == componentWillMount(chosen)
                IN /\ store' = step.store
                   /\ flight' = flight \o step.sent
                   /\ ui' = Mounted(r)
                   /\ crashed' = (~getPanel(chosen) \/ ~Draws(r, step.store.rows))
                   /\ opened' = IF r \in {Paged, Usage} THEN chosen.params ELSE opened
                   /\ UNCHANGED out
RunReport == User("run") /\ store.active # None /\ Do(runReport(store)) /\ UNCHANGED ui
\* Mutant: the filter is set and nothing is run.
toggleFilterAndQueryOnly(f, v) == [store |-> toggleFilter(store, f, v), sent |-> <<>>]
toggleFilterAndQuery(f, v) == runReport(toggleFilter(store, f, v))
(* The filters of a panel that runs at each: a value, or none of it again. *)
Filters(panel) == CASE panel = Paged -> {"company", "action", "section", "date_from", "date_to"}
                    [] panel = PerProduct -> {"product"}
                    [] panel = Usage -> {"date_from", "date_to"}
                    [] OTHER -> {}
getDropdownItems(f) == {One(v) : v \in Values[f]}
CalendarButton(f) == getDropdownItems(f)
DropdownFilter(f) == getDropdownItems(f) \cup (IF store.params[f] # NoValue THEN {NoValue} ELSE {})
Filter(f, v) == /\ User("filter") /\ f \in Filters(ui.panel) /\ v \in (IF f \in {"date_from", "date_to"} THEN CalendarButton(f) ELSE DropdownFilter(f))
                /\ Do(toggleFilterAndQuery(f, v)) /\ ui' = componentWillReceiveProps(ui)
(* The filters of the content activity, which only change what the next run asks
   for, and for a date or section what they offer. *)
values(f) == IF f \in {"genre", "action"} /\ store.params[f] = NoValue THEN Many({}) ELSE store.params[f]
MultiSelectDropdown(f, v) ==
    LET p == values(f)
    IN CASE f \in {"genre", "action"} /\ v = "all" -> Many({})
         [] f \in {"genre", "action"} /\ v # "all" /\ includes(p, v) -> IF p.t = "many" THEN Many(p.vs \ {v}) ELSE p
         [] f \in {"genre", "action"} /\ v # "all" /\ ~includes(p, v) ->
               IF p.t = "many" THEN Many(p.vs \cup {v}) ELSE Many({"its letters", v})
         [] OTHER -> IF v = "all" \/ p = One(v) THEN NoValue ELSE One(v)
ContentFilter(f, v) ==
    /\ User("content") /\ ui.panel = Content
    /\ f \in {"genre", "company", "action"} /\ v \in Values[f] \cup {"all"}
    /\ Do([store |-> toggleFilter(store, f, MultiSelectDropdown(f, v)), sent |-> <<>>]) /\ UNCHANGED ui
onChangeSection(v) ==
    /\ User("content") /\ ui.panel = Content /\ v \in Values["section"]
    /\ LET s == toggleFilter(store, "section", MultiSelectDropdown("section", v))
       IN Do([store |-> s, sent |-> <<fetchAggregations(s)>>]) /\ UNCHANGED ui
onDateChange(v) ==
    /\ User("content") /\ ui.panel = Content /\ v \in Values["date_from"]
    /\ LET s == toggleFilter(store, "date_from", One(v))
       IN Do([store |-> s, sent |-> <<fetchAggregations(s)>>]) /\ UNCHANGED ui
(* Scrolling to the end, further than when a page was last asked for. *)
onScroll ==
    /\ User("scroll") /\ ui.panel \in {Paged, Usage} /\ ~store.loading
    /\ Len(store.rows.items) > ui.prev
    /\ LET s == isLoading(store, TRUE)
       IN /\ store' = s
          /\ flight' = Append(flight, Request("next", ui.panel, s))
          /\ ui' = [ui EXCEPT !.prev = Len(store.rows.items)]
          /\ UNCHANGED <<crashed, out, opened>>
Asked(kind, q, rows) == /\ out' = [kind |-> kind, report |-> store.active, q |-> q, rows |-> rows]
                        /\ UNCHANGED <<store, ui, flight, crashed, opened>>
exportToCSV == /\ User("export") /\ ui.panel \in {Paged, Content} /\ store.rows.items # <<>>
               /\ Asked("export", store.params, store.rows)
printReport == /\ User("print") /\ store.active # None
               /\ Asked("print", IF store.active \in {Paged, Content} THEN store.params ELSE None, NoRows)

-------------------------------------------------------------------------------
(* The server's answers. *)
Row(r, q, i) == [r |-> r, q |-> q, i |-> i]
All(r, q) == [i \in 1..(IF r = Paged THEN Total ELSE 1) |-> Row(r, q, i)]
Page(rows, from) == [i \in 1..Cardinality((from + 1)..Len(rows) \cap 1..(from + PageSize)) |-> rows[from + i]]
Data(a) == [shape |-> IF a.report = Usage THEN "object" ELSE "list",
            items |-> IF a.report = Paged THEN Page(All(a.report, a.q), a.from)
                      ELSE All(a.report, a.q)]
Received(a) ==
    CASE a.kind = "report" -> receivedData(store, Data(a))
      [] a.kind = "next" /\ (a.report = Usage \/ store.rows.shape = "object") -> isLoading(store, FALSE)
      [] a.kind = "next" /\ a.report # Usage /\ store.rows.shape = "list" -> addResults(isLoading(store, FALSE), Data(a))
      [] a.kind = "aggs" -> receiveAggregations(store, a.q)
      [] OTHER -> getProducts(store)
Answered(i, s) == /\ store' = s
                  /\ flight' = RemoveAt(flight, i)
                  /\ crashed' = ~Draws(ui.panel, s.rows)
                  /\ UNCHANGED <<ui, out, opened>>
Next1 == IF AnyOrder THEN DOMAIN flight ELSE DOMAIN flight \cap {1}
Receive == \E i \in Next1 : ~crashed /\ Answered(i, Received(flight[i]))
(* What is invalid is told by its fields, all else only as a notice. *)
Fail == \E i \in Next1 :
    /\ ~crashed
    /\ \E kind \in Failures : Answered(i, IF kind = "invalid" /\ flight[i].kind # "aggs" THEN setError(store) ELSE store)

initData == initialState
Init == /\ store = initData
        /\ ui = NoPanel
        /\ flight = <<fetchProducts(initialState)>>
        /\ crashed = FALSE
        /\ out = None
        /\ opened = initialState.params
Next == \/ \E r \in Reports \cup {None} : Select(r)
        \/ RunReport \/ onScroll \/ exportToCSV \/ printReport
        \/ \E f \in Fields : \E v \in {One(x) : x \in Values[f]} \cup {NoValue} : Filter(f, v)
        \/ \E f \in Fields : \E v \in Values[f] \cup {"all"} : ContentFilter(f, v)
        \/ \E v \in Values["section"] : onChangeSection(v)
        \/ \E v \in Values["date_from"] : onDateChange(v)
        \/ Receive \/ Fail
Spec == Init /\ [][Next]_vars

-------------------------------------------------------------------------------
(* Properties. *)
IsValue(p) == p.t \in {"none", "one", "many"} /\ (p.t = "none" => p.vs = {}) /\ (p.t = "one" => Cardinality(p.vs) = 1)
(* The panel is that of the report that is chosen, and filters have values. *)
TypeOK == /\ store.active \in Reports \cup {None}
          /\ ui.panel = store.active
          /\ \A f \in Fields : IsValue(store.params[f])
          /\ store.rows.shape \in {"list", "object"}
          /\ ui.prev \in 0..Total

(* A panel is never given rows it cannot draw (SET_ACTIVE_REPORT and the panels,
   which use what their own report has). *)
Drawn == ~crashed

(* Once everything is answered the subscriber activity lists the first rows of
   what its filters now ask for, each once and in their order, however pages,
   filters and runs were interleaved (onScroll, toggleFilterAndQuery, ADD_RESULTS). *)
RowsOfQuery == Idle /\ store.active = Paged =>
    \A i \in DOMAIN store.rows.items : store.rows.items[i] = Row(Paged, store.params, i)
(* And the rows that are missing can be scrolled to. *)
MoreIsReachable == Idle /\ store.active = Paged /\ Len(store.rows.items) < Total =>
    ~store.loading /\ Len(store.rows.items) > ui.prev
(* While the report says it is loading something is on its way. *)
LoadingEnds == store.loading => flight # <<>>
(* The exported subscriber activity is the one that is shown. *)
ExportIsShown == out # None /\ out.kind = "export" /\ out.report = Paged =>
    \A i \in DOMAIN out.rows.items : out.rows.items[i] = Row(Paged, out.q, i)
===============================================================================
