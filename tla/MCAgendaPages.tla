------------------------------ MODULE MCAgendaPages ------------------------------
(* The pages of Agenda in the web client, and the cards of news and events the server keeps for
   the home page, side by side: `part` says which of them runs, each in a small instance of its
   own. *)
EXTENDS Integers, Sequences, FiniteSets, TLC, DashboardCache

CONSTANTS alpha, beta, gamma, d1, d2, e1, p1, p2, w1, w2, w3, x1

\* The list: item 1 is an event of two days, 2 its planning item, 3 and 4 other events.
Listed(live, days, covs, text) ==
    [live |-> live, days |-> days, covs |-> covs, watch |-> FALSE, cwatch |-> FALSE, text |-> text]
AgendaOf(items) == [i \in items |-> CASE i = 1 -> Listed(TRUE, {1, 2}, 1, 1)
                                      [] i = 2 -> Listed(TRUE, {2}, 1, 0)
                                      [] i = 3 -> Listed(TRUE, {1}, 0, 0)
                                      [] OTHER -> Listed(FALSE, IF i = 4 THEN {1, 2} ELSE {2, 3}, 0, 0)]
WatchedOf(items) == [i \in items |-> [AgendaOf(items)[i] EXCEPT !.watch = i = 1, !.cwatch = i = 2]]
RelatedOf(items) == [i \in items |-> IF i = 1 THEN {2} \cap items ELSE {}]
Changes(p, c0, k, t) == [publish |-> p, cover |-> c0, kill |-> k, text |-> t]
\* The days the list is grouped by, in quarters of a day.
Planned(start, end, allDay, noEnd, tbc, plans, hits) ==
    [start |-> start, end |-> end, all_day |-> allDay, no_end_time |-> noEnd, tbc |-> tbc,
     plans |-> plans, hits |-> hits, actioned |-> None]
Plan(id, date, coverages) == [id |-> id, date |-> date, coverages |-> coverages]
CoverageAt(id, t) == [id |-> id, scheduled |-> t]
PlanSets == {{}, {Plan("p", 6, {CoverageAt("c", 3)})},
             {Plan("p", 8, {CoverageAt("c", 17), CoverageAt("d", 20)}), Plan("q", 5, {})}}
Hits == {None} \cup [plans : {{}, {"p"}, {"q"}}, coverages : {None, {"c"}, {}}]
Timed == {Planned(s, e, FALSE, FALSE, tbc, ps, h) :
             s \in {8, 11}, e \in {None, 11, 30, 70}, tbc \in BOOLEAN, ps \in PlanSets, h \in Hits}
NoEndTime == {Planned(s, e, FALSE, TRUE, FALSE, ps, None) : s \in {8, 11}, e \in {None, 8, 20}, ps \in PlanSets}
AllDay == {Planned(s, e, TRUE, FALSE, FALSE, {}, None) : s \in {4, 8}, e \in {None, 8, 12, 20, 56}}
Usual == {i \in Timed \cup NoEndTime :
             i.hits = None \/ (i.plans # {} /\ i.hits.plans \subseteq {p.id : p \in i.plans})}
UsualAndAllDay == AllDay \cup {i \in NoEndTime \cup Timed : i.hits = None}
\* The rows: item a has two plans on the first day and one on the second, where b is hidden.
Group(d, items, hidden) == [date |-> d, items |-> items, hidden |-> hidden]
ThreeDays == <<Group(d1, <<alpha, beta>>, <<>>), Group(d2, <<gamma>>, <<alpha>>), Group(e1, <<>>, <<beta>>)>>
OneDay == <<Group(d1, <<alpha, beta, gamma>>, <<>>)>>
TwoPlans == [i \in {alpha, beta, gamma} |-> [d \in {d1, d2, e1} |->
                IF i # alpha THEN <<>> ELSE IF d = d1 THEN <<p1, p2>> ELSE <<p2>>]]
\* Item a is an event with two plannings of its own, one more and two texts, b a planning with an event, c neither.
ThreeTexts == (alpha :> <<w1, w2>>) @@ (beta :> <<w3>>) @@ (gamma :> <<>>)
Plannings == (alpha :> {p1, p2, x1}) @@ (beta :> {}) @@ (gamma :> {p1, beta})
EventsOf == (alpha :> None) @@ (beta :> {e1, alpha}) @@ (gamma :> {})
Without(v) == [i \in {alpha, beta, gamma} |-> v]
\* The bar: two places are chosen in the panel, or an agenda with a coverage by a topic.
Filterable(types, calendar, agendas, place, coverage, status) ==
    [types |-> types, calendar |-> calendar, agendas |-> agendas, place |-> place,
     coverage |-> coverage, coverage_status |-> status]
SomeItems ==
    {Filterable({"events", "planning"}, {"sport"}, {"national"}, {"nsw"}, {"text"}, {"planned"}),
     Filterable({"events"}, {"sport", "arts"}, {}, {"vic"}, {}, {"not planned"}),
     Filterable({"planning"}, {}, {"foreign"}, {"nsw"}, {"photo"}, {"planned"})}
Unfiltered == [f \in {"calendar", "agendas", "place", "coverage", "coverage_status"} |-> None]
SomeFilters == {Unfiltered, [Unfiltered EXCEPT !.place = {"nsw", "vic"}],
                [Unfiltered EXCEPT !.agendas = {"national"}, !.coverage = {"text"}]}
\* Springfield in two states: "" finds three rows, "s" the two cities, "o" one, "p" the one place, "x" nothing.
Region(name, type, state, country) == [name |-> name, type |-> type, state |-> state, country |-> country]
SpringfieldA == Region("springfield", "city", "illinois", "us")
SpringfieldB == Region("springfield", "city", "ohio", "us")
Us == Region("us", "country", None, None)
FoundBy(queries) ==
    [q \in queries |->
        CASE q = "s" -> [regions |-> <<SpringfieldA, SpringfieldB>>, places |-> <<>>]
          [] q = "p" -> [regions |-> <<>>, places |-> <<"park">>]
          [] q = "o" -> [regions |-> <<SpringfieldB>>, places |-> <<>>]
          [] q = "x" -> [regions |-> <<>>, places |-> <<>>]
          [] OTHER -> [regions |-> <<SpringfieldA, Us>>, places |-> <<"park">>]]

\* The cards of the home page: two readers of one company with different products, one of another.
CompanyOf == [u \in {"ann", "bob", "cyd"} |-> IF u = "cyd" THEN "beta" ELSE "acme"]
AllowedTo == [u \in {"ann", "bob", "cyd"} |-> CASE u = "ann" -> {"p"} [] u = "bob" -> {} [] OTHER -> {"q"}]
\* The caches while another page runs.
Uncached == Init

VARIABLES part,     \* the page that runs
          agenda, changes, store, up, down, sent, zone, item, range, groups, menu, timers, panes,
          flight, account, itemType, activeFilter, items, aggregations, open, loading, results,
          selectedIndex, text, focus, pending, wrapping, location, watches, flipped, preview,
          stories, rows
all == <<part, agenda, changes, store, up, down, sent, zone, item, range, groups, menu, timers,
         panes, flight, account, itemType, activeFilter, items, aggregations, open, loading,
         results, selectedIndex, text, focus, pending, wrapping, location, watches, flipped,
         preview, stories, rows, vars>>

\* The list by days.
DaysPage == INSTANCE AgendaResults WITH
    Items <- {1, 3, 4}, Days <- {1, 2, 3}, Events <- {1, 3, 4}, Featured <- {1},
    Related <- RelatedOf({1, 3, 4}), Agenda0 <- AgendaOf({1, 3, 4}), PageSize <- 1, Limit <- 4,
    Bookmarks <- FALSE, MayFail <- FALSE, AnyOrder <- FALSE, Waits <- FALSE,
    Acts <- {"date", "featured", "type", "more", "refresh"}, MaxRequests <- 3,
    MaxChanges <- Changes(1, 1, 0, 0)
\* The list loaded page by page while items are published.
MorePage == INSTANCE AgendaResults WITH
    Items <- {1, 3, 4, 5}, Days <- {1, 2, 3}, Events <- {1, 3, 4}, Featured <- {1},
    Related <- RelatedOf({1, 3, 4, 5}), Agenda0 <- AgendaOf({1, 3, 4, 5}), PageSize <- 1, Limit <- 4,
    Bookmarks <- FALSE, MayFail <- FALSE, AnyOrder <- FALSE, Waits <- TRUE,
    Acts <- {"date", "more", "refresh", "sort"}, MaxRequests <- 5, MaxChanges <- Changes(2, 0, 0, 0)
\* Items and coverages watched.
WatchesPage == INSTANCE AgendaResults WITH
    Items <- {1, 2, 3}, Days <- {1, 2, 3}, Events <- {1, 3}, Featured <- {1},
    Related <- RelatedOf({1, 2, 3}), Agenda0 <- WatchedOf({1, 2, 3}), PageSize <- 1, Limit <- 4,
    Bookmarks <- FALSE, MayFail <- TRUE, AnyOrder <- FALSE, Waits <- FALSE,
    Acts <- {"watch", "coverage", "more"}, MaxRequests <- 5, MaxChanges <- Changes(1, 1, 0, 0)
\* Answers in any order or none, an item killed.
RacesPage == INSTANCE AgendaResults WITH
    Items <- {1, 2, 3}, Days <- {1, 2, 3}, Events <- {1, 3}, Featured <- {1},
    Related <- RelatedOf({1, 2, 3}), Agenda0 <- AgendaOf({1, 2, 3}), PageSize <- 2, Limit <- 4,
    Bookmarks <- FALSE, MayFail <- TRUE, AnyOrder <- TRUE, Waits <- FALSE,
    Acts <- {"date", "more", "preview", "open"}, MaxRequests <- 3, MaxChanges <- Changes(0, 0, 1, 0)
\* The days an item is printed with.
PrintedPage == INSTANCE AgendaGrouping WITH
    D <- 4, Zones <- {-1, 0, 1}, Items <- UsualAndAllDay, Ranges <- {<<None, None>>}
\* Items with times, in three time zones.
GroupedPage == INSTANCE AgendaGrouping WITH
    D <- 4, Zones <- {-1, 0, 1}, Items <- Usual,
    Ranges <- {<<None, None>>, <<2, None>>, <<1, 2>>, <<3, 4>>}
\* Items of whole days, without a last day.
AllDayPage == INSTANCE AgendaGrouping WITH
    D <- 4, Zones <- {-1, 0, 1}, Items <- AllDay, Ranges <- {<<None, None>>, <<2, None>>, <<3, None>>}
\* Keys and clicks in a list of plannings.
KeysPage == INSTANCE AgendaRows WITH
    Items <- {alpha, beta, gamma}, Groups <- ThreeDays, PlansOn <- TwoPlans, TopStories <- {},
    Covered <- {alpha}, CoverageOnTop <- FALSE, Sorted <- FALSE, PlanningOnly <- TRUE,
    Texts <- Without(<<>>), PlanningIds <- Without({}), EventIds <- Without(None),
    Acts <- {"key", "escape", "click", "hidden", "query", "close", "menu"}, Waits <- TRUE,
    AnyOrder <- FALSE, MayFail <- FALSE, MaxFlight <- 3
\* The menus of the rows.
MenusPage == INSTANCE AgendaRows WITH
    Items <- {alpha, beta, gamma}, Groups <- OneDay, PlansOn <- TwoPlans, TopStories <- {},
    Covered <- {alpha}, CoverageOnTop <- FALSE, Sorted <- FALSE, PlanningOnly <- FALSE,
    Texts <- Without(<<>>), PlanningIds <- Without({}), EventIds <- Without(None),
    Acts <- {"menu", "click", "dblclick", "open", "close", "key"}, Waits <- FALSE, AnyOrder <- FALSE,
    MayFail <- FALSE, MaxFlight <- 3
\* What the panes load for an item.
PanesPage == INSTANCE AgendaRows WITH
    Items <- {alpha, beta, gamma}, Groups <- OneDay, PlansOn <- TwoPlans, TopStories <- {},
    Covered <- {alpha}, CoverageOnTop <- FALSE, Sorted <- FALSE, PlanningOnly <- TRUE,
    Texts <- ThreeTexts, PlanningIds <- Plannings, EventIds <- EventsOf,
    Acts <- {"click", "close", "opened"}, Waits <- TRUE, AnyOrder <- FALSE, MayFail <- FALSE,
    MaxFlight <- 5
\* The panes with answers in any order or none.
SettlePage == INSTANCE AgendaRows WITH
    Items <- {alpha, beta, gamma}, Groups <- OneDay, PlansOn <- TwoPlans, TopStories <- {},
    Covered <- {alpha}, CoverageOnTop <- FALSE, Sorted <- FALSE, PlanningOnly <- FALSE,
    Texts <- Without(<<>>), PlanningIds <- Plannings, EventIds <- EventsOf,
    Acts <- {"click", "close", "image", "dblclick"}, Waits <- FALSE, AnyOrder <- TRUE, MayFail <- TRUE,
    MaxFlight <- 3
\* The bar of filters above the list.
BarPage == INSTANCE AgendaFilters WITH
    Items <- SomeItems, Statuses <- {"planned", "not planned"}, Locators <- {}, Filters <- SomeFilters,
    Config <- {"item_type", "calendar", "region", "coverage_type", "coverage_status"}, MayFail <- FALSE,
    AnyOrder <- FALSE, Waits <- TRUE, MaxFlight <- 2
\* The bar with failures and answers in any order.
ChoicesPage == INSTANCE AgendaFilters WITH
    Items <- SomeItems, Statuses <- {"planned", "not planned"}, Locators <- {"nsw", "vic", "qld"},
    Filters <- SomeFilters, Config <- {"region"}, MayFail <- TRUE, AnyOrder <- TRUE, Waits <- FALSE,
    MaxFlight <- 2
\* The drop-down of the locations.
LocationPage == INSTANCE LocationFilter WITH
    Queries <- {"", "s", "p", "o", "x"}, Found <- FoundBy({"", "s", "p", "o", "x"}), PlaceOption <- "on",
    AnyOrder <- FALSE, MayFail <- FALSE, Waits <- TRUE,
    Acts <- {"mouse", "keys", "type", "close", "point"}, MaxFlight <- 2
\* The drop-down with failures and answers in any order.
ClosingPage == INSTANCE LocationFilter WITH
    Queries <- {"", "s"}, Found <- FoundBy({"", "s"}), PlaceOption <- "on", AnyOrder <- TRUE,
    MayFail <- TRUE, Waits <- FALSE, Acts <- {"mouse", "keys", "type", "close", "point"}, MaxFlight <- 2
\* The coverages of two plannings in the preview.
BoxesPage == INSTANCE CoverageView WITH
    Covs <- {1, 2}, PlanOf <- [i \in {1, 2} |-> IF i = 1 THEN "p" ELSE "q"],
    Type <- [i \in {1, 2} |-> "text"], Updates <- [i \in {1, 2} |-> IF i = 1 THEN 2 ELSE 0],
    Days <- {3, 4, 5}, Unscheduled <- 99, PreviewDay <- 4, Accessible <- {1, 2} \X {1, 2},
    LatestOnly <- FALSE, Restricted <- FALSE, Parent <- FALSE, Acts <- {"preview", "move", "unschedule"},
    AnyOrder <- FALSE, MaxVersion <- 3, MaxDeliveries <- 3, MaxFlight <- 1
\* Only the latest story of a coverage is linked.
LatestPage == INSTANCE CoverageView WITH
    Covs <- {1, 2}, PlanOf <- [i \in {1, 2} |-> "p"],
    Type <- [i \in {1, 2} |-> IF i = 1 THEN "text" ELSE "picture"],
    Updates <- [i \in {1, 2} |-> IF i = 1 THEN 2 ELSE 0], Days <- {3, 4}, Unscheduled <- 99,
    PreviewDay <- 4, Accessible <- {1, 2} \X {1, 2}, LatestOnly <- TRUE, Restricted <- FALSE,
    Parent <- FALSE, Acts <- {"preview"}, AnyOrder <- FALSE, MaxVersion <- 9, MaxDeliveries <- 3,
    MaxFlight <- 1
\* The stories of one coverage.
StoriesPage == INSTANCE CoverageView WITH
    Covs <- {1}, PlanOf <- [i \in {1} |-> "p"], Type <- [i \in {1} |-> "text"],
    Updates <- [i \in {1} |-> 2], Days <- {3, 4}, Unscheduled <- 99, PreviewDay <- 4,
    Accessible <- {1} \X {1, 2}, LatestOnly <- FALSE, Restricted <- FALSE, Parent <- FALSE,
    Acts <- {"preview", "rerender"}, AnyOrder <- FALSE, MaxVersion <- 9, MaxDeliveries <- 3,
    MaxFlight <- 1
\* The marks of the coverages in the rows.
ColoursPage == INSTANCE CoverageView WITH
    Covs <- {1, 2}, PlanOf <- [i \in {1, 2} |-> "p"],
    Type <- [i \in {1, 2} |-> IF i = 1 THEN "text" ELSE "picture"],
    Updates <- [i \in {1, 2} |-> IF i = 1 THEN 2 ELSE 0], Days <- {3, 4}, Unscheduled <- 99,
    PreviewDay <- 4, Accessible <- {1, 2} \X {1, 2}, LatestOnly <- FALSE, Restricted <- FALSE,
    Parent <- FALSE, Acts <- {"move", "cancel", "draft"}, AnyOrder <- FALSE, MaxVersion <- 6,
    MaxDeliveries <- 3, MaxFlight <- 1
\* The coverages of a restricted company.
UpdatesPage == INSTANCE CoverageView WITH
    Covs <- {1, 2}, PlanOf <- [i \in {1, 2} |-> "p"],
    Type <- [i \in {1, 2} |-> IF i = 1 THEN "text" ELSE "picture"],
    Updates <- [i \in {1, 2} |-> IF i = 1 THEN 2 ELSE 0], Days <- {3, 4}, Unscheduled <- 99,
    PreviewDay <- 4, Accessible <- {1, 2} \X {1, 2}, LatestOnly <- FALSE, Restricted <- TRUE,
    Parent <- FALSE, Acts <- {"preview", "cancel"}, AnyOrder <- FALSE, MaxVersion <- 8,
    MaxDeliveries <- 3, MaxFlight <- 1
\* Coverages watched from the preview.
WatchedPage == INSTANCE CoverageView WITH
    Covs <- {1, 2}, PlanOf <- [i \in {1, 2} |-> "p"],
    Type <- [i \in {1, 2} |-> IF i = 1 THEN "text" ELSE "picture"],
    Updates <- [i \in {1, 2} |-> IF i = 1 THEN 2 ELSE 0], Days <- {3, 4}, Unscheduled <- 99,
    PreviewDay <- 4, Accessible <- {1, 2} \X {1, 2}, LatestOnly <- FALSE, Restricted <- FALSE,
    Parent <- FALSE, Acts <- {"preview", "watch", "move"}, AnyOrder <- FALSE, MaxVersion <- 2,
    MaxDeliveries <- 3, MaxFlight <- 2

ASSUME CardsAssumption == DashboardCacheAssumption
ASSUME DaysPageAssumption == DaysPage!AgendaConstantsOK
ASSUME MorePageAssumption == MorePage!AgendaConstantsOK
ASSUME WatchesPageAssumption == WatchesPage!AgendaConstantsOK
ASSUME RacesPageAssumption == RacesPage!AgendaConstantsOK
ASSUME PrintedPageAssumption == PrintedPage!GroupingAssumption
ASSUME GroupedPageAssumption == GroupedPage!GroupingAssumption
ASSUME AllDayPageAssumption == AllDayPage!GroupingAssumption
ASSUME KeysPageAssumption == KeysPage!RowsAssumption
ASSUME MenusPageAssumption == MenusPage!RowsAssumption
ASSUME PanesPageAssumption == PanesPage!RowsAssumption
ASSUME SettlePageAssumption == SettlePage!RowsAssumption
ASSUME BarPageAssumption == BarPage!BarAssumption
ASSUME ChoicesPageAssumption == ChoicesPage!BarAssumption
ASSUME LocationPageAssumption == LocationPage!FilterAssumption
ASSUME ClosingPageAssumption == ClosingPage!FilterAssumption
ASSUME BoxesPageAssumption == BoxesPage!CoverageAssumption
ASSUME LatestPageAssumption == LatestPage!CoverageAssumption
ASSUME StoriesPageAssumption == StoriesPage!CoverageAssumption
ASSUME ColoursPageAssumption == ColoursPage!CoverageAssumption
ASSUME UpdatesPageAssumption == UpdatesPage!CoverageAssumption
ASSUME WatchedPageAssumption == WatchedPage!CoverageAssumption

--------------------------------------------------------------------------------
\* The variables of the other pages are idle.
WithoutDashboardCache == <<agenda, changes, store, up, down, sent, zone, item, range, groups,
                           menu, timers, panes, flight, account, itemType, activeFilter, items,
                           aggregations, open, loading, results, selectedIndex, text, focus,
                           pending, wrapping, location, watches, flipped, preview, stories, rows>>
WithoutAgendaResults == <<zone, item, range, groups, menu, timers, panes, flight, account,
                          itemType, activeFilter, items, aggregations, open, loading, results,
                          selectedIndex, text, focus, pending, wrapping, location, watches,
                          flipped, preview, stories, rows, vars>>
WithoutAgendaGrouping == <<agenda, changes, store, up, down, sent, menu, timers, panes, flight,
                           account, itemType, activeFilter, items, aggregations, open, loading,
                           results, selectedIndex, text, focus, pending, wrapping, location,
                           watches, flipped, preview, stories, rows, vars>>
WithoutAgendaRows == <<agenda, changes, up, down, sent, zone, item, range, groups, account,
                       itemType, activeFilter, items, aggregations, open, loading, results,
                       selectedIndex, text, focus, pending, wrapping, location, watches, flipped,
                       preview, stories, rows, vars>>
WithoutAgendaFilters == <<agenda, changes, store, up, down, sent, zone, item, range, groups,
                          menu, timers, panes, loading, results, selectedIndex, text, focus,
                          pending, wrapping, location, watches, flipped, preview, stories, rows,
                          vars>>
WithoutLocationFilter == <<agenda, changes, store, up, down, sent, zone, item, range, groups,
                           menu, timers, panes, account, itemType, activeFilter, items,
                           aggregations, watches, flipped, preview, stories, rows, vars>>
WithoutCoverageView == <<agenda, changes, store, up, down, sent, zone, range, groups, menu,
                         timers, panes, account, itemType, activeFilter, items, aggregations,
                         open, loading, results, selectedIndex, text, focus, pending, wrapping,
                         location, vars>>

AllInit ==
    \/ /\ part = "cards" /\ Init
       /\ agenda = None /\ changes = None /\ store = None /\ up = None /\ down = None
       /\ sent = None /\ zone = None /\ item = None /\ range = None /\ groups = None
       /\ menu = None /\ timers = None /\ panes = None /\ flight = None /\ account = None
       /\ itemType = None /\ activeFilter = None /\ items = None /\ aggregations = None
       /\ open = None /\ loading = None /\ results = None /\ selectedIndex = None /\ text = None
       /\ focus = None /\ pending = None /\ wrapping = None /\ location = None /\ watches = None
       /\ flipped = None /\ preview = None /\ stories = None /\ rows = None
    \/ /\ part = "days" /\ DaysPage!Init /\ Uncached
       /\ zone = None /\ item = None /\ range = None /\ groups = None /\ menu = None /\ timers = None
       /\ panes = None /\ flight = None /\ account = None /\ itemType = None /\ activeFilter = None
       /\ items = None /\ aggregations = None /\ open = None /\ loading = None /\ results = None
       /\ selectedIndex = None /\ text = None /\ focus = None /\ pending = None /\ wrapping = None
       /\ location = None /\ watches = None /\ flipped = None /\ preview = None /\ stories = None
       /\ rows = None
    \/ /\ part = "more" /\ MorePage!Init /\ Uncached
       /\ zone = None /\ item = None /\ range = None /\ groups = None /\ menu = None /\ timers = None
       /\ panes = None /\ flight = None /\ account = None /\ itemType = None /\ activeFilter = None
       /\ items = None /\ aggregations = None /\ open = None /\ loading = None /\ results = None
       /\ selectedIndex = None /\ text = None /\ focus = None /\ pending = None /\ wrapping = None
       /\ location = None /\ watches = None /\ flipped = None /\ preview = None /\ stories = None
       /\ rows = None
    \/ /\ part = "watches" /\ WatchesPage!Init /\ Uncached
       /\ zone = None /\ item = None /\ range = None /\ groups = None /\ menu = None /\ timers = None
       /\ panes = None /\ flight = None /\ account = None /\ itemType = None /\ activeFilter = None
       /\ items = None /\ aggregations = None /\ open = None /\ loading = None /\ results = None
       /\ selectedIndex = None /\ text = None /\ focus = None /\ pending = None /\ wrapping = None
       /\ location = None /\ watches = None /\ flipped = None /\ preview = None /\ stories = None
       /\ rows = None
    \/ /\ part = "races" /\ RacesPage!Init /\ Uncached
       /\ zone = None /\ item = None /\ range = None /\ groups = None /\ menu = None /\ timers = None
       /\ panes = None /\ flight = None /\ account = None /\ itemType = None /\ activeFilter = None
       /\ items = None /\ aggregations = None /\ open = None /\ loading = None /\ results = None
       /\ selectedIndex = None /\ text = None /\ focus = None /\ pending = None /\ wrapping = None
       /\ location = None /\ watches = None /\ flipped = None /\ preview = None /\ stories = None
       /\ rows = None
    \/ /\ part = "printed" /\ PrintedPage!Init /\ Uncached
       /\ agenda = None /\ changes = None /\ store = None /\ up = None /\ down = None /\ sent = None
       /\ menu = None /\ timers = None /\ panes = None /\ flight = None /\ account = None
       /\ itemType = None /\ activeFilter = None /\ items = None /\ aggregations = None /\ open = None
       /\ loading = None /\ results = None /\ selectedIndex = None /\ text = None /\ focus = None
       /\ pending = None /\ wrapping = None /\ location = None /\ watches = None /\ flipped = None
       /\ preview = None /\ stories = None /\ rows = None
    \/ /\ part = "grouped" /\ GroupedPage!Init /\ Uncached
       /\ agenda = None /\ changes = None /\ store = None /\ up = None /\ down = None /\ sent = None
       /\ menu = None /\ timers = None /\ panes = None /\ flight = None /\ account = None
       /\ itemType = None /\ activeFilter = None /\ items = None /\ aggregations = None /\ open = None
       /\ loading = None /\ results = None /\ selectedIndex = None /\ text = None /\ focus = None
       /\ pending = None /\ wrapping = None /\ location = None /\ watches = None /\ flipped = None
       /\ preview = None /\ stories = None /\ rows = None
    \/ /\ part = "allday" /\ AllDayPage!Init /\ Uncached
       /\ agenda = None /\ changes = None /\ store = None /\ up = None /\ down = None /\ sent = None
       /\ menu = None /\ timers = None /\ panes = None /\ flight = None /\ account = None
       /\ itemType = None /\ activeFilter = None /\ items = None /\ aggregations = None /\ open = None
       /\ loading = None /\ results = None /\ selectedIndex = None /\ text = None /\ focus = None
       /\ pending = None /\ wrapping = None /\ location = None /\ watches = None /\ flipped = None
       /\ preview = None /\ stories = None /\ rows = None
    \/ /\ part = "keys" /\ KeysPage!Init /\ Uncached
       /\ agenda = None /\ changes = None /\ up = None /\ down = None /\ sent = None /\ zone = None
       /\ item = None /\ range = None /\ groups = None /\ account = None /\ itemType = None
       /\ activeFilter = None /\ items = None /\ aggregations = None /\ open = None /\ loading = None
       /\ results = None /\ selectedIndex = None /\ text = None /\ focus = None /\ pending = None
       /\ wrapping = None /\ location = None /\ watches = None /\ flipped = None /\ preview = None
       /\ stories = None /\ rows = None
    \/ /\ part = "menus" /\ MenusPage!Init /\ Uncached
       /\ agenda = None /\ changes = None /\ up = None /\ down = None /\ sent = None /\ zone = None
       /\ item = None /\ range = None /\ groups = None /\ account = None /\ itemType = None
       /\ activeFilter = None /\ items = None /\ aggregations = None /\ open = None /\ loading = None
       /\ results = None /\ selectedIndex = None /\ text = None /\ focus = None /\ pending = None
       /\ wrapping = None /\ location = None /\ watches = None /\ flipped = None /\ preview = None
       /\ stories = None /\ rows = None
    \/ /\ part = "panes" /\ PanesPage!Init /\ Uncached
       /\ agenda = None /\ changes = None /\ up = None /\ down = None /\ sent = None /\ zone = None
       /\ item = None /\ range = None /\ groups = None /\ account = None /\ itemType = None
       /\ activeFilter = None /\ items = None /\ aggregations = None /\ open = None /\ loading = None
       /\ results = None /\ selectedIndex = None /\ text = None /\ focus = None /\ pending = None
       /\ wrapping = None /\ location = None /\ watches = None /\ flipped = None /\ preview = None
       /\ stories = None /\ rows = None
    \/ /\ part = "settle" /\ SettlePage!Init /\ Uncached
       /\ agenda = None /\ changes = None /\ up = None /\ down = None /\ sent = None /\ zone = None
       /\ item = None /\ range = None /\ groups = None /\ account = None /\ itemType = None
       /\ activeFilter = None /\ items = None /\ aggregations = None /\ open = None /\ loading = None
       /\ results = None /\ selectedIndex = None /\ text = None /\ focus = None /\ pending = None
       /\ wrapping = None /\ location = None /\ watches = None /\ flipped = None /\ preview = None
       /\ stories = None /\ rows = None
    \/ /\ part = "bar" /\ BarPage!Init /\ Uncached
       /\ agenda = None /\ changes = None /\ store = None /\ up = None /\ down = None /\ sent = None
       /\ zone = None /\ item = None /\ range = None /\ groups = None /\ menu = None /\ timers = None
       /\ panes = None /\ loading = None /\ results = None /\ selectedIndex = None /\ text = None
       /\ focus = None /\ pending = None /\ wrapping = None /\ location = None /\ watches = None
       /\ flipped = None /\ preview = None /\ stories = None /\ rows = None
    \/ /\ part = "choices" /\ ChoicesPage!Init /\ Uncached
       /\ agenda = None /\ changes = None /\ store = None /\ up = None /\ down = None /\ sent = None
       /\ zone = None /\ item = None /\ range = None /\ groups = None /\ menu = None /\ timers = None
       /\ panes = None /\ loading = None /\ results = None /\ selectedIndex = None /\ text = None
       /\ focus = None /\ pending = None /\ wrapping = None /\ location = None /\ watches = None
       /\ flipped = None /\ preview = None /\ stories = None /\ rows = None
    \/ /\ part = "location" /\ LocationPage!Init /\ Uncached
       /\ agenda = None /\ changes = None /\ store = None /\ up = None /\ down = None /\ sent = None
       /\ zone = None /\ item = None /\ range = None /\ groups = None /\ menu = None /\ timers = None
       /\ panes = None /\ account = None /\ itemType = None /\ activeFilter = None /\ items = None
       /\ aggregations = None /\ watches = None /\ flipped = None /\ preview = None /\ stories = None
       /\ rows = None
    \/ /\ part = "closing" /\ ClosingPage!Init /\ Uncached
       /\ agenda = None /\ changes = None /\ store = None /\ up = None /\ down = None /\ sent = None
       /\ zone = None /\ item = None /\ range = None /\ groups = None /\ menu = None /\ timers = None
       /\ panes = None /\ account = None /\ itemType = None /\ activeFilter = None /\ items = None
       /\ aggregations = None /\ watches = None /\ flipped = None /\ preview = None /\ stories = None
       /\ rows = None
    \/ /\ part = "boxes" /\ BoxesPage!Init /\ Uncached
       /\ agenda = None /\ changes = None /\ store = None /\ up = None /\ down = None /\ sent = None
       /\ zone = None /\ range = None /\ groups = None /\ menu = None /\ timers = None /\ panes = None
       /\ account = None /\ itemType = None /\ activeFilter = None /\ items = None
       /\ aggregations = None /\ open = None /\ loading = None /\ results = None /\ selectedIndex = None
       /\ text = None /\ focus = None /\ pending = None /\ wrapping = None /\ location = None
    \/ /\ part = "latest" /\ LatestPage!Init /\ Uncached
       /\ agenda = None /\ changes = None /\ store = None /\ up = None /\ down = None /\ sent = None
       /\ zone = None /\ range = None /\ groups = None /\ menu = None /\ timers = None /\ panes = None
       /\ account = None /\ itemType = None /\ activeFilter = None /\ items = None
       /\ aggregations = None /\ open = None /\ loading = None /\ results = None /\ selectedIndex = None
       /\ text = None /\ focus = None /\ pending = None /\ wrapping = None /\ location = None
    \/ /\ part = "stories" /\ StoriesPage!Init /\ Uncached
       /\ agenda = None /\ changes = None /\ store = None /\ up = None /\ down = None /\ sent = None
       /\ zone = None /\ range = None /\ groups = None /\ menu = None /\ timers = None /\ panes = None
       /\ account = None /\ itemType = None /\ activeFilter = None /\ items = None
       /\ aggregations = None /\ open = None /\ loading = None /\ results = None /\ selectedIndex = None
       /\ text = None /\ focus = None /\ pending = None /\ wrapping = None /\ location = None
    \/ /\ part = "colours" /\ ColoursPage!Init /\ Uncached
       /\ agenda = None /\ changes = None /\ store = None /\ up = None /\ down = None /\ sent = None
       /\ zone = None /\ range = None /\ groups = None /\ menu = None /\ timers = None /\ panes = None
       /\ account = None /\ itemType = None /\ activeFilter = None /\ items = None
       /\ aggregations = None /\ open = None /\ loading = None /\ results = None /\ selectedIndex = None
       /\ text = None /\ focus = None /\ pending = None /\ wrapping = None /\ location = None
    \/ /\ part = "updates" /\ UpdatesPage!Init /\ Uncached
       /\ agenda = None /\ changes = None /\ store = None /\ up = None /\ down = None /\ sent = None
       /\ zone = None /\ range = None /\ groups = None /\ menu = None /\ timers = None /\ panes = None
       /\ account = None /\ itemType = None /\ activeFilter = None /\ items = None
       /\ aggregations = None /\ open = None /\ loading = None /\ results = None /\ selectedIndex = None
       /\ text = None /\ focus = None /\ pending = None /\ wrapping = None /\ location = None
    \/ /\ part = "watched" /\ WatchedPage!Init /\ Uncached
       /\ agenda = None /\ changes = None /\ store = None /\ up = None /\ down = None /\ sent = None
       /\ zone = None /\ range = None /\ groups = None /\ menu = None /\ timers = None /\ panes = None
       /\ account = None /\ itemType = None /\ activeFilter = None /\ items = None
       /\ aggregations = None /\ open = None /\ loading = None /\ results = None /\ selectedIndex = None
       /\ text = None /\ focus = None /\ pending = None /\ wrapping = None /\ location = None

AllNext ==
    \/ part = "cards" /\ Next /\ UNCHANGED <<part, WithoutDashboardCache>>
    \/ part = "days" /\ DaysPage!Next /\ UNCHANGED <<part, WithoutAgendaResults>>
    \/ part = "more" /\ MorePage!Next /\ UNCHANGED <<part, WithoutAgendaResults>>
    \/ part = "watches" /\ WatchesPage!Next /\ UNCHANGED <<part, WithoutAgendaResults>>
    \/ part = "races" /\ RacesPage!Next /\ UNCHANGED <<part, WithoutAgendaResults>>
    \/ part = "printed" /\ PrintedPage!Next /\ UNCHANGED <<part, WithoutAgendaGrouping>>
    \/ part = "grouped" /\ GroupedPage!Next /\ UNCHANGED <<part, WithoutAgendaGrouping>>
    \/ part = "allday" /\ AllDayPage!Next /\ UNCHANGED <<part, WithoutAgendaGrouping>>
    \/ part = "keys" /\ KeysPage!Next /\ UNCHANGED <<part, WithoutAgendaRows>>
    \/ part = "menus" /\ MenusPage!Next /\ UNCHANGED <<part, WithoutAgendaRows>>
    \/ part = "panes" /\ PanesPage!Next /\ UNCHANGED <<part, WithoutAgendaRows>>
    \/ part = "settle" /\ SettlePage!Next /\ UNCHANGED <<part, WithoutAgendaRows>>
    \/ part = "bar" /\ BarPage!Next /\ UNCHANGED <<part, WithoutAgendaFilters>>
    \/ part = "choices" /\ ChoicesPage!Next /\ UNCHANGED <<part, WithoutAgendaFilters>>
    \/ part = "location" /\ LocationPage!Next /\ UNCHANGED <<part, WithoutLocationFilter>>
    \/ part = "closing" /\ ClosingPage!Next /\ UNCHANGED <<part, WithoutLocationFilter>>
    \/ part = "boxes" /\ BoxesPage!Next /\ UNCHANGED <<part, WithoutCoverageView>>
    \/ part = "latest" /\ LatestPage!Next /\ UNCHANGED <<part, WithoutCoverageView>>
    \/ part = "stories" /\ StoriesPage!Next /\ UNCHANGED <<part, WithoutCoverageView>>
    \/ part = "colours" /\ ColoursPage!Next /\ UNCHANGED <<part, WithoutCoverageView>>
    \/ part = "updates" /\ UpdatesPage!Next /\ UNCHANGED <<part, WithoutCoverageView>>
    \/ part = "watched" /\ WatchedPage!Next /\ UNCHANGED <<part, WithoutCoverageView>>

AllSpec == AllInit /\ [][AllNext]_all

--------------------------------------------------------------------------------
(* Properties. *)
(* The list of Agenda. Whatever is pushed between its pages, each row stands under a day of its
   item and none is skipped; in every time zone an item is listed on the days it is printed
   with, folded after its first, and a planning has its row; marks of watching are those of the
   server once the answers are in (agenda/actions.ts, agenda/utils.ts: groupItems and
   getDisplayDates). *)
AgendaLists ==
    /\ part = "races" => RacesPage!TypeOK
    /\ part = "grouped" => GroupedPage!TypeOK /\ GroupedPage!ListedOnItsDays
          /\ GroupedPage!FoldedAfterFirstDay /\ GroupedPage!PreviousWereCurrent
          /\ GroupedPage!PlanHasItsRow
    /\ part = "days" => DaysPage!RowsUnderTheirDays
    /\ part = "more" => MorePage!NoneSkipped
    /\ part = "watches" => WatchesPage!WatchAgrees
    /\ part = "printed" => PrintedPage!PrintedDaysAreListed /\ PrintedPage!RangeNotReversed
    /\ part = "allday" => AllDayPage!ListedOnItsDays

(* Rows, panes, filters and coverages of Agenda. The arrow keys count from the active row, the
   preview follows it, and a menu's button closes the menu it opened; each pane settles on the
   item it shows and offers all content there is; once answered the list is what the bar asks
   for, and the drop-down what the text asks for, without losing the keyboard. Each coverage is
   shown once, in the preview of its planning, and every story the user may see can be reached
   from it; the colours of the rows, the deliveries and the marks of watching are those of the
   server when its changes have been handled (AgendaList, AgendaPreview, AgendaFilters,
   LocationFilter, agenda/components, set_delivery and set_coverages on the server). *)
AgendaControls ==
    /\ part = "menus" => MenusPage!TypeOK /\ MenusPage!MenuButtonToggles
    /\ part = "bar" => BarPage!TypeOK /\ BarPage!ListMatchesBar
    /\ part = "closing" => ClosingPage!TypeOK
    /\ part = "keys" => KeysPage!PreviewFollowsActive /\ KeysPage!KeysFollowRows
    /\ part = "panes" => PanesPage!ContentIsOffered
    /\ part = "settle" => SettlePage!PanesSettle
    /\ part = "location" => LocationPage!ResultsMatchText /\ LocationPage!KeyboardKept
    /\ part = "stories" => StoriesPage!TypeOK /\ StoriesPage!ContentReachable
    /\ part = "boxes" => BoxesPage!CoverageShownOnce
    /\ part = "latest" => LatestPage!ContentReachable
    /\ part = "colours" => ColoursPage!RowColours
    /\ part = "updates" => UpdatesPage!UpdatedAgrees
    /\ part = "watched" => WatchedPage!WatchAgrees
================================================================================
