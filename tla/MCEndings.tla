------------------------------ MODULE MCEndings ------------------------------
(* What has to come to an end: in the web client the loading of its lists, its dialogs and its
   searches, and the time without a socket, on the server the queue of the scheduled emails.
   They stand side by side: `part` says which of them runs. Only the one that runs can take a
   step, so one fairness condition serves all the pages. *)
EXTENDS Integers, Sequences, FiniteSets, TLC, WebSocketClient

CONSTANTS None, alpha, beta, gamma, politics, sport, t1, i1, ann, bob, comp1, comp2, prod1, text2

NoChanges == [publish |-> 0, correct |-> 0, remove |-> 0]
FoundWire == [q \in {politics, sport} |-> IF q = politics THEN {alpha, beta, gamma} ELSE {beta}]
SomeAnswers == {[g \in {"subject", "urgency"} |-> IF g = "subject" THEN {1, 2} ELSE {1}],
                [g \in {"subject", "urgency"} |-> IF g = "subject" THEN {1} ELSE {}]}
SomeFilters == {[g \in {"subject", "urgency"} |-> {}], [g \in {"subject", "urgency"} |-> {1}]}
Stories == {"v1", "v2", "v3", "s"}
OlderVersions == [i \in Stories |-> CASE i = "v2" -> <<"v1">> [] i = "v3" -> <<"v2", "v1">> [] OTHER -> <<>>]
Newer == [i \in Stories |-> CASE i = "v1" -> "v2" [] i = "v2" -> "v3" [] OTHER -> None]
Region(name, type, state, country) == [name |-> name, type |-> type, state |-> state, country |-> country]
FoundPlaces == [q \in {"", "s"} |->
    IF q = "s" THEN [regions |-> <<Region("springfield", "city", "illinois", "us")>>, places |-> <<>>]
               ELSE [regions |-> <<Region("us", "country", None, None)>>, places |-> <<"park">>]]
\* The socket while another page runs.
NoServer == Init /\ ~serverUp

VARIABLES part,     \* the page that runs
          feed, rev, changes, store, requests, pushes, sent, history, pos, home, form, server,
          flight, asked, saved, base, box, typed, loadingAggregations, aggregations, activeFilter,
          chosen, openGroup, searchTerm, lists, shown, body, previous, next, links, label, editor,
          now, list, dialog, open, loading, results, selectedIndex, text, focus, pending,
          wrapping, location, docs, content, enabled, times, served, notified, todo, at, found,
          copy, lock, age, pc, known, due, batch, seen, cur, slot, emailed, resent, mailed, twice,
          onTime, wanted, faults, stored, original, ancestors, nextversion, announced, guid,
          isNew, parent, docOriginal, docAncestors, docNext, target, targetAnc, fixes, unfinished,
          clean, lapsed, applied, crossed
all == <<part, feed, rev, changes, store, requests, pushes, sent, history, pos, home, form,
         server, flight, asked, saved, base, box, typed, loadingAggregations, aggregations,
         activeFilter, chosen, openGroup, searchTerm, lists, shown, body, previous, next, links,
         label, editor, now, list, dialog, open, loading, results, selectedIndex, text, focus,
         pending, wrapping, location, docs, content, enabled, times, served, notified, todo, at,
         found, copy, lock, age, pc, known, due, batch, seen, cur, slot, emailed, resent, mailed,
         twice, onTime, wanted, faults, stored, original, ancestors, nextversion, announced, guid,
         isNew, parent, docOriginal, docAncestors, docNext, target, targetAnc, fixes, unfinished,
         clean, lapsed, applied, crossed, vars>>

\* The list of Wire, on a tablet, answers in any order.
WirePage == INSTANCE WireResults WITH
    Items <- {alpha, beta, gamma}, Queries <- {politics, sport}, Matches <- FoundWire,
    NextVersion <- [i \in {alpha, beta, gamma} |-> None], Older <- <<gamma, beta, alpha>>, PageSize <- 1,
    Limit <- 3, Tablet <- TRUE, MayFail <- FALSE, AnyOrder <- TRUE, MaxRequests <- 4, MaxHistory <- 1,
    Opened <- {beta}, MaxChanges <- NoChanges
\* The home page, answers with errors.
HomePages == INSTANCE HomePage WITH
    Topics <- {t1}, Shared <- {t1}, Items <- {i1}, Access <- {i1}, Galleries <- 1, MaxSelected <- 2,
    Acts <- {"switch", "open", "mark"}, MayFail <- TRUE, AnyOrder <- FALSE, Waits <- FALSE,
    MaxFlight <- 3
\* The list of the users, answers in any order.
UsersPage == INSTANCE UserLists WITH
    Page <- "settings", Users <- {ann, bob}, First <- (ann :> 1) @@ (bob :> 2),
    Active <- (ann :> 2) @@ (bob :> 1), CompanyOf <- (ann :> comp1) @@ (bob :> comp2),
    ProductsOf <- (ann :> {prod1}) @@ (bob :> {}), TextsOf <- (ann :> {text2}) @@ (bob :> {}),
    Companies <- {comp1, comp2}, OwnCompany <- comp1, Products <- {prod1},
    ProductSection <- (prod1 :> "wire"), CompanyProducts <- {prod1}, CompanySections <- {"wire"},
    MaxSeats <- (prod1 :> 1), NameTexts <- (prod1 :> {text2}), Texts <- {text2}, Limit <- 5,
    Acts <- {"query", "company"}, AnyOrder <- TRUE, MayFail <- FALSE, MaxRequests <- 3
\* The panel of the filters.
FiltersPage == INSTANCE FilterPanel WITH
    Groups <- {"subject", "urgency"}, Keys <- {1, 2}, Answers <- SomeAnswers, Filters <- SomeFilters,
    Single <- {"urgency"}, Terms <- {""}, Matches <- [t \in {""} |-> {1, 2}], Threshold <- 1, Limit <- 1,
    PageSize <- 1, MayFail <- FALSE, Waits <- FALSE, MaxFlight <- 2
\* An opened story with its versions.
StoryPage == INSTANCE ItemView WITH
    Items <- Stories, Ancestors <- OlderVersions, NextVersion <- Newer, Killed <- {},
    Body <- [i \in Stories |-> i], AgendaOf <- [i \in Stories |-> IF i = "s" THEN "b" ELSE None],
    Slugline <- [i \in Stories |-> "slug"], Embargo <- [i \in Stories |-> 0], Pane <- "details",
    Sections <- {"body", "versions", "links", "label", "follow"}, Acts <- {"open", "close", "version"},
    AnyOrder <- FALSE, MayFail <- FALSE, Waits <- FALSE, MaxFlight <- 6, MaxTime <- 0
\* The dialog of a download, in a list whose stories may be removed.
DialogsPage == INSTANCE WireActions WITH
    Items <- {alpha}, Order <- <<alpha>>, Colleagues <- {"x"}, IsAdmin <- FALSE, Bookmarks <- FALSE,
    Acts <- {"menu", "click", "download", "search", "elsewhere"}, MayFail <- TRUE, AnyOrder <- FALSE,
    Waits <- FALSE, MaxFlight <- 2
\* The drop-down of the locations, answers in any order.
PlacesPage == INSTANCE LocationFilter WITH
    Queries <- {"", "s"}, Found <- FoundPlaces, PlaceOption <- "on", AnyOrder <- TRUE, MayFail <- FALSE,
    Waits <- FALSE, Acts <- {"mouse", "type", "close", "point"}, MaxFlight <- 2
\* The queue of the scheduled emails: one worker, one run at a time that may raise or die.
Queue == INSTANCE ScheduledNotifications WITH
    Users <- {"anna", "ben"}, Items <- {1}, Matches <- {"a1", "b1"},
    ItemOf <- [m \in {"a1", "b1"} |-> 1], UserOf <- ("a1" :> "anna") @@ ("b1" :> "ben"),
    Notifiers <- {"n1"}, Runners <- {"r1"}, Slots <- 2, Times <- [u \in {"anna", "ben"} |-> {1}],
    Choices <- {}, MayDisable <- {}, Faults <- {"error", "crash"}, MaxFaults <- 1
\* Two pushes at a time of a story and its update; processes die with their locks.
Push == INSTANCE WireChain WITH
    Items <- {1, 2}, EvolvedFrom <- [g \in {1, 2} |-> g - 1], Story <- [g \in {1, 2} |-> "story"],
    Workers <- {"w1", "w2"}, NoWorker <- None, FixUpdates <- TRUE, FixLimit <- 50,
    Faults <- {"error", "crash", "expiry"}, MaxPushes <- [g \in {1, 2} |-> 1]

ASSUME WirePageAssumption == WirePage!ConstantsOK
ASSUME HomePagesAssumption == HomePages!HomeAssumption
ASSUME UsersPageAssumption == UsersPage!UserListsAssumption
ASSUME FiltersPageAssumption == FiltersPage!PanelAssumption
ASSUME StoryPageAssumption == StoryPage!ItemViewAssumption
ASSUME DialogsPageAssumption == DialogsPage!ActionsAssumption
ASSUME PlacesPageAssumption == PlacesPage!FilterAssumption
ASSUME QueueAssumption == Queue!MatchesAssumption /\ Queue!NoneAssumption /\ Queue!TimesAssumption
ASSUME PushAssumption == Push!ItemsAssumption /\ Push!WorkersAssumption /\ Push!ParametersAssumption

--------------------------------------------------------------------------------
\* The variables of the other pages are idle.
WithoutWireResults == <<home, form, server, flight, asked, saved, base, box, typed,
                        loadingAggregations, aggregations, activeFilter, chosen, openGroup,
                        searchTerm, lists, shown, body, previous, next, links, label, editor, now,
                        list, dialog, open, loading, results, selectedIndex, text, focus, pending,
                        wrapping, location, docs, content, enabled, times, served, notified, todo,
                        at, found, copy, lock, age, pc, known, due, batch, seen, cur, slot,
                        emailed, resent, mailed, twice, onTime, wanted, faults, stored, original,
                        ancestors, nextversion, announced, guid, isNew, parent, docOriginal,
                        docAncestors, docNext, target, targetAnc, fixes, unfinished, clean,
                        lapsed, crossed, vars>>
WithoutHomePage == <<feed, rev, changes, requests, pushes, sent, history, pos, box, typed,
                     loadingAggregations, aggregations, activeFilter, chosen, openGroup,
                     searchTerm, lists, shown, body, previous, next, links, label, editor, now,
                     list, dialog, open, loading, results, selectedIndex, text, focus, pending,
                     wrapping, location, docs, content, enabled, times, served, notified, todo,
                     at, found, copy, lock, age, pc, known, due, batch, seen, cur, slot, emailed,
                     resent, mailed, twice, onTime, wanted, faults, stored, original, ancestors,
                     nextversion, announced, guid, isNew, parent, docOriginal, docAncestors,
                     docNext, target, targetAnc, fixes, unfinished, clean, lapsed, applied,
                     crossed, vars>>
WithoutUserLists == <<feed, rev, changes, pushes, history, pos, home, form, server, flight, saved,
                      base, loadingAggregations, aggregations, activeFilter, chosen, openGroup,
                      searchTerm, lists, shown, body, previous, next, links, label, editor, now,
                      list, dialog, open, loading, results, selectedIndex, text, focus, pending,
                      wrapping, location, docs, content, enabled, times, served, notified, todo,
                      at, found, copy, lock, age, pc, known, due, batch, seen, cur, slot, emailed,
                      resent, mailed, twice, onTime, wanted, faults, stored, original, ancestors,
                      nextversion, announced, guid, isNew, parent, docOriginal, docAncestors,
                      docNext, target, targetAnc, fixes, unfinished, clean, lapsed, applied,
                      crossed, vars>>
WithoutFilterPanel == <<feed, rev, changes, store, requests, pushes, sent, history, pos, home,
                        form, server, asked, saved, base, box, typed, shown, body, previous, next,
                        links, label, editor, now, list, dialog, open, loading, results,
                        selectedIndex, text, focus, pending, wrapping, location, docs, content,
                        enabled, times, served, notified, todo, at, found, copy, lock, age, pc,
                        known, due, batch, seen, cur, slot, emailed, resent, mailed, twice,
                        onTime, wanted, faults, stored, original, ancestors, nextversion,
                        announced, guid, isNew, parent, docOriginal, docAncestors, docNext,
                        target, targetAnc, fixes, unfinished, clean, lapsed, applied, crossed,
                        vars>>
WithoutItemView == <<feed, rev, changes, store, requests, pushes, sent, history, pos, home, form,
                     server, asked, saved, base, box, typed, loadingAggregations, aggregations,
                     activeFilter, chosen, openGroup, searchTerm, lists, list, dialog, open,
                     loading, results, selectedIndex, text, focus, pending, wrapping, location,
                     docs, content, enabled, times, served, notified, todo, at, found, copy, lock,
                     age, pc, known, due, batch, seen, cur, slot, emailed, resent, mailed, twice,
                     onTime, wanted, faults, stored, original, ancestors, nextversion, announced,
                     guid, isNew, parent, docOriginal, docAncestors, docNext, target, targetAnc,
                     fixes, unfinished, clean, lapsed, applied, crossed, vars>>
WithoutWireActions == <<feed, rev, changes, requests, pushes, sent, history, pos, home, form,
                        asked, saved, base, box, typed, loadingAggregations, aggregations,
                        activeFilter, chosen, openGroup, searchTerm, lists, shown, body, previous,
                        next, links, label, editor, now, open, loading, results, selectedIndex,
                        text, focus, pending, wrapping, location, docs, content, enabled, times,
                        served, notified, todo, at, found, copy, lock, age, pc, known, due, batch,
                        seen, cur, slot, emailed, resent, mailed, twice, onTime, wanted, faults,
                        stored, original, ancestors, nextversion, announced, guid, isNew, parent,
                        docOriginal, docAncestors, docNext, target, targetAnc, fixes, unfinished,
                        clean, lapsed, applied, vars>>
WithoutLocationFilter == <<feed, rev, changes, store, requests, pushes, sent, history, pos, home,
                           form, server, asked, saved, base, box, typed, loadingAggregations,
                           aggregations, activeFilter, chosen, openGroup, searchTerm, lists,
                           shown, body, previous, next, links, label, editor, now, list, dialog,
                           docs, content, enabled, times, served, notified, todo, at, found, copy,
                           lock, age, pc, known, due, batch, seen, cur, slot, emailed, resent,
                           mailed, twice, onTime, wanted, faults, stored, original, ancestors,
                           nextversion, announced, guid, isNew, parent, docOriginal, docAncestors,
                           docNext, target, targetAnc, fixes, unfinished, clean, lapsed, applied,
                           crossed, vars>>
WithoutWebSocketClient == <<feed, rev, changes, store, requests, pushes, sent, history, pos, home,
                            form, server, flight, asked, saved, base, box, typed,
                            loadingAggregations, aggregations, activeFilter, chosen, openGroup,
                            searchTerm, lists, shown, body, previous, next, links, label, editor,
                            now, list, dialog, open, loading, results, selectedIndex, text, focus,
                            pending, wrapping, location, docs, content, enabled, times, served,
                            notified, todo, at, found, copy, lock, age, pc, known, due, batch,
                            seen, cur, slot, emailed, resent, mailed, twice, onTime, wanted,
                            faults, stored, original, ancestors, nextversion, announced, guid,
                            isNew, parent, docOriginal, docAncestors, docNext, target, targetAnc,
                            fixes, unfinished, clean, lapsed, applied, crossed>>
WithoutScheduledNotifications == <<feed, rev, changes, store, requests, pushes, sent, history,
                                   pos, server, flight, asked, saved, base, box, typed,
                                   loadingAggregations, aggregations, activeFilter, openGroup,
                                   searchTerm, lists, shown, body, previous, next, links, label,
                                   editor, now, list, dialog, open, loading, results,
                                   selectedIndex, text, focus, pending, wrapping, location,
                                   stored, original, ancestors, nextversion, announced, guid,
                                   isNew, parent, docOriginal, docAncestors, docNext, target,
                                   targetAnc, fixes, unfinished, clean, lapsed, applied, crossed,
                                   vars>>
WithoutWireChain == <<feed, rev, changes, store, requests, sent, history, pos, home, form, server,
                      flight, asked, saved, base, box, typed, loadingAggregations, aggregations,
                      activeFilter, chosen, openGroup, searchTerm, lists, shown, body, previous,
                      next, links, label, editor, now, list, dialog, open, loading, results,
                      selectedIndex, text, focus, pending, wrapping, location, docs, content,
                      enabled, times, served, notified, todo, at, found, copy, age, known, due,
                      batch, seen, cur, slot, emailed, resent, mailed, twice, onTime, wanted,
                      faults, applied, crossed, vars>>

AllInit ==
    \/ /\ part = "wire" /\ WirePage!Init /\ NoServer
       /\ home = None /\ form = None /\ server = None /\ flight = None /\ asked = None
       /\ saved = None /\ base = None /\ box = None /\ typed = None /\ loadingAggregations = None
       /\ aggregations = None /\ activeFilter = None /\ chosen = None /\ openGroup = None
       /\ searchTerm = None /\ lists = None /\ shown = None /\ body = None /\ previous = None
       /\ next = None /\ links = None /\ label = None /\ editor = None /\ now = None
       /\ list = None /\ dialog = None /\ open = None /\ loading = None /\ results = None
       /\ selectedIndex = None /\ text = None /\ focus = None /\ pending = None /\ wrapping = None
       /\ location = None /\ docs = None /\ content = None /\ enabled = None /\ times = None
       /\ served = None /\ notified = None /\ todo = None /\ at = None /\ found = None
       /\ copy = None /\ lock = None /\ age = None /\ pc = None /\ known = None /\ due = None
       /\ batch = None /\ seen = None /\ cur = None /\ slot = None /\ emailed = None
       /\ resent = None /\ mailed = None /\ twice = None /\ onTime = None /\ wanted = None
       /\ faults = None /\ stored = None /\ original = None /\ ancestors = None
       /\ nextversion = None /\ announced = None /\ guid = None /\ isNew = None /\ parent = None
       /\ docOriginal = None /\ docAncestors = None /\ docNext = None /\ target = None
       /\ targetAnc = None /\ fixes = None /\ unfinished = None /\ clean = None /\ lapsed = None
       /\ crossed = None
    \/ /\ part = "home" /\ HomePages!Init /\ NoServer
       /\ feed = None /\ rev = None /\ changes = None /\ requests = None /\ pushes = None
       /\ sent = None /\ history = None /\ pos = None /\ box = None /\ typed = None
       /\ loadingAggregations = None /\ aggregations = None /\ activeFilter = None
       /\ chosen = None /\ openGroup = None /\ searchTerm = None /\ lists = None /\ shown = None
       /\ body = None /\ previous = None /\ next = None /\ links = None /\ label = None
       /\ editor = None /\ now = None /\ list = None /\ dialog = None /\ open = None
       /\ loading = None /\ results = None /\ selectedIndex = None /\ text = None /\ focus = None
       /\ pending = None /\ wrapping = None /\ location = None /\ docs = None /\ content = None
       /\ enabled = None /\ times = None /\ served = None /\ notified = None /\ todo = None
       /\ at = None /\ found = None /\ copy = None /\ lock = None /\ age = None /\ pc = None
       /\ known = None /\ due = None /\ batch = None /\ seen = None /\ cur = None /\ slot = None
       /\ emailed = None /\ resent = None /\ mailed = None /\ twice = None /\ onTime = None
       /\ wanted = None /\ faults = None /\ stored = None /\ original = None /\ ancestors = None
       /\ nextversion = None /\ announced = None /\ guid = None /\ isNew = None /\ parent = None
       /\ docOriginal = None /\ docAncestors = None /\ docNext = None /\ target = None
       /\ targetAnc = None /\ fixes = None /\ unfinished = None /\ clean = None /\ lapsed = None
       /\ applied = None /\ crossed = None
    \/ /\ part = "users" /\ UsersPage!Init /\ NoServer
       /\ feed = None /\ rev = None /\ changes = None /\ pushes = None /\ history = None
       /\ pos = None /\ home = None /\ form = None /\ server = None /\ flight = None
       /\ saved = None /\ base = None /\ loadingAggregations = None /\ aggregations = None
       /\ activeFilter = None /\ chosen = None /\ openGroup = None /\ searchTerm = None
       /\ lists = None /\ shown = None /\ body = None /\ previous = None /\ next = None
       /\ links = None /\ label = None /\ editor = None /\ now = None /\ list = None
       /\ dialog = None /\ open = None /\ loading = None /\ results = None /\ selectedIndex = None
       /\ text = None /\ focus = None /\ pending = None /\ wrapping = None /\ location = None
       /\ docs = None /\ content = None /\ enabled = None /\ times = None /\ served = None
       /\ notified = None /\ todo = None /\ at = None /\ found = None /\ copy = None
       /\ lock = None /\ age = None /\ pc = None /\ known = None /\ due = None /\ batch = None
       /\ seen = None /\ cur = None /\ slot = None /\ emailed = None /\ resent = None
       /\ mailed = None /\ twice = None /\ onTime = None /\ wanted = None /\ faults = None
       /\ stored = None /\ original = None /\ ancestors = None /\ nextversion = None
       /\ announced = None /\ guid = None /\ isNew = None /\ parent = None /\ docOriginal = None
       /\ docAncestors = None /\ docNext = None /\ target = None /\ targetAnc = None
       /\ fixes = None /\ unfinished = None /\ clean = None /\ lapsed = None /\ applied = None
       /\ crossed = None
    \/ /\ part = "filters" /\ FiltersPage!Init /\ NoServer
       /\ feed = None /\ rev = None /\ changes = None /\ store = None /\ requests = None
       /\ pushes = None /\ sent = None /\ history = None /\ pos = None /\ home = None
       /\ form = None /\ server = None /\ asked = None /\ saved = None /\ base = None
       /\ box = None /\ typed = None /\ shown = None /\ body = None /\ previous = None
       /\ next = None /\ links = None /\ label = None /\ editor = None /\ now = None
       /\ list = None /\ dialog = None /\ open = None /\ loading = None /\ results = None
       /\ selectedIndex = None /\ text = None /\ focus = None /\ pending = None /\ wrapping = None
       /\ location = None /\ docs = None /\ content = None /\ enabled = None /\ times = None
       /\ served = None /\ notified = None /\ todo = None /\ at = None /\ found = None
       /\ copy = None /\ lock = None /\ age = None /\ pc = None /\ known = None /\ due = None
       /\ batch = None /\ seen = None /\ cur = None /\ slot = None /\ emailed = None
       /\ resent = None /\ mailed = None /\ twice = None /\ onTime = None /\ wanted = None
       /\ faults = None /\ stored = None /\ original = None /\ ancestors = None
       /\ nextversion = None /\ announced = None /\ guid = None /\ isNew = None /\ parent = None
       /\ docOriginal = None /\ docAncestors = None /\ docNext = None /\ target = None
       /\ targetAnc = None /\ fixes = None /\ unfinished = None /\ clean = None /\ lapsed = None
       /\ applied = None /\ crossed = None
    \/ /\ part = "story" /\ StoryPage!Init /\ NoServer
       /\ feed = None /\ rev = None /\ changes = None /\ store = None /\ requests = None
       /\ pushes = None /\ sent = None /\ history = None /\ pos = None /\ home = None
       /\ form = None /\ server = None /\ asked = None /\ saved = None /\ base = None
       /\ box = None /\ typed = None /\ loadingAggregations = None /\ aggregations = None
       /\ activeFilter = None /\ chosen = None /\ openGroup = None /\ searchTerm = None
       /\ lists = None /\ list = None /\ dialog = None /\ open = None /\ loading = None
       /\ results = None /\ selectedIndex = None /\ text = None /\ focus = None /\ pending = None
       /\ wrapping = None /\ location = None /\ docs = None /\ content = None /\ enabled = None
       /\ times = None /\ served = None /\ notified = None /\ todo = None /\ at = None
       /\ found = None /\ copy = None /\ lock = None /\ age = None /\ pc = None /\ known = None
       /\ due = None /\ batch = None /\ seen = None /\ cur = None /\ slot = None /\ emailed = None
       /\ resent = None /\ mailed = None /\ twice = None /\ onTime = None /\ wanted = None
       /\ faults = None /\ stored = None /\ original = None /\ ancestors = None
       /\ nextversion = None /\ announced = None /\ guid = None /\ isNew = None /\ parent = None
       /\ docOriginal = None /\ docAncestors = None /\ docNext = None /\ target = None
       /\ targetAnc = None /\ fixes = None /\ unfinished = None /\ clean = None /\ lapsed = None
       /\ applied = None /\ crossed = None
    \/ /\ part = "dialogs" /\ DialogsPage!Init /\ NoServer
       /\ feed = None /\ rev = None /\ changes = None /\ requests = None /\ pushes = None
       /\ sent = None /\ history = None /\ pos = None /\ home = None /\ form = None
       /\ asked = None /\ saved = None /\ base = None /\ box = None /\ typed = None
       /\ loadingAggregations = None /\ aggregations = None /\ activeFilter = None
       /\ chosen = None /\ openGroup = None /\ searchTerm = None /\ lists = None /\ shown = None
       /\ body = None /\ previous = None /\ next = None /\ links = None /\ label = None
       /\ editor = None /\ now = None /\ open = None /\ loading = None /\ results = None
       /\ selectedIndex = None /\ text = None /\ focus = None /\ pending = None /\ wrapping = None
       /\ location = None /\ docs = None /\ content = None /\ enabled = None /\ times = None
       /\ served = None /\ notified = None /\ todo = None /\ at = None /\ found = None
       /\ copy = None /\ lock = None /\ age = None /\ pc = None /\ known = None /\ due = None
       /\ batch = None /\ seen = None /\ cur = None /\ slot = None /\ emailed = None
       /\ resent = None /\ mailed = None /\ twice = None /\ onTime = None /\ wanted = None
       /\ faults = None /\ stored = None /\ original = None /\ ancestors = None
       /\ nextversion = None /\ announced = None /\ guid = None /\ isNew = None /\ parent = None
       /\ docOriginal = None /\ docAncestors = None /\ docNext = None /\ target = None
       /\ targetAnc = None /\ fixes = None /\ unfinished = None /\ clean = None /\ lapsed = None
       /\ applied = None
    \/ /\ part = "places" /\ PlacesPage!Init /\ NoServer
       /\ feed = None /\ rev = None /\ changes = None /\ store = None /\ requests = None
       /\ pushes = None /\ sent = None /\ history = None /\ pos = None /\ home = None
       /\ form = None /\ server = None /\ asked = None /\ saved = None /\ base = None
       /\ box = None /\ typed = None /\ loadingAggregations = None /\ aggregations = None
       /\ activeFilter = None /\ chosen = None /\ openGroup = None /\ searchTerm = None
       /\ lists = None /\ shown = None /\ body = None /\ previous = None /\ next = None
       /\ links = None /\ label = None /\ editor = None /\ now = None /\ list = None
       /\ dialog = None /\ docs = None /\ content = None /\ enabled = None /\ times = None
       /\ served = None /\ notified = None /\ todo = None /\ at = None /\ found = None
       /\ copy = None /\ lock = None /\ age = None /\ pc = None /\ known = None /\ due = None
       /\ batch = None /\ seen = None /\ cur = None /\ slot = None /\ emailed = None
       /\ resent = None /\ mailed = None /\ twice = None /\ onTime = None /\ wanted = None
       /\ faults = None /\ stored = None /\ original = None /\ ancestors = None
       /\ nextversion = None /\ announced = None /\ guid = None /\ isNew = None /\ parent = None
       /\ docOriginal = None /\ docAncestors = None /\ docNext = None /\ target = None
       /\ targetAnc = None /\ fixes = None /\ unfinished = None /\ clean = None /\ lapsed = None
       /\ applied = None /\ crossed = None
    \/ /\ part = "socket" /\ Init
       /\ feed = None /\ rev = None /\ changes = None /\ store = None /\ requests = None
       /\ pushes = None /\ sent = None /\ history = None /\ pos = None /\ home = None
       /\ form = None /\ server = None /\ flight = None /\ asked = None /\ saved = None
       /\ base = None /\ box = None /\ typed = None /\ loadingAggregations = None
       /\ aggregations = None /\ activeFilter = None /\ chosen = None /\ openGroup = None
       /\ searchTerm = None /\ lists = None /\ shown = None /\ body = None /\ previous = None
       /\ next = None /\ links = None /\ label = None /\ editor = None /\ now = None
       /\ list = None /\ dialog = None /\ open = None /\ loading = None /\ results = None
       /\ selectedIndex = None /\ text = None /\ focus = None /\ pending = None /\ wrapping = None
       /\ location = None /\ docs = None /\ content = None /\ enabled = None /\ times = None
       /\ served = None /\ notified = None /\ todo = None /\ at = None /\ found = None
       /\ copy = None /\ lock = None /\ age = None /\ pc = None /\ known = None /\ due = None
       /\ batch = None /\ seen = None /\ cur = None /\ slot = None /\ emailed = None
       /\ resent = None /\ mailed = None /\ twice = None /\ onTime = None /\ wanted = None
       /\ faults = None /\ stored = None /\ original = None /\ ancestors = None
       /\ nextversion = None /\ announced = None /\ guid = None /\ isNew = None /\ parent = None
       /\ docOriginal = None /\ docAncestors = None /\ docNext = None /\ target = None
       /\ targetAnc = None /\ fixes = None /\ unfinished = None /\ clean = None /\ lapsed = None
       /\ applied = None /\ crossed = None
    \/ /\ part = "queue" /\ Queue!Init /\ NoServer
       /\ feed = None /\ rev = None /\ changes = None /\ store = None /\ requests = None
       /\ pushes = None /\ sent = None /\ history = None /\ pos = None /\ server = None
       /\ flight = None /\ asked = None /\ saved = None /\ base = None /\ box = None
       /\ typed = None /\ loadingAggregations = None /\ aggregations = None /\ activeFilter = None
       /\ openGroup = None /\ searchTerm = None /\ lists = None /\ shown = None /\ body = None
       /\ previous = None /\ next = None /\ links = None /\ label = None /\ editor = None
       /\ now = None /\ list = None /\ dialog = None /\ open = None /\ loading = None
       /\ results = None /\ selectedIndex = None /\ text = None /\ focus = None /\ pending = None
       /\ wrapping = None /\ location = None /\ stored = None /\ original = None
       /\ ancestors = None /\ nextversion = None /\ announced = None /\ guid = None
       /\ isNew = None /\ parent = None /\ docOriginal = None /\ docAncestors = None
       /\ docNext = None /\ target = None /\ targetAnc = None /\ fixes = None /\ unfinished = None
       /\ clean = None /\ lapsed = None /\ applied = None /\ crossed = None
    \/ /\ part = "push" /\ Push!Init /\ NoServer
       /\ feed = None /\ rev = None /\ changes = None /\ store = None /\ requests = None
       /\ sent = None /\ history = None /\ pos = None /\ home = None /\ form = None
       /\ server = None /\ flight = None /\ asked = None /\ saved = None /\ base = None
       /\ box = None /\ typed = None /\ loadingAggregations = None /\ aggregations = None
       /\ activeFilter = None /\ chosen = None /\ openGroup = None /\ searchTerm = None
       /\ lists = None /\ shown = None /\ body = None /\ previous = None /\ next = None
       /\ links = None /\ label = None /\ editor = None /\ now = None /\ list = None
       /\ dialog = None /\ open = None /\ loading = None /\ results = None /\ selectedIndex = None
       /\ text = None /\ focus = None /\ pending = None /\ wrapping = None /\ location = None
       /\ docs = None /\ content = None /\ enabled = None /\ times = None /\ served = None
       /\ notified = None /\ todo = None /\ at = None /\ found = None /\ copy = None /\ age = None
       /\ known = None /\ due = None /\ batch = None /\ seen = None /\ cur = None /\ slot = None
       /\ emailed = None /\ resent = None /\ mailed = None /\ twice = None /\ onTime = None
       /\ wanted = None /\ faults = None /\ applied = None /\ crossed = None

AllNext ==
    \/ part = "wire" /\ WirePage!Next /\ UNCHANGED <<part, WithoutWireResults>>
    \/ part = "home" /\ HomePages!Next /\ UNCHANGED <<part, WithoutHomePage>>
    \/ part = "users" /\ UsersPage!Next /\ UNCHANGED <<part, WithoutUserLists>>
    \/ part = "filters" /\ FiltersPage!Next /\ UNCHANGED <<part, WithoutFilterPanel>>
    \/ part = "story" /\ StoryPage!Next /\ UNCHANGED <<part, WithoutItemView>>
    \/ part = "dialogs" /\ DialogsPage!Next /\ UNCHANGED <<part, WithoutWireActions>>
    \/ part = "places" /\ PlacesPage!Next /\ UNCHANGED <<part, WithoutLocationFilter>>
    \/ part = "socket" /\ Next /\ UNCHANGED <<part, WithoutWebSocketClient>>
    \/ part = "queue" /\ Queue!Next /\ UNCHANGED <<part, WithoutScheduledNotifications>>
    \/ part = "push" /\ Push!Next /\ UNCHANGED <<part, WithoutWireChain>>

\* Requests are answered, the delayed search is made and the interval of the socket runs.
Answers ==
    \/ part = "wire" /\ (\E r \in requests : WirePage!Answer(r)) /\ UNCHANGED <<part, WithoutWireResults>>
    \/ part = "home" /\ Len(flight) > 0 /\ HomePages!Answer(1) /\ UNCHANGED <<part, WithoutHomePage>>
    \/ part = "users" /\ (\E r \in requests : UsersPage!Answer(r)) /\ UNCHANGED <<part, WithoutUserLists>>
    \/ part = "filters" /\ FiltersPage!recieveAggs /\ UNCHANGED <<part, WithoutFilterPanel>>
    \/ part = "story" /\ (\E n \in DOMAIN flight, ok \in BOOLEAN : StoryPage!Answer(n, ok)) /\ UNCHANGED <<part, WithoutItemView>>
    \/ part = "dialogs" /\ flight # <<>> /\ (DialogsPage!Serve(1) \/ DialogsPage!Answer(1)) /\ UNCHANGED <<part, WithoutWireActions>>
    \/ part = "places" /\ PlacesPage!handleSearch /\ UNCHANGED <<part, WithoutLocationFilter>>
    \/ part = "socket" /\ (Tick /\ current' # current) /\ UNCHANGED <<part, WithoutWebSocketClient>>

\* Answers are handled, the search of a place is answered and the socket opens.
Deliveries ==
    \/ part = "wire" /\ WirePage!Deliver /\ UNCHANGED <<part, WithoutWireResults>>
    \/ part = "places" /\ PlacesPage!Answer /\ UNCHANGED <<part, WithoutLocationFilter>>
    \/ part = "socket" /\ OnOpen /\ UNCHANGED <<part, WithoutWebSocketClient>>

\* The list is scrolled back, and the socket learns that it is closed.
Closings ==
    \/ part = "places" /\ PlacesPage!ScrolledBack /\ UNCHANGED <<part, WithoutLocationFilter>>
    \/ part = "socket" /\ OnClose /\ UNCHANGED <<part, WithoutWebSocketClient>>

\* The steps of the queue (see ScheduledNotifications).
OfQueue(A) == part = "queue" /\ A /\ UNCHANGED <<part, WithoutScheduledNotifications>>
QueueFairness ==
    /\ WF_all(OfQueue(Queue!NotifierStep("n1")))
    /\ WF_all(OfQueue(Queue!RunStep("r1")))
    /\ WF_all(OfQueue(Queue!LockExpires))
    /\ SF_all(OfQueue(Queue!Tick))
    /\ \A s \in 1 .. 2 :
        /\ SF_all(OfQueue(slot = s /\ Queue!StartRun("r1")))
        /\ SF_all(OfQueue(slot = s /\ Queue!ReadUsers("r1")))

\* The steps of the pushes (see WireChain).
OfPush(A) == part = "push" /\ A /\ UNCHANGED <<part, WithoutWireChain>>
PushFairness ==
    /\ \A w \in {"w1", "w2"} : WF_all(OfPush(Push!Step(w)))
    /\ \A g \in {1, 2} : WF_all(OfPush(Push!LockExpires(g)))

AllSpec == AllInit /\ [][AllNext]_all /\ WF_all(Answers) /\ WF_all(Deliveries) /\ WF_all(Closings) /\ QueueFairness /\ PushFairness

--------------------------------------------------------------------------------
(* Properties. *)
(* If the server is up for good and something has subscribed, the page in the end has an open
   socket, or was shut down: the interval of the client tries until it succeeds (websocket.ts). *)
Reconnects ==
    (<>[](part = "socket" /\ serverUp) /\ <>(part = "socket" /\ listeners # {})) =>
        <>[](part = "socket" => current = "open" \/ shuttingDown)

(* The list of Wire, the home page, the users, the filters and the versions of a story stop
   loading, the dialog of a download stops submitting and the search for locations ends: each
   request that is answered, or fails, ends what it began. *)
LoadingEnds ==
    /\ (part = "wire" /\ store.isLoading) ~> (part = "wire" => ~store.isLoading)
    /\ (part = "home" /\ home.loading) ~> (part = "home" => ~home.loading)
    /\ (part = "users" /\ store.loading) ~> (part = "users" => ~store.loading)
    /\ (part = "filters" /\ loadingAggregations) ~> (part = "filters" => ~loadingAggregations)
    /\ (part = "story" /\ previous.loading) ~> (part = "story" => ~previous.loading)
    /\ (part = "dialogs" /\ dialog.submitting) ~> (part = "dialogs" => ~dialog.submitting)
    /\ (part = "places" /\ open /\ loading) ~> (part = "places" => ~loading)

(* What a process that dies leaves on the server comes to an end: every document of the queue is
   dealt with, though a run has died with the lock or failed at the document, and the lock of
   every pushed item becomes free again (send_scheduled_notifications, push/views.py: locks
   expire). *)
ServerWorkEnds ==
    /\ \A d \in {"a1", "b1"} : (part = "queue" /\ d \in docs) ~> (part = "queue" => d \notin docs)
    /\ \A g \in {1, 2} : (part = "push" /\ lock[g] # None) ~> (part = "push" => lock[g] = None)
================================================================================
