------------------------------ MODULE MCReaderPages ------------------------------
(* What a reader has beside Agenda: Wire with its list, searches, filters and stories, the news
   briefings, the home page, the followed topics, the profile, the notifications and the times
   of their emails.  They stand side by side: `part` says which of them runs, in a small
   instance of its own. *)
EXTENDS Integers, Sequences, FiniteSets, TLC, ScheduleTimes

CONSTANTS None, alpha, beta, gamma, delta, politics, sport, q1, n1, n2, p1, k1, s1, t1, t2, t3, fu,
          fc, nu, nc, i1, i2

\* What the searches of Wire find; d is published while the page is open and supersedes c.
Finds(items) == [q \in {politics, sport} |-> IF q = politics THEN items ELSE items \cap {beta, delta}]
Changes(published, corrected, removed) == [publish |-> published, correct |-> corrected, remove |-> removed]
\* The topics of the search page.
AnyTopic == [query |-> None, created |-> None, navigation |-> {}, filter |-> None, product |-> None,
             advanced |-> None, folder |-> None]
TwoTopics == (t1 :> [AnyTopic EXCEPT !.query = q1, !.filter = {<<"genre", "a">>}, !.created = {"last"}]) @@
             (t2 :> [AnyTopic EXCEPT !.navigation = {n1},
                       !.advanced = {<<"all", k1>>, <<"fields", "headline">>, <<"fields", "body_html">>}])
PlainURL == [topic |-> None, q |-> None, created |-> None, navigation |-> None, filter |-> None,
             product |-> None, advanced |-> None, sort |-> None]
\* The answers to a request for aggregations: the first group has all keys, or some.
SomeAnswers(groups, keys) ==
    {[g \in groups |-> IF g = "subject" THEN keys ELSE {1, 2}],
     [g \in groups |-> IF g = "subject" THEN {k \in keys : k > 2} ELSE {2}],
     [g \in groups |-> IF g = "subject" THEN {1} ELSE {}]}
SomeFilters(groups) == {[g \in groups |-> {}], [g \in groups |-> IF g = "subject" THEN {2} ELSE {1}]}
EvenHaveA(keys) == [t \in {"", "a"} |-> IF t = "" THEN keys ELSE {k \in keys : k % 2 = 0}]
\* Three versions of a story, and another that is linked to an agenda item too.
Stories == {"v1", "v2", "v3", "s"}
OlderVersions == [i \in Stories |-> CASE i = "v2" -> <<"v1">> [] i = "v3" -> <<"v2", "v1">> [] OTHER -> <<>>]
Newer == [i \in Stories |-> CASE i = "v1" -> "v2" [] i = "v2" -> "v3" [] OTHER -> None]
Bodies == [i \in Stories |-> IF i = "v1" THEN None ELSE i]
Agenda == [i \in Stories |-> CASE i = "v1" -> None [] i = "s" -> "b" [] OTHER -> "a"]
Sluglines == [i \in Stories |-> IF i = "s" THEN None ELSE "slug"]
Embargoes == [i \in Stories |-> IF i \in {"v2", "s"} THEN 1 ELSE 0]
\* The media of a story; what is embedded in the text may be that of another association.
MediaKeys == {"featuremedia", "editor_1", "b1"}
Associations == {m \in [key : MediaKeys, type : {"picture", "video"}, guid : MediaKeys, renditions : BOOLEAN] :
                    m.guid = m.key \/ (m.key = "editor_1" /\ m.guid = "b1")}
OneMedia(x, y) == x.key # y.key /\ (x.guid = y.guid => x.type = y.type /\ x.renditions = y.renditions)
MediaLists == {<<>>} \union {<<x>> : x \in Associations} \union {<<x, y>> : x, y \in Associations}
                 \union {<<x, y, z>> : x, y, z \in Associations}
StoriesWithMedia == {[type |-> t, killed |-> k, ancestors |-> 1, associations |-> l] :
                        t \in {"text", "video"}, k \in BOOLEAN,
                        l \in {m \in MediaLists : \A i, j \in DOMAIN m : i # j => OneMedia(m[i], m[j])}}
Entry(k, f) == [kind |-> k, field |-> f]
Entries == {Entry("separator", "/"), Entry("separator", "//"), Entry("field", "source"),
            Entry("field", "department"), Entry("styled", "slugline"), Entry("component", "version")}
Lines == {<<x, y, z>> : x, y, z \in Entries}
SomeTexts == UNION {[1 .. n -> {"word", "highlight"}] : n \in 0 .. 6}
\* Followed topics: one of the reader's own, one he shares and one of a colleague.
Mine == [owner |-> "me", global |-> FALSE, folder |-> None, label |-> "a", subs |-> {}, ver |-> 0]
OwnTopic == t1 :> [Mine EXCEPT !.folder = fu]
SharedTopic == t2 :> [Mine EXCEPT !.global = TRUE, !.folder = fc]
ColleaguesTopic == t3 :> [Mine EXCEPT !.owner = "other", !.global = TRUE, !.subs = {"other"}]
OneSection == [x \in {t1, t2, t3, n1, fu, fc, nu, nc} |-> "topics"]
TwoSections == [OneSection EXCEPT ![t2] = "events", ![fc] = "events"]
CompanyFolders == [f \in {fu, fc, nu} |-> f = fc]
\* The emails while another page runs.
Unasked == Init

VARIABLES part,     \* the page that runs
          feed, rev, changes, store, requests, pushes, sent, history, pos, list, dialog, server,
          flight, hist, shown, panel, loadingAggregations, aggregations, activeFilter, chosen,
          openGroup, searchTerm, lists, body, previous, next, links, label, editor, now, story,
          fields, text, rendered, click, key, db, ui, up, down, page, left, srv, modal, fullUser,
          today, ahead, dateToday, job, runs, told, home, form, asked, saved, base, stored,
          unused, displayed, connected, untold, events, applied, crossed, raced
all == <<part, feed, rev, changes, store, requests, pushes, sent, history, pos, list, dialog,
         server, flight, hist, shown, panel, loadingAggregations, aggregations, activeFilter,
         chosen, openGroup, searchTerm, lists, body, previous, next, links, label, editor, now,
         story, fields, text, rendered, click, key, db, ui, up, down, page, left, srv, modal,
         fullUser, today, ahead, dateToday, job, runs, told, home, form, asked, saved, base,
         stored, unused, displayed, connected, untold, events, applied, crossed, raced, vars>>

\* The list of Wire, answers in the order of their requests.
NewsPage == INSTANCE WireResults WITH
    Items <- {alpha, beta, gamma, delta}, Queries <- {politics, sport},
    Matches <- Finds({alpha, beta, gamma, delta}),
    NextVersion <- [i \in {alpha, beta, gamma, delta} |-> IF i = gamma THEN delta ELSE None],
    Older <- <<beta, alpha>>, PageSize <- 2, Limit <- 3, Tablet <- FALSE, MayFail <- FALSE,
    AnyOrder <- FALSE, MaxRequests <- 5, MaxHistory <- 0, Opened <- {}, MaxChanges <- Changes(2, 1, 0)
\* The list of Wire, the answers to two searches overtaking each other.
OvertakenPage == INSTANCE WireResults WITH
    Items <- {alpha, beta, delta}, Queries <- {politics, sport}, Matches <- Finds({alpha, beta, delta}),
    NextVersion <- [i \in {alpha, beta, delta} |-> None], Older <- <<beta, alpha>>, PageSize <- 1,
    Limit <- 3, Tablet <- FALSE, MayFail <- FALSE, AnyOrder <- TRUE, MaxRequests <- 6, MaxHistory <- 1,
    Opened <- {}, MaxChanges <- Changes(1, 0, 0)
\* The list of Wire, answers in any order or none.
ResultsPage == INSTANCE WireResults WITH
    Items <- {alpha, beta}, Queries <- {politics}, Matches <- [q \in {politics} |-> {alpha, beta}],
    NextVersion <- [i \in {alpha, beta} |-> None], Older <- <<alpha>>, PageSize <- 1, Limit <- 3,
    Tablet <- FALSE, MayFail <- TRUE, AnyOrder <- TRUE, MaxRequests <- 4, MaxHistory <- 0,
    Opened <- {beta}, MaxChanges <- Changes(1, 0, 1)
\* Clicks and keys in the list.
KeysPage == INSTANCE WireActions WITH
    Items <- {alpha, beta, gamma}, Order <- <<alpha, beta, gamma>>, Colleagues <- {"x", "y"},
    IsAdmin <- FALSE, Bookmarks <- FALSE, Acts <- {"click", "keys", "search"}, MayFail <- TRUE,
    AnyOrder <- FALSE, Waits <- TRUE, MaxFlight <- 2
\* The dialogs to share and to download.
DialogsPage == INSTANCE WireActions WITH
    Items <- {alpha, beta}, Order <- <<alpha, beta>>, Colleagues <- {"x", "y"}, IsAdmin <- FALSE,
    Bookmarks <- FALSE, Acts <- {"menu", "select", "share", "download", "cancel"}, MayFail <- TRUE,
    AnyOrder <- FALSE, Waits <- TRUE, MaxFlight <- 1
\* Bookmarks and the like, set and taken away.
MarksPage == INSTANCE WireActions WITH
    Items <- {alpha, beta}, Order <- <<alpha, beta>>, Colleagues <- {"x", "y"}, IsAdmin <- FALSE,
    Bookmarks <- FALSE, Acts <- {"select", "mark", "search"}, MayFail <- TRUE, AnyOrder <- TRUE,
    Waits <- FALSE, MaxFlight <- 2
\* Stories removed by an administrator.
RemovalsPage == INSTANCE WireActions WITH
    Items <- {alpha, beta}, Order <- <<alpha, beta>>, Colleagues <- {"x"}, IsAdmin <- TRUE,
    Bookmarks <- FALSE, Acts <- {"dblclick", "menu", "select", "remove", "elsewhere"}, MayFail <- TRUE,
    AnyOrder <- TRUE, Waits <- FALSE, MaxFlight <- 1
\* The page of the bookmarked items.
SavedItemsPage == INSTANCE WireActions WITH
    Items <- {alpha, beta}, Order <- <<alpha, beta>>, Colleagues <- {"x", "y"}, IsAdmin <- FALSE,
    Bookmarks <- TRUE, Acts <- {"select", "mark", "elsewhere"}, MayFail <- FALSE,
    AnyOrder <- TRUE, Waits <- FALSE, MaxFlight <- 2
\* Topics and navigations loaded and changed.
SearchesPage == INSTANCE SearchParams WITH
    Queries <- {q1}, Navs <- {n1}, Products <- {p1}, Sorts <- {s1}, Words <- {k1},
    Filters <- {<<"genre", "a">>}, Singles <- {"genre"}, Known <- {"service", "genre"},
    Dates <- {"last"}, Boxes <- {"all"}, AdvFields <- {"headline", "body_html"}, Topics <- {t1, t2},
    TopicDef <- TwoTopics, Folders <- {}, MultiSelect <- FALSE,
    InitialURLs <- {PlainURL, [PlainURL EXCEPT !.product = p1]},
    Acts <- {"query", "nav", "topics", "clear", "navtag", "topictag", "advanced"}, MaxHist <- 1
\* The history of the browser.
EntriesKeptPage == INSTANCE SearchParams WITH
    Queries <- {q1}, Navs <- {n1}, Products <- {p1}, Sorts <- {s1}, Words <- {k1},
    Filters <- {<<"genre", "a">>}, Singles <- {"genre"}, Known <- {"service", "genre"},
    Dates <- {"last"}, Boxes <- {"all"}, AdvFields <- {"headline", "body_html"}, Topics <- {t1, t2},
    TopicDef <- TwoTopics, Folders <- {}, MultiSelect <- FALSE, InitialURLs <- {PlainURL},
    Acts <- {"query", "tags", "advanced", "clear", "sort", "back"}, MaxHist <- 2
\* The page loaded again from its URL.
ReloadsPage == INSTANCE SearchParams WITH
    Queries <- {q1}, Navs <- {n1}, Products <- {p1}, Sorts <- {s1}, Words <- {k1},
    Filters <- {<<"genre", "a">>}, Singles <- {"genre"}, Known <- {"service", "genre"},
    Dates <- {"last"}, Boxes <- {"all"}, AdvFields <- {"headline", "body_html"}, Topics <- {t1, t2},
    TopicDef <- TwoTopics, Folders <- {}, MultiSelect <- FALSE, InitialURLs <- {PlainURL},
    Acts <- {"query", "filters", "tags", "advanced", "clear", "reload"}, MaxHist <- 1
\* The panel of the filters beside the list.
PanelsPage == INSTANCE SearchParams WITH
    Queries <- {q1}, Navs <- {n1}, Products <- {p1}, Sorts <- {s1}, Words <- {k1},
    Filters <- {<<"genre", "a">>}, Singles <- {"genre"}, Known <- {"service", "genre"},
    Dates <- {"last"}, Boxes <- {"all"}, AdvFields <- {"headline", "body_html"}, Topics <- {t1, t2},
    TopicDef <- TwoTopics, Folders <- {}, MultiSelect <- FALSE, InitialURLs <- {PlainURL},
    Acts <- {"query", "filters", "clear", "back", "panels"}, MaxHist <- 2
\* The filter groups and their lists.
FilterGroupsPage == INSTANCE FilterPanel WITH
    Groups <- {"subject", "urgency"}, Keys <- 1 .. 4,
    Answers <- SomeAnswers({"subject", "urgency"}, 1 .. 4),
    Filters <- SomeFilters({"subject", "urgency"}), Single <- {"urgency"}, Terms <- {"", "a"},
    Matches <- EvenHaveA(1 .. 4), Threshold <- 2, Limit <- 1, PageSize <- 2, MayFail <- FALSE,
    Waits <- TRUE, MaxFlight <- 2
\* Two requests for aggregations on their way, or failed.
FilterRacesPage == INSTANCE FilterPanel WITH
    Groups <- {"subject", "urgency"}, Keys <- 1 .. 3,
    Answers <- SomeAnswers({"subject", "urgency"}, 1 .. 3),
    Filters <- SomeFilters({"subject", "urgency"}), Single <- {"urgency"}, Terms <- {"", "a"},
    Matches <- EvenHaveA(1 .. 3), Threshold <- 2, Limit <- 1, PageSize <- 2, MayFail <- TRUE,
    Waits <- FALSE, MaxFlight <- 2
\* An opened story and what is fetched for it.
DetailsPage == INSTANCE ItemView WITH
    Items <- Stories, Ancestors <- OlderVersions, NextVersion <- Newer, Killed <- {"s"}, Body <- Bodies,
    AgendaOf <- Agenda, Slugline <- Sluglines, Embargo <- Embargoes, Pane <- "details",
    Sections <- {"body", "versions", "links", "label", "follow"},
    Acts <- {"open", "close", "version", "follow"}, AnyOrder <- FALSE, MayFail <- FALSE, Waits <- FALSE,
    MaxFlight <- 4, MaxTime <- 0
\* A story beside the list.
PreviewPage == INSTANCE ItemView WITH
    Items <- Stories, Ancestors <- OlderVersions, NextVersion <- Newer, Killed <- {}, Body <- Bodies,
    AgendaOf <- Agenda, Slugline <- Sluglines, Embargo <- Embargoes, Pane <- "preview",
    Sections <- {"body", "versions", "links", "label", "follow"}, Acts <- {"open", "close", "follow"},
    AnyOrder <- FALSE, MayFail <- FALSE, Waits <- FALSE, MaxFlight <- 4, MaxTime <- 4
\* Newer versions, answers in any order.
VersionsPage == INSTANCE ItemView WITH
    Items <- Stories, Ancestors <- OlderVersions, NextVersion <- Newer, Killed <- {}, Body <- Bodies,
    AgendaOf <- Agenda, Slugline <- Sluglines, Embargo <- Embargoes, Pane <- "details",
    Sections <- {"body", "versions", "links", "label", "follow"},
    Acts <- {"open", "close", "version", "follow"}, AnyOrder <- TRUE, MayFail <- FALSE, Waits <- TRUE,
    MaxFlight <- 4, MaxTime <- 2
\* The media of a story.
MediaPage == INSTANCE ItemContent WITH
    Stories <- StoriesWithMedia, Embedded <- {"editor_1"}, Configs <- {}, Mapped <- {"source"},
    Fields <- {"department", "slugline"}, Texts <- {}, MaxLength <- 3
\* The line below the headline, as configured.
MetaLinePage == INSTANCE ItemContent WITH
    Stories <- {}, Embedded <- {"editor_1"}, Configs <- Lines, Mapped <- {"source"},
    Fields <- {"department", "slugline"}, Texts <- {}, MaxLength <- 3
\* The excerpt with the words that were found.
ExcerptsPage == INSTANCE ItemContent WITH
    Stories <- {}, Embedded <- {"editor_1"}, Configs <- {}, Mapped <- {"source"},
    Fields <- {"department", "slugline"}, Texts <- SomeTexts, MaxLength <- 3
\* The tabs of the news briefings.
NewsTabsPage == INSTANCE AmNews WITH
    Items <- {alpha, beta, gamma}, Tabs <- <<"am", "pm">>,
    TabsOf <- (alpha :> {"am"}) @@ (beta :> {"am", "pm"}) @@ (gamma :> {"pm"}),
    Feed <- <<alpha, beta, gamma>>, Day <- (alpha :> 2) @@ (beta :> 1) @@ (gamma :> 1), Saved <- {alpha},
    Bookmarks <- FALSE, Link <- None, Multi <- FALSE, Acts <- {"tab", "click", "keys"}, MaxRequests <- 3,
    MaxHistory <- 4
\* The history of the news briefings, where several tabs can be chosen.
BackPage == INSTANCE AmNews WITH
    Items <- {alpha, beta, gamma}, Tabs <- <<"am", "pm">>,
    TabsOf <- (alpha :> {"am"}) @@ (beta :> {"am", "pm"}) @@ (gamma :> {"pm"}),
    Feed <- <<alpha, beta, gamma>>, Day <- (alpha :> 2) @@ (beta :> 1) @@ (gamma :> 1), Saved <- {alpha},
    Bookmarks <- FALSE, Link <- None, Multi <- TRUE, Acts <- {"tab", "click", "open", "back"},
    MaxRequests <- 1, MaxHistory <- 2
\* The items of the news briefings.
BriefingPage == INSTANCE AmNews WITH
    Items <- {alpha, beta, gamma}, Tabs <- <<"am", "pm">>,
    TabsOf <- (alpha :> {"am"}) @@ (beta :> {"am", "pm"}) @@ (gamma :> {"pm"}),
    Feed <- <<alpha, beta, gamma>>, Day <- (alpha :> 2) @@ (beta :> 1) @@ (gamma :> 1), Saved <- {alpha},
    Bookmarks <- FALSE, Link <- None, Multi <- FALSE, Acts <- {"tab", "click", "keys", "open"},
    MaxRequests <- 3, MaxHistory <- 4
\* The reader's topics in their folders.
TopicsPage == INSTANCE FollowedTopics WITH
    Topics <- {t1}, NewTopics <- {n1}, Folders <- {fu, fc}, NewFolders <- {nu}, TopicDef <- OwnTopic,
    SectOf <- OneSection, IsGlobal <- CompanyFolders, Nested <- {t1}, Labels <- {"a"}, Manager <- FALSE,
    GlobalEnabled <- TRUE,
    Acts <- {"manage", "edit", "form", "move", "delFolder", "folder", "open", "delete"},
    AnyOrder <- FALSE, MayFail <- TRUE, Waits <- TRUE, MaxWrites <- 2, MaxFlight <- 0
\* A topic moved while its form is open.
MovesPage == INSTANCE FollowedTopics WITH
    Topics <- {t1}, NewTopics <- {n1}, Folders <- {fu, fc}, NewFolders <- {}, TopicDef <- OwnTopic,
    SectOf <- OneSection, IsGlobal <- [f \in {fu, fc} |-> f = fc], Nested <- {t1}, Labels <- {"a"},
    Manager <- FALSE, GlobalEnabled <- TRUE, Acts <- {"manage", "edit", "form", "move", "open"},
    AnyOrder <- FALSE, MayFail <- FALSE, Waits <- FALSE, MaxWrites <- 2, MaxFlight <- 2
\* A topic made from a search, and the page left and entered.
CreatedPage == INSTANCE FollowedTopics WITH
    Topics <- {t1}, NewTopics <- {n1}, Folders <- {fu, fc}, NewFolders <- {}, TopicDef <- OwnTopic,
    SectOf <- OneSection, IsGlobal <- [f \in {fu, fc} |-> f = fc], Nested <- {t1}, Labels <- {"a"},
    Manager <- FALSE, GlobalEnabled <- TRUE, Acts <- {"create", "form", "close", "enter"},
    AnyOrder <- FALSE, MayFail <- TRUE, Waits <- TRUE, MaxWrites <- 2, MaxFlight <- 0
\* A topic of a colleague.
ColleaguePage == INSTANCE FollowedTopics WITH
    Topics <- {t3}, NewTopics <- {n1}, Folders <- {fu, fc}, NewFolders <- {},
    TopicDef <- ColleaguesTopic, SectOf <- OneSection, IsGlobal <- [f \in {fu, fc} |-> f = fc],
    Nested <- {t1}, Labels <- {"a"}, Manager <- FALSE, GlobalEnabled <- TRUE,
    Acts <- {"manage", "edit", "subscribe", "enter", "global", "other"}, AnyOrder <- FALSE,
    MayFail <- FALSE, Waits <- TRUE, MaxWrites <- 3, MaxFlight <- 0
\* The topics of the company, seen by who may manage them.
ManagerPage == INSTANCE FollowedTopics WITH
    Topics <- {t2, t3}, NewTopics <- {}, Folders <- {fu, fc}, NewFolders <- {},
    TopicDef <- SharedTopic @@ ColleaguesTopic, SectOf <- TwoSections,
    IsGlobal <- [f \in {fu, fc} |-> f = fc], Nested <- {t1}, Labels <- {"a"}, Manager <- TRUE,
    GlobalEnabled <- TRUE, Acts <- {"menu", "close", "edit", "users", "subscribe", "enter", "global"},
    AnyOrder <- FALSE, MayFail <- FALSE, Waits <- FALSE, MaxWrites <- 1, MaxFlight <- 0
\* A topic shared and taken back, in folders of the reader and of the company.
KindsPage == INSTANCE FollowedTopics WITH
    Topics <- {t2}, NewTopics <- {n1}, Folders <- {fu, fc}, NewFolders <- {}, TopicDef <- SharedTopic,
    SectOf <- OneSection, IsGlobal <- [f \in {fu, fc} |-> f = fc], Nested <- {t1}, Labels <- {"a"},
    Manager <- FALSE, GlobalEnabled <- TRUE,
    Acts <- {"manage", "edit", "form", "move", "open", "other", "formFolder", "global"},
    AnyOrder <- FALSE, MayFail <- FALSE, Waits <- TRUE, MaxWrites <- 2, MaxFlight <- 0
\* Emails paused for some days.
PausesPage == INSTANCE UserProfile WITH
    Names <- {"Ann", "Bob"}, Times <- {"7:00", "15:00"}, DefaultTimes <- <<"7:00", "15:00">>,
    MaxDay <- 2, Offsets <- {0}, Acts <- {"open", "close", "clear", "resume", "pause"}, MaxFlight <- 2,
    MaxRuns <- 0, AnyOrder <- FALSE, MayFail <- FALSE, Waits <- TRUE
\* A pause saved and cleared before, during and after a run of the emails' job.
PauseRunPage == INSTANCE UserProfile WITH
    Names <- {"Ann"}, Times <- {"7:00"}, DefaultTimes <- <<"7:00">>, MaxDay <- 1, Offsets <- {0},
    Acts <- {"open", "close", "clear", "resume", "pause"}, MaxFlight <- 1, MaxRuns <- 1,
    AnyOrder <- FALSE, MayFail <- FALSE, Waits <- TRUE
\* The profile with its dialogs.
ProfilePage == INSTANCE UserProfile WITH
    Names <- {"Ann"}, Times <- {"7:00"}, DefaultTimes <- <<"7:00">>, MaxDay <- 0, Offsets <- {0},
    Acts <- {"open", "close", "type", "save", "clear", "resume", "schedule", "pause", "cancel", "dismiss"},
    MaxFlight <- 1, MaxRuns <- 0, AnyOrder <- FALSE, MayFail <- FALSE, Waits <- TRUE
\* Saves that fail, beside a run of the job.
ToldPage == INSTANCE UserProfile WITH
    Names <- {"Ann", "Bob"}, Times <- {"7:00"}, DefaultTimes <- <<"7:00">>, MaxDay <- 0, Offsets <- {0},
    Acts <- {"open", "type", "save", "schedule"}, MaxFlight <- 1, MaxRuns <- 1,
    AnyOrder <- FALSE, MayFail <- TRUE, Waits <- TRUE
\* Both halves of the schedule saved around two runs of the job.
ScheduleRunPage == INSTANCE UserProfile WITH
    Names <- {"Ann"}, Times <- {"7:00"}, DefaultTimes <- <<"7:00">>, MaxDay <- 0, Offsets <- {0},
    Acts <- {"open", "schedule", "pause"}, MaxFlight <- 1, MaxRuns <- 2, AnyOrder <- FALSE,
    MayFail <- FALSE, Waits <- TRUE
\* Requests in any order, and a page that is left before they are answered.
JobPage == INSTANCE UserProfile WITH
    Names <- {"Ann"}, Times <- {"7:00"}, DefaultTimes <- <<"7:00">>, MaxDay <- 0, Offsets <- {0},
    Acts <- {"open", "close", "schedule"}, MaxFlight <- 1, MaxRuns <- 1, AnyOrder <- TRUE,
    MayFail <- FALSE, Waits <- FALSE
\* Bookmarks on the home page.
MarkedPage == INSTANCE HomePage WITH
    Topics <- {t1}, Shared <- {}, Items <- {i1, i2}, Access <- {i1, i2}, Galleries <- 1,
    MaxSelected <- 2, Acts <- {"switch", "open", "mark", "reload", "cache"}, MayFail <- TRUE,
    AnyOrder <- FALSE, Waits <- TRUE, MaxFlight <- 3
\* The topics on the home page.
DashboardPage == INSTANCE HomePage WITH
    Topics <- {t1, t2, t3}, Shared <- {t3}, Items <- {}, Access <- {}, Galleries <- 0, MaxSelected <- 2,
    Acts <- {"delete", "share", "reload"}, MayFail <- FALSE, AnyOrder <- FALSE, Waits <- FALSE,
    MaxFlight <- 4
\* Topics chosen for the home page, also by others.
ChoicePage == INSTANCE HomePage WITH
    Topics <- {t1, t2}, Shared <- {}, Items <- {}, Access <- {}, Galleries <- 0, MaxSelected <- 1,
    Acts <- {"choose", "delete", "user"}, MayFail <- FALSE, AnyOrder <- FALSE, Waits <- FALSE,
    MaxFlight <- 1
\* The choice saved, answers in any order.
SavedPage == INSTANCE HomePage WITH
    Topics <- {t1, t2}, Shared <- {t2}, Items <- {}, Access <- {}, Galleries <- 0, MaxSelected <- 2,
    Acts <- {"choose", "share"}, MayFail <- FALSE, AnyOrder <- TRUE, Waits <- FALSE, MaxFlight <- 2
\* The panel of the notifications.
BellPanel == INSTANCE NotificationPanel WITH
    Notes <- {n1}, AnyOrder <- FALSE, MaxEvents <- 4, MaxRequests <- 12

ASSUME NewsPageAssumption == NewsPage!ConstantsOK
ASSUME OvertakenPageAssumption == OvertakenPage!ConstantsOK
ASSUME ResultsPageAssumption == ResultsPage!ConstantsOK
ASSUME KeysPageAssumption == KeysPage!ActionsAssumption
ASSUME DialogsPageAssumption == DialogsPage!ActionsAssumption
ASSUME MarksPageAssumption == MarksPage!ActionsAssumption
ASSUME RemovalsPageAssumption == RemovalsPage!ActionsAssumption
ASSUME SavedItemsPageAssumption == SavedItemsPage!ActionsAssumption
ASSUME SearchesPageAssumption == SearchesPage!HistAssumption /\ SearchesPage!TopicAssumption
ASSUME EntriesKeptPageAssumption == EntriesKeptPage!HistAssumption /\ EntriesKeptPage!TopicAssumption
ASSUME ReloadsPageAssumption == ReloadsPage!HistAssumption /\ ReloadsPage!TopicAssumption
ASSUME PanelsPageAssumption == PanelsPage!HistAssumption /\ PanelsPage!TopicAssumption
ASSUME FilterGroupsPageAssumption == FilterGroupsPage!PanelAssumption
ASSUME FilterRacesPageAssumption == FilterRacesPage!PanelAssumption
ASSUME DetailsPageAssumption == DetailsPage!ItemViewAssumption
ASSUME PreviewPageAssumption == PreviewPage!ItemViewAssumption
ASSUME VersionsPageAssumption == VersionsPage!ItemViewAssumption
ASSUME NewsTabsPageAssumption == NewsTabsPage!AmNewsAssumption
ASSUME BackPageAssumption == BackPage!AmNewsAssumption
ASSUME BriefingPageAssumption == BriefingPage!AmNewsAssumption
ASSUME TopicsPageAssumption == TopicsPage!BoundsAssumption
ASSUME MovesPageAssumption == MovesPage!BoundsAssumption
ASSUME CreatedPageAssumption == CreatedPage!BoundsAssumption
ASSUME ColleaguePageAssumption == ColleaguePage!BoundsAssumption
ASSUME ManagerPageAssumption == ManagerPage!BoundsAssumption
ASSUME KindsPageAssumption == KindsPage!BoundsAssumption
ASSUME PausesPageAssumption == PausesPage!ConstantsOK
ASSUME ProfilePageAssumption == ProfilePage!ConstantsOK
ASSUME ToldPageAssumption == ToldPage!ConstantsOK
ASSUME JobPageAssumption == JobPage!ConstantsOK
ASSUME PauseRunPageAssumption == PauseRunPage!ConstantsOK
ASSUME ScheduleRunPageAssumption == ScheduleRunPage!ConstantsOK
ASSUME MarkedPageAssumption == MarkedPage!HomeAssumption
ASSUME DashboardPageAssumption == DashboardPage!HomeAssumption
ASSUME ChoicePageAssumption == ChoicePage!HomeAssumption
ASSUME SavedPageAssumption == SavedPage!HomeAssumption
ASSUME BellPanelAssumption == BellPanel!ConstantsOK

--------------------------------------------------------------------------------
\* The variables of the other pages are idle.
WithoutWireResults == <<list, dialog, server, flight, hist, shown, panel, loadingAggregations,
                        aggregations, activeFilter, chosen, openGroup, searchTerm, lists, body,
                        previous, next, links, label, editor, now, story, fields, text, rendered,
                        click, key, db, ui, up, down, page, left, srv, modal, fullUser, today,
                        ahead, dateToday, job, runs, told, home, form, asked, saved, base, stored,
                        unused, displayed, connected, untold, events, crossed, raced, vars>>
WithoutWireActions == <<feed, rev, changes, requests, pushes, sent, history, pos, hist, shown,
                        panel, loadingAggregations, aggregations, activeFilter, chosen, openGroup,
                        searchTerm, lists, body, previous, next, links, label, editor, now, story,
                        fields, text, rendered, click, key, db, ui, up, down, page, left, srv,
                        modal, fullUser, today, ahead, dateToday, job, runs, told, home, form,
                        asked, saved, base, stored, unused, displayed, connected, untold, events,
                        applied, raced, vars>>
WithoutSearchParams == <<feed, rev, changes, requests, pushes, sent, history, list, dialog,
                         server, flight, loadingAggregations, aggregations, activeFilter, chosen,
                         openGroup, searchTerm, lists, body, previous, next, links, label, editor,
                         now, story, fields, text, rendered, click, key, db, ui, up, down, page,
                         left, srv, modal, fullUser, today, ahead, dateToday, job, runs, told,
                         home, form, asked, saved, base, stored, unused, displayed, connected,
                         untold, events, applied, crossed, raced, vars>>
WithoutFilterPanel == <<feed, rev, changes, store, requests, pushes, sent, history, pos, list,
                        dialog, server, hist, shown, panel, body, previous, next, links, label,
                        editor, now, story, fields, text, rendered, click, key, db, ui, up, down,
                        page, left, srv, modal, fullUser, today, ahead, dateToday, job, runs,
                        told, home, form, asked, saved, base, stored, unused, displayed,
                        connected, untold, events, applied, crossed, raced, vars>>
WithoutItemView == <<feed, rev, changes, store, requests, pushes, sent, history, pos, list,
                     dialog, server, hist, panel, loadingAggregations, aggregations, activeFilter,
                     chosen, openGroup, searchTerm, lists, story, fields, text, rendered, click,
                     key, db, ui, up, down, page, left, srv, modal, fullUser, today, ahead,
                     dateToday, job, runs, told, home, form, asked, saved, base, stored, unused,
                     displayed, connected, untold, events, applied, crossed, raced, vars>>
WithoutItemContent == <<feed, rev, changes, store, requests, pushes, sent, history, pos, list,
                        dialog, server, flight, hist, shown, panel, loadingAggregations,
                        aggregations, activeFilter, chosen, openGroup, searchTerm, lists, body,
                        previous, next, links, label, editor, now, rendered, click, key, db, ui,
                        up, down, page, left, srv, modal, fullUser, today, ahead, dateToday, job,
                        runs, told, home, form, asked, saved, base, stored, unused, displayed,
                        connected, untold, events, applied, crossed, raced, vars>>
WithoutAmNews == <<feed, rev, changes, pushes, list, dialog, server, flight, hist, shown, panel,
                   loadingAggregations, aggregations, activeFilter, chosen, openGroup, searchTerm,
                   lists, body, previous, next, links, label, editor, now, story, fields, text,
                   db, ui, up, down, page, left, srv, modal, fullUser, today, ahead, dateToday,
                   job, runs, told, home, form, asked, saved, base, stored, unused, displayed,
                   connected, untold, events, applied, crossed, raced, vars>>
WithoutFollowedTopics == <<feed, rev, changes, requests, sent, history, pos, list, dialog, server,
                           flight, hist, shown, panel, loadingAggregations, aggregations,
                           activeFilter, chosen, openGroup, searchTerm, lists, body, previous,
                           next, links, label, editor, now, story, fields, text, rendered, click,
                           key, srv, modal, fullUser, today, ahead, dateToday, job, runs, told,
                           home, form, asked, saved, base, stored, unused, displayed, connected,
                           untold, events, applied, crossed, raced, vars>>
WithoutUserProfile == <<feed, rev, changes, requests, pushes, sent, history, pos, list, dialog,
                        server, hist, shown, panel, loadingAggregations, aggregations,
                        activeFilter, chosen, openGroup, searchTerm, lists, body, previous, next,
                        links, label, editor, now, story, fields, text, rendered, click, key, db,
                        ui, up, down, page, left, home, form, asked, saved, base, stored, unused,
                        displayed, connected, untold, events, applied, crossed, vars>>
WithoutHomePage == <<feed, rev, changes, requests, pushes, sent, history, pos, list, dialog, hist,
                     shown, panel, loadingAggregations, aggregations, activeFilter, chosen,
                     openGroup, searchTerm, lists, body, previous, next, links, label, editor,
                     now, story, fields, text, rendered, click, key, db, ui, up, down, page, left,
                     srv, modal, fullUser, today, ahead, dateToday, job, runs, told, stored,
                     unused, displayed, connected, untold, events, applied, crossed, raced, vars>>
WithoutNotificationPanel == <<feed, rev, changes, history, pos, list, dialog, server, flight,
                              hist, shown, panel, loadingAggregations, aggregations, activeFilter,
                              chosen, openGroup, searchTerm, lists, body, previous, next, links,
                              label, editor, now, story, fields, text, rendered, click, key, db,
                              ui, up, down, page, left, srv, modal, fullUser, today, ahead,
                              dateToday, job, runs, told, home, form, asked, saved, base, applied,
                              crossed, raced, vars>>
WithoutScheduleTimes == <<feed, rev, changes, store, requests, pushes, sent, history, pos, list,
                          dialog, server, flight, hist, shown, panel, loadingAggregations,
                          aggregations, activeFilter, chosen, openGroup, searchTerm, lists, body,
                          previous, next, links, label, editor, now, story, fields, text,
                          rendered, click, key, db, ui, up, down, page, left, srv, modal,
                          fullUser, today, ahead, dateToday, job, runs, told, home, form, asked,
                          saved, base, stored, unused, displayed, connected, untold, events,
                          applied, crossed, raced>>

AllInit ==
    \/ /\ part = "news" /\ NewsPage!Init /\ Unasked
       /\ list = None /\ dialog = None /\ server = None /\ flight = None /\ hist = None
       /\ shown = None /\ panel = None /\ loadingAggregations = None /\ aggregations = None
       /\ activeFilter = None /\ chosen = None /\ openGroup = None /\ searchTerm = None
       /\ lists = None /\ body = None /\ previous = None /\ next = None /\ links = None
       /\ label = None /\ editor = None /\ now = None /\ story = None /\ fields = None
       /\ text = None /\ rendered = None /\ click = None /\ key = None /\ db = None /\ ui = None
       /\ up = None /\ down = None /\ page = None /\ left = None /\ srv = None /\ modal = None
       /\ fullUser = None /\ today = None /\ ahead = None /\ dateToday = None /\ job = None
       /\ runs = None /\ told = None /\ home = None /\ form = None /\ asked = None /\ saved = None
       /\ base = None /\ stored = None /\ unused = None /\ displayed = None /\ connected = None
       /\ untold = None /\ events = None /\ crossed = None /\ raced = None
    \/ /\ part = "overtaken" /\ OvertakenPage!Init /\ Unasked
       /\ list = None /\ dialog = None /\ server = None /\ flight = None /\ hist = None
       /\ shown = None /\ panel = None /\ loadingAggregations = None /\ aggregations = None
       /\ activeFilter = None /\ chosen = None /\ openGroup = None /\ searchTerm = None
       /\ lists = None /\ body = None /\ previous = None /\ next = None /\ links = None
       /\ label = None /\ editor = None /\ now = None /\ story = None /\ fields = None
       /\ text = None /\ rendered = None /\ click = None /\ key = None /\ db = None /\ ui = None
       /\ up = None /\ down = None /\ page = None /\ left = None /\ srv = None /\ modal = None
       /\ fullUser = None /\ today = None /\ ahead = None /\ dateToday = None /\ job = None
       /\ runs = None /\ told = None /\ home = None /\ form = None /\ asked = None /\ saved = None
       /\ base = None /\ stored = None /\ unused = None /\ displayed = None /\ connected = None
       /\ untold = None /\ events = None /\ crossed = None /\ raced = None
    \/ /\ part = "results" /\ ResultsPage!Init /\ Unasked
       /\ list = None /\ dialog = None /\ server = None /\ flight = None /\ hist = None
       /\ shown = None /\ panel = None /\ loadingAggregations = None /\ aggregations = None
       /\ activeFilter = None /\ chosen = None /\ openGroup = None /\ searchTerm = None
       /\ lists = None /\ body = None /\ previous = None /\ next = None /\ links = None
       /\ label = None /\ editor = None /\ now = None /\ story = None /\ fields = None
       /\ text = None /\ rendered = None /\ click = None /\ key = None /\ db = None /\ ui = None
       /\ up = None /\ down = None /\ page = None /\ left = None /\ srv = None /\ modal = None
       /\ fullUser = None /\ today = None /\ ahead = None /\ dateToday = None /\ job = None
       /\ runs = None /\ told = None /\ home = None /\ form = None /\ asked = None /\ saved = None
       /\ base = None /\ stored = None /\ unused = None /\ displayed = None /\ connected = None
       /\ untold = None /\ events = None /\ crossed = None /\ raced = None
    \/ /\ part = "keys" /\ KeysPage!Init /\ Unasked
       /\ feed = None /\ rev = None /\ changes = None /\ requests = None /\ pushes = None
       /\ sent = None /\ history = None /\ pos = None /\ hist = None /\ shown = None
       /\ panel = None /\ loadingAggregations = None /\ aggregations = None /\ activeFilter = None
       /\ chosen = None /\ openGroup = None /\ searchTerm = None /\ lists = None /\ body = None
       /\ previous = None /\ next = None /\ links = None /\ label = None /\ editor = None
       /\ now = None /\ story = None /\ fields = None /\ text = None /\ rendered = None
       /\ click = None /\ key = None /\ db = None /\ ui = None /\ up = None /\ down = None
       /\ page = None /\ left = None /\ srv = None /\ modal = None /\ fullUser = None
       /\ today = None /\ ahead = None /\ dateToday = None /\ job = None /\ runs = None
       /\ told = None /\ home = None /\ form = None /\ asked = None /\ saved = None /\ base = None
       /\ stored = None /\ unused = None /\ displayed = None /\ connected = None /\ untold = None
       /\ events = None /\ applied = None /\ raced = None
    \/ /\ part = "dialogs" /\ DialogsPage!Init /\ Unasked
       /\ feed = None /\ rev = None /\ changes = None /\ requests = None /\ pushes = None
       /\ sent = None /\ history = None /\ pos = None /\ hist = None /\ shown = None
       /\ panel = None /\ loadingAggregations = None /\ aggregations = None /\ activeFilter = None
       /\ chosen = None /\ openGroup = None /\ searchTerm = None /\ lists = None /\ body = None
       /\ previous = None /\ next = None /\ links = None /\ label = None /\ editor = None
       /\ now = None /\ story = None /\ fields = None /\ text = None /\ rendered = None
       /\ click = None /\ key = None /\ db = None /\ ui = None /\ up = None /\ down = None
       /\ page = None /\ left = None /\ srv = None /\ modal = None /\ fullUser = None
       /\ today = None /\ ahead = None /\ dateToday = None /\ job = None /\ runs = None
       /\ told = None /\ home = None /\ form = None /\ asked = None /\ saved = None /\ base = None
       /\ stored = None /\ unused = None /\ displayed = None /\ connected = None /\ untold = None
       /\ events = None /\ applied = None /\ raced = None
    \/ /\ part = "marks" /\ MarksPage!Init /\ Unasked
       /\ feed = None /\ rev = None /\ changes = None /\ requests = None /\ pushes = None
       /\ sent = None /\ history = None /\ pos = None /\ hist = None /\ shown = None
       /\ panel = None /\ loadingAggregations = None /\ aggregations = None /\ activeFilter = None
       /\ chosen = None /\ openGroup = None /\ searchTerm = None /\ lists = None /\ body = None
       /\ previous = None /\ next = None /\ links = None /\ label = None /\ editor = None
       /\ now = None /\ story = None /\ fields = None /\ text = None /\ rendered = None
       /\ click = None /\ key = None /\ db = None /\ ui = None /\ up = None /\ down = None
       /\ page = None /\ left = None /\ srv = None /\ modal = None /\ fullUser = None
       /\ today = None /\ ahead = None /\ dateToday = None /\ job = None /\ runs = None
       /\ told = None /\ home = None /\ form = None /\ asked = None /\ saved = None /\ base = None
       /\ stored = None /\ unused = None /\ displayed = None /\ connected = None /\ untold = None
       /\ events = None /\ applied = None /\ raced = None
    \/ /\ part = "removals" /\ RemovalsPage!Init /\ Unasked
       /\ feed = None /\ rev = None /\ changes = None /\ requests = None /\ pushes = None
       /\ sent = None /\ history = None /\ pos = None /\ hist = None /\ shown = None
       /\ panel = None /\ loadingAggregations = None /\ aggregations = None /\ activeFilter = None
       /\ chosen = None /\ openGroup = None /\ searchTerm = None /\ lists = None /\ body = None
       /\ previous = None /\ next = None /\ links = None /\ label = None /\ editor = None
       /\ now = None /\ story = None /\ fields = None /\ text = None /\ rendered = None
       /\ click = None /\ key = None /\ db = None /\ ui = None /\ up = None /\ down = None
       /\ page = None /\ left = None /\ srv = None /\ modal = None /\ fullUser = None
       /\ today = None /\ ahead = None /\ dateToday = None /\ job = None /\ runs = None
       /\ told = None /\ home = None /\ form = None /\ asked = None /\ saved = None /\ base = None
       /\ stored = None /\ unused = None /\ displayed = None /\ connected = None /\ untold = None
       /\ events = None /\ applied = None /\ raced = None
    \/ /\ part = "saved" /\ SavedItemsPage!Init /\ Unasked
       /\ feed = None /\ rev = None /\ changes = None /\ requests = None /\ pushes = None
       /\ sent = None /\ history = None /\ pos = None /\ hist = None /\ shown = None
       /\ panel = None /\ loadingAggregations = None /\ aggregations = None /\ activeFilter = None
       /\ chosen = None /\ openGroup = None /\ searchTerm = None /\ lists = None /\ body = None
       /\ previous = None /\ next = None /\ links = None /\ label = None /\ editor = None
       /\ now = None /\ story = None /\ fields = None /\ text = None /\ rendered = None
       /\ click = None /\ key = None /\ db = None /\ ui = None /\ up = None /\ down = None
       /\ page = None /\ left = None /\ srv = None /\ modal = None /\ fullUser = None
       /\ today = None /\ ahead = None /\ dateToday = None /\ job = None /\ runs = None
       /\ told = None /\ home = None /\ form = None /\ asked = None /\ saved = None /\ base = None
       /\ stored = None /\ unused = None /\ displayed = None /\ connected = None /\ untold = None
       /\ events = None /\ applied = None /\ raced = None
    \/ /\ part = "searches" /\ SearchesPage!Init /\ Unasked
       /\ feed = None /\ rev = None /\ changes = None /\ requests = None /\ pushes = None
       /\ sent = None /\ history = None /\ list = None /\ dialog = None /\ server = None
       /\ flight = None /\ loadingAggregations = None /\ aggregations = None
       /\ activeFilter = None /\ chosen = None /\ openGroup = None /\ searchTerm = None
       /\ lists = None /\ body = None /\ previous = None /\ next = None /\ links = None
       /\ label = None /\ editor = None /\ now = None /\ story = None /\ fields = None
       /\ text = None /\ rendered = None /\ click = None /\ key = None /\ db = None /\ ui = None
       /\ up = None /\ down = None /\ page = None /\ left = None /\ srv = None /\ modal = None
       /\ fullUser = None /\ today = None /\ ahead = None /\ dateToday = None /\ job = None
       /\ runs = None /\ told = None /\ home = None /\ form = None /\ asked = None /\ saved = None
       /\ base = None /\ stored = None /\ unused = None /\ displayed = None /\ connected = None
       /\ untold = None /\ events = None /\ applied = None /\ crossed = None /\ raced = None
    \/ /\ part = "entries" /\ EntriesKeptPage!Init /\ Unasked
       /\ feed = None /\ rev = None /\ changes = None /\ requests = None /\ pushes = None
       /\ sent = None /\ history = None /\ list = None /\ dialog = None /\ server = None
       /\ flight = None /\ loadingAggregations = None /\ aggregations = None
       /\ activeFilter = None /\ chosen = None /\ openGroup = None /\ searchTerm = None
       /\ lists = None /\ body = None /\ previous = None /\ next = None /\ links = None
       /\ label = None /\ editor = None /\ now = None /\ story = None /\ fields = None
       /\ text = None /\ rendered = None /\ click = None /\ key = None /\ db = None /\ ui = None
       /\ up = None /\ down = None /\ page = None /\ left = None /\ srv = None /\ modal = None
       /\ fullUser = None /\ today = None /\ ahead = None /\ dateToday = None /\ job = None
       /\ runs = None /\ told = None /\ home = None /\ form = None /\ asked = None /\ saved = None
       /\ base = None /\ stored = None /\ unused = None /\ displayed = None /\ connected = None
       /\ untold = None /\ events = None /\ applied = None /\ crossed = None /\ raced = None
    \/ /\ part = "reload" /\ ReloadsPage!Init /\ Unasked
       /\ feed = None /\ rev = None /\ changes = None /\ requests = None /\ pushes = None
       /\ sent = None /\ history = None /\ list = None /\ dialog = None /\ server = None
       /\ flight = None /\ loadingAggregations = None /\ aggregations = None
       /\ activeFilter = None /\ chosen = None /\ openGroup = None /\ searchTerm = None
       /\ lists = None /\ body = None /\ previous = None /\ next = None /\ links = None
       /\ label = None /\ editor = None /\ now = None /\ story = None /\ fields = None
       /\ text = None /\ rendered = None /\ click = None /\ key = None /\ db = None /\ ui = None
       /\ up = None /\ down = None /\ page = None /\ left = None /\ srv = None /\ modal = None
       /\ fullUser = None /\ today = None /\ ahead = None /\ dateToday = None /\ job = None
       /\ runs = None /\ told = None /\ home = None /\ form = None /\ asked = None /\ saved = None
       /\ base = None /\ stored = None /\ unused = None /\ displayed = None /\ connected = None
       /\ untold = None /\ events = None /\ applied = None /\ crossed = None /\ raced = None
    \/ /\ part = "panels" /\ PanelsPage!Init /\ Unasked
       /\ feed = None /\ rev = None /\ changes = None /\ requests = None /\ pushes = None
       /\ sent = None /\ history = None /\ list = None /\ dialog = None /\ server = None
       /\ flight = None /\ loadingAggregations = None /\ aggregations = None
       /\ activeFilter = None /\ chosen = None /\ openGroup = None /\ searchTerm = None
       /\ lists = None /\ body = None /\ previous = None /\ next = None /\ links = None
       /\ label = None /\ editor = None /\ now = None /\ story = None /\ fields = None
       /\ text = None /\ rendered = None /\ click = None /\ key = None /\ db = None /\ ui = None
       /\ up = None /\ down = None /\ page = None /\ left = None /\ srv = None /\ modal = None
       /\ fullUser = None /\ today = None /\ ahead = None /\ dateToday = None /\ job = None
       /\ runs = None /\ told = None /\ home = None /\ form = None /\ asked = None /\ saved = None
       /\ base = None /\ stored = None /\ unused = None /\ displayed = None /\ connected = None
       /\ untold = None /\ events = None /\ applied = None /\ crossed = None /\ raced = None
    \/ /\ part = "groups" /\ FilterGroupsPage!Init /\ Unasked
       /\ feed = None /\ rev = None /\ changes = None /\ store = None /\ requests = None
       /\ pushes = None /\ sent = None /\ history = None /\ pos = None /\ list = None
       /\ dialog = None /\ server = None /\ hist = None /\ shown = None /\ panel = None
       /\ body = None /\ previous = None /\ next = None /\ links = None /\ label = None
       /\ editor = None /\ now = None /\ story = None /\ fields = None /\ text = None
       /\ rendered = None /\ click = None /\ key = None /\ db = None /\ ui = None /\ up = None
       /\ down = None /\ page = None /\ left = None /\ srv = None /\ modal = None
       /\ fullUser = None /\ today = None /\ ahead = None /\ dateToday = None /\ job = None
       /\ runs = None /\ told = None /\ home = None /\ form = None /\ asked = None /\ saved = None
       /\ base = None /\ stored = None /\ unused = None /\ displayed = None /\ connected = None
       /\ untold = None /\ events = None /\ applied = None /\ crossed = None /\ raced = None
    \/ /\ part = "filters" /\ FilterRacesPage!Init /\ Unasked
       /\ feed = None /\ rev = None /\ changes = None /\ store = None /\ requests = None
       /\ pushes = None /\ sent = None /\ history = None /\ pos = None /\ list = None
       /\ dialog = None /\ server = None /\ hist = None /\ shown = None /\ panel = None
       /\ body = None /\ previous = None /\ next = None /\ links = None /\ label = None
       /\ editor = None /\ now = None /\ story = None /\ fields = None /\ text = None
       /\ rendered = None /\ click = None /\ key = None /\ db = None /\ ui = None /\ up = None
       /\ down = None /\ page = None /\ left = None /\ srv = None /\ modal = None
       /\ fullUser = None /\ today = None /\ ahead = None /\ dateToday = None /\ job = None
       /\ runs = None /\ told = None /\ home = None /\ form = None /\ asked = None /\ saved = None
       /\ base = None /\ stored = None /\ unused = None /\ displayed = None /\ connected = None
       /\ untold = None /\ events = None /\ applied = None /\ crossed = None /\ raced = None
    \/ /\ part = "details" /\ DetailsPage!Init /\ Unasked
       /\ feed = None /\ rev = None /\ changes = None /\ store = None /\ requests = None
       /\ pushes = None /\ sent = None /\ history = None /\ pos = None /\ list = None
       /\ dialog = None /\ server = None /\ hist = None /\ panel = None
       /\ loadingAggregations = None /\ aggregations = None /\ activeFilter = None
       /\ chosen = None /\ openGroup = None /\ searchTerm = None /\ lists = None /\ story = None
       /\ fields = None /\ text = None /\ rendered = None /\ click = None /\ key = None
       /\ db = None /\ ui = None /\ up = None /\ down = None /\ page = None /\ left = None
       /\ srv = None /\ modal = None /\ fullUser = None /\ today = None /\ ahead = None
       /\ dateToday = None /\ job = None /\ runs = None /\ told = None /\ home = None
       /\ form = None /\ asked = None /\ saved = None /\ base = None /\ stored = None
       /\ unused = None /\ displayed = None /\ connected = None /\ untold = None /\ events = None
       /\ applied = None /\ crossed = None /\ raced = None
    \/ /\ part = "preview" /\ PreviewPage!Init /\ Unasked
       /\ feed = None /\ rev = None /\ changes = None /\ store = None /\ requests = None
       /\ pushes = None /\ sent = None /\ history = None /\ pos = None /\ list = None
       /\ dialog = None /\ server = None /\ hist = None /\ panel = None
       /\ loadingAggregations = None /\ aggregations = None /\ activeFilter = None
       /\ chosen = None /\ openGroup = None /\ searchTerm = None /\ lists = None /\ story = None
       /\ fields = None /\ text = None /\ rendered = None /\ click = None /\ key = None
       /\ db = None /\ ui = None /\ up = None /\ down = None /\ page = None /\ left = None
       /\ srv = None /\ modal = None /\ fullUser = None /\ today = None /\ ahead = None
       /\ dateToday = None /\ job = None /\ runs = None /\ told = None /\ home = None
       /\ form = None /\ asked = None /\ saved = None /\ base = None /\ stored = None
       /\ unused = None /\ displayed = None /\ connected = None /\ untold = None /\ events = None
       /\ applied = None /\ crossed = None /\ raced = None
    \/ /\ part = "versions" /\ VersionsPage!Init /\ Unasked
       /\ feed = None /\ rev = None /\ changes = None /\ store = None /\ requests = None
       /\ pushes = None /\ sent = None /\ history = None /\ pos = None /\ list = None
       /\ dialog = None /\ server = None /\ hist = None /\ panel = None
       /\ loadingAggregations = None /\ aggregations = None /\ activeFilter = None
       /\ chosen = None /\ openGroup = None /\ searchTerm = None /\ lists = None /\ story = None
       /\ fields = None /\ text = None /\ rendered = None /\ click = None /\ key = None
       /\ db = None /\ ui = None /\ up = None /\ down = None /\ page = None /\ left = None
       /\ srv = None /\ modal = None /\ fullUser = None /\ today = None /\ ahead = None
       /\ dateToday = None /\ job = None /\ runs = None /\ told = None /\ home = None
       /\ form = None /\ asked = None /\ saved = None /\ base = None /\ stored = None
       /\ unused = None /\ displayed = None /\ connected = None /\ untold = None /\ events = None
       /\ applied = None /\ crossed = None /\ raced = None
    \/ /\ part = "media" /\ MediaPage!Init /\ Unasked
       /\ feed = None /\ rev = None /\ changes = None /\ store = None /\ requests = None
       /\ pushes = None /\ sent = None /\ history = None /\ pos = None /\ list = None
       /\ dialog = None /\ server = None /\ flight = None /\ hist = None /\ shown = None
       /\ panel = None /\ loadingAggregations = None /\ aggregations = None /\ activeFilter = None
       /\ chosen = None /\ openGroup = None /\ searchTerm = None /\ lists = None /\ body = None
       /\ previous = None /\ next = None /\ links = None /\ label = None /\ editor = None
       /\ now = None /\ rendered = None /\ click = None /\ key = None /\ db = None /\ ui = None
       /\ up = None /\ down = None /\ page = None /\ left = None /\ srv = None /\ modal = None
       /\ fullUser = None /\ today = None /\ ahead = None /\ dateToday = None /\ job = None
       /\ runs = None /\ told = None /\ home = None /\ form = None /\ asked = None /\ saved = None
       /\ base = None /\ stored = None /\ unused = None /\ displayed = None /\ connected = None
       /\ untold = None /\ events = None /\ applied = None /\ crossed = None /\ raced = None
    \/ /\ part = "line" /\ MetaLinePage!Init /\ Unasked
       /\ feed = None /\ rev = None /\ changes = None /\ store = None /\ requests = None
       /\ pushes = None /\ sent = None /\ history = None /\ pos = None /\ list = None
       /\ dialog = None /\ server = None /\ flight = None /\ hist = None /\ shown = None
       /\ panel = None /\ loadingAggregations = None /\ aggregations = None /\ activeFilter = None
       /\ chosen = None /\ openGroup = None /\ searchTerm = None /\ lists = None /\ body = None
       /\ previous = None /\ next = None /\ links = None /\ label = None /\ editor = None
       /\ now = None /\ rendered = None /\ click = None /\ key = None /\ db = None /\ ui = None
       /\ up = None /\ down = None /\ page = None /\ left = None /\ srv = None /\ modal = None
       /\ fullUser = None /\ today = None /\ ahead = None /\ dateToday = None /\ job = None
       /\ runs = None /\ told = None /\ home = None /\ form = None /\ asked = None /\ saved = None
       /\ base = None /\ stored = None /\ unused = None /\ displayed = None /\ connected = None
       /\ untold = None /\ events = None /\ applied = None /\ crossed = None /\ raced = None
    \/ /\ part = "excerpt" /\ ExcerptsPage!Init /\ Unasked
       /\ feed = None /\ rev = None /\ changes = None /\ store = None /\ requests = None
       /\ pushes = None /\ sent = None /\ history = None /\ pos = None /\ list = None
       /\ dialog = None /\ server = None /\ flight = None /\ hist = None /\ shown = None
       /\ panel = None /\ loadingAggregations = None /\ aggregations = None /\ activeFilter = None
       /\ chosen = None /\ openGroup = None /\ searchTerm = None /\ lists = None /\ body = None
       /\ previous = None /\ next = None /\ links = None /\ label = None /\ editor = None
       /\ now = None /\ rendered = None /\ click = None /\ key = None /\ db = None /\ ui = None
       /\ up = None /\ down = None /\ page = None /\ left = None /\ srv = None /\ modal = None
       /\ fullUser = None /\ today = None /\ ahead = None /\ dateToday = None /\ job = None
       /\ runs = None /\ told = None /\ home = None /\ form = None /\ asked = None /\ saved = None
       /\ base = None /\ stored = None /\ unused = None /\ displayed = None /\ connected = None
       /\ untold = None /\ events = None /\ applied = None /\ crossed = None /\ raced = None
    \/ /\ part = "tabs" /\ NewsTabsPage!Init /\ Unasked
       /\ feed = None /\ rev = None /\ changes = None /\ pushes = None /\ list = None
       /\ dialog = None /\ server = None /\ flight = None /\ hist = None /\ shown = None
       /\ panel = None /\ loadingAggregations = None /\ aggregations = None /\ activeFilter = None
       /\ chosen = None /\ openGroup = None /\ searchTerm = None /\ lists = None /\ body = None
       /\ previous = None /\ next = None /\ links = None /\ label = None /\ editor = None
       /\ now = None /\ story = None /\ fields = None /\ text = None /\ db = None /\ ui = None
       /\ up = None /\ down = None /\ page = None /\ left = None /\ srv = None /\ modal = None
       /\ fullUser = None /\ today = None /\ ahead = None /\ dateToday = None /\ job = None
       /\ runs = None /\ told = None /\ home = None /\ form = None /\ asked = None /\ saved = None
       /\ base = None /\ stored = None /\ unused = None /\ displayed = None /\ connected = None
       /\ untold = None /\ events = None /\ applied = None /\ crossed = None /\ raced = None
    \/ /\ part = "back" /\ BackPage!Init /\ Unasked
       /\ feed = None /\ rev = None /\ changes = None /\ pushes = None /\ list = None
       /\ dialog = None /\ server = None /\ flight = None /\ hist = None /\ shown = None
       /\ panel = None /\ loadingAggregations = None /\ aggregations = None /\ activeFilter = None
       /\ chosen = None /\ openGroup = None /\ searchTerm = None /\ lists = None /\ body = None
       /\ previous = None /\ next = None /\ links = None /\ label = None /\ editor = None
       /\ now = None /\ story = None /\ fields = None /\ text = None /\ db = None /\ ui = None
       /\ up = None /\ down = None /\ page = None /\ left = None /\ srv = None /\ modal = None
       /\ fullUser = None /\ today = None /\ ahead = None /\ dateToday = None /\ job = None
       /\ runs = None /\ told = None /\ home = None /\ form = None /\ asked = None /\ saved = None
       /\ base = None /\ stored = None /\ unused = None /\ displayed = None /\ connected = None
       /\ untold = None /\ events = None /\ applied = None /\ crossed = None /\ raced = None
    \/ /\ part = "briefing" /\ BriefingPage!Init /\ Unasked
       /\ feed = None /\ rev = None /\ changes = None /\ pushes = None /\ list = None
       /\ dialog = None /\ server = None /\ flight = None /\ hist = None /\ shown = None
       /\ panel = None /\ loadingAggregations = None /\ aggregations = None /\ activeFilter = None
       /\ chosen = None /\ openGroup = None /\ searchTerm = None /\ lists = None /\ body = None
       /\ previous = None /\ next = None /\ links = None /\ label = None /\ editor = None
       /\ now = None /\ story = None /\ fields = None /\ text = None /\ db = None /\ ui = None
       /\ up = None /\ down = None /\ page = None /\ left = None /\ srv = None /\ modal = None
       /\ fullUser = None /\ today = None /\ ahead = None /\ dateToday = None /\ job = None
       /\ runs = None /\ told = None /\ home = None /\ form = None /\ asked = None /\ saved = None
       /\ base = None /\ stored = None /\ unused = None /\ displayed = None /\ connected = None
       /\ untold = None /\ events = None /\ applied = None /\ crossed = None /\ raced = None
    \/ /\ part = "topics" /\ TopicsPage!Init /\ Unasked
       /\ feed = None /\ rev = None /\ changes = None /\ requests = None /\ sent = None
       /\ history = None /\ pos = None /\ list = None /\ dialog = None /\ server = None
       /\ flight = None /\ hist = None /\ shown = None /\ panel = None
       /\ loadingAggregations = None /\ aggregations = None /\ activeFilter = None
       /\ chosen = None /\ openGroup = None /\ searchTerm = None /\ lists = None /\ body = None
       /\ previous = None /\ next = None /\ links = None /\ label = None /\ editor = None
       /\ now = None /\ story = None /\ fields = None /\ text = None /\ rendered = None
       /\ click = None /\ key = None /\ srv = None /\ modal = None /\ fullUser = None
       /\ today = None /\ ahead = None /\ dateToday = None /\ job = None /\ runs = None
       /\ told = None /\ home = None /\ form = None /\ asked = None /\ saved = None /\ base = None
       /\ stored = None /\ unused = None /\ displayed = None /\ connected = None /\ untold = None
       /\ events = None /\ applied = None /\ crossed = None /\ raced = None
    \/ /\ part = "moves" /\ MovesPage!Init /\ Unasked
       /\ feed = None /\ rev = None /\ changes = None /\ requests = None /\ sent = None
       /\ history = None /\ pos = None /\ list = None /\ dialog = None /\ server = None
       /\ flight = None /\ hist = None /\ shown = None /\ panel = None
       /\ loadingAggregations = None /\ aggregations = None /\ activeFilter = None
       /\ chosen = None /\ openGroup = None /\ searchTerm = None /\ lists = None /\ body = None
       /\ previous = None /\ next = None /\ links = None /\ label = None /\ editor = None
       /\ now = None /\ story = None /\ fields = None /\ text = None /\ rendered = None
       /\ click = None /\ key = None /\ srv = None /\ modal = None /\ fullUser = None
       /\ today = None /\ ahead = None /\ dateToday = None /\ job = None /\ runs = None
       /\ told = None /\ home = None /\ form = None /\ asked = None /\ saved = None /\ base = None
       /\ stored = None /\ unused = None /\ displayed = None /\ connected = None /\ untold = None
       /\ events = None /\ applied = None /\ crossed = None /\ raced = None
    \/ /\ part = "created" /\ CreatedPage!Init /\ Unasked
       /\ feed = None /\ rev = None /\ changes = None /\ requests = None /\ sent = None
       /\ history = None /\ pos = None /\ list = None /\ dialog = None /\ server = None
       /\ flight = None /\ hist = None /\ shown = None /\ panel = None
       /\ loadingAggregations = None /\ aggregations = None /\ activeFilter = None
       /\ chosen = None /\ openGroup = None /\ searchTerm = None /\ lists = None /\ body = None
       /\ previous = None /\ next = None /\ links = None /\ label = None /\ editor = None
       /\ now = None /\ story = None /\ fields = None /\ text = None /\ rendered = None
       /\ click = None /\ key = None /\ srv = None /\ modal = None /\ fullUser = None
       /\ today = None /\ ahead = None /\ dateToday = None /\ job = None /\ runs = None
       /\ told = None /\ home = None /\ form = None /\ asked = None /\ saved = None /\ base = None
       /\ stored = None /\ unused = None /\ displayed = None /\ connected = None /\ untold = None
       /\ events = None /\ applied = None /\ crossed = None /\ raced = None
    \/ /\ part = "colleague" /\ ColleaguePage!Init /\ Unasked
       /\ feed = None /\ rev = None /\ changes = None /\ requests = None /\ sent = None
       /\ history = None /\ pos = None /\ list = None /\ dialog = None /\ server = None
       /\ flight = None /\ hist = None /\ shown = None /\ panel = None
       /\ loadingAggregations = None /\ aggregations = None /\ activeFilter = None
       /\ chosen = None /\ openGroup = None /\ searchTerm = None /\ lists = None /\ body = None
       /\ previous = None /\ next = None /\ links = None /\ label = None /\ editor = None
       /\ now = None /\ story = None /\ fields = None /\ text = None /\ rendered = None
       /\ click = None /\ key = None /\ srv = None /\ modal = None /\ fullUser = None
       /\ today = None /\ ahead = None /\ dateToday = None /\ job = None /\ runs = None
       /\ told = None /\ home = None /\ form = None /\ asked = None /\ saved = None /\ base = None
       /\ stored = None /\ unused = None /\ displayed = None /\ connected = None /\ untold = None
       /\ events = None /\ applied = None /\ crossed = None /\ raced = None
    \/ /\ part = "manager" /\ ManagerPage!Init /\ Unasked
       /\ feed = None /\ rev = None /\ changes = None /\ requests = None /\ sent = None
       /\ history = None /\ pos = None /\ list = None /\ dialog = None /\ server = None
       /\ flight = None /\ hist = None /\ shown = None /\ panel = None
       /\ loadingAggregations = None /\ aggregations = None /\ activeFilter = None
       /\ chosen = None /\ openGroup = None /\ searchTerm = None /\ lists = None /\ body = None
       /\ previous = None /\ next = None /\ links = None /\ label = None /\ editor = None
       /\ now = None /\ story = None /\ fields = None /\ text = None /\ rendered = None
       /\ click = None /\ key = None /\ srv = None /\ modal = None /\ fullUser = None
       /\ today = None /\ ahead = None /\ dateToday = None /\ job = None /\ runs = None
       /\ told = None /\ home = None /\ form = None /\ asked = None /\ saved = None /\ base = None
       /\ stored = None /\ unused = None /\ displayed = None /\ connected = None /\ untold = None
       /\ events = None /\ applied = None /\ crossed = None /\ raced = None
    \/ /\ part = "kinds" /\ KindsPage!Init /\ Unasked
       /\ feed = None /\ rev = None /\ changes = None /\ requests = None /\ sent = None
       /\ history = None /\ pos = None /\ list = None /\ dialog = None /\ server = None
       /\ flight = None /\ hist = None /\ shown = None /\ panel = None
       /\ loadingAggregations = None /\ aggregations = None /\ activeFilter = None
       /\ chosen = None /\ openGroup = None /\ searchTerm = None /\ lists = None /\ body = None
       /\ previous = None /\ next = None /\ links = None /\ label = None /\ editor = None
       /\ now = None /\ story = None /\ fields = None /\ text = None /\ rendered = None
       /\ click = None /\ key = None /\ srv = None /\ modal = None /\ fullUser = None
       /\ today = None /\ ahead = None /\ dateToday = None /\ job = None /\ runs = None
       /\ told = None /\ home = None /\ form = None /\ asked = None /\ saved = None /\ base = None
       /\ stored = None /\ unused = None /\ displayed = None /\ connected = None /\ untold = None
       /\ events = None /\ applied = None /\ crossed = None /\ raced = None
    \/ /\ part = "pauses" /\ PausesPage!Init /\ Unasked
       /\ feed = None /\ rev = None /\ changes = None /\ requests = None /\ pushes = None
       /\ sent = None /\ history = None /\ pos = None /\ list = None /\ dialog = None
       /\ server = None /\ hist = None /\ shown = None /\ panel = None
       /\ loadingAggregations = None /\ aggregations = None /\ activeFilter = None
       /\ chosen = None /\ openGroup = None /\ searchTerm = None /\ lists = None /\ body = None
       /\ previous = None /\ next = None /\ links = None /\ label = None /\ editor = None
       /\ now = None /\ story = None /\ fields = None /\ text = None /\ rendered = None
       /\ click = None /\ key = None /\ db = None /\ ui = None /\ up = None /\ down = None
       /\ page = None /\ left = None /\ home = None /\ form = None /\ asked = None /\ saved = None
       /\ base = None /\ stored = None /\ unused = None /\ displayed = None /\ connected = None
       /\ untold = None /\ events = None /\ applied = None /\ crossed = None
    \/ /\ part = "profile" /\ ProfilePage!Init /\ Unasked
       /\ feed = None /\ rev = None /\ changes = None /\ requests = None /\ pushes = None
       /\ sent = None /\ history = None /\ pos = None /\ list = None /\ dialog = None
       /\ server = None /\ hist = None /\ shown = None /\ panel = None
       /\ loadingAggregations = None /\ aggregations = None /\ activeFilter = None
       /\ chosen = None /\ openGroup = None /\ searchTerm = None /\ lists = None /\ body = None
       /\ previous = None /\ next = None /\ links = None /\ label = None /\ editor = None
       /\ now = None /\ story = None /\ fields = None /\ text = None /\ rendered = None
       /\ click = None /\ key = None /\ db = None /\ ui = None /\ up = None /\ down = None
       /\ page = None /\ left = None /\ home = None /\ form = None /\ asked = None /\ saved = None
       /\ base = None /\ stored = None /\ unused = None /\ displayed = None /\ connected = None
       /\ untold = None /\ events = None /\ applied = None /\ crossed = None
    \/ /\ part = "told" /\ ToldPage!Init /\ Unasked
       /\ feed = None /\ rev = None /\ changes = None /\ requests = None /\ pushes = None
       /\ sent = None /\ history = None /\ pos = None /\ list = None /\ dialog = None
       /\ server = None /\ hist = None /\ shown = None /\ panel = None
       /\ loadingAggregations = None /\ aggregations = None /\ activeFilter = None
       /\ chosen = None /\ openGroup = None /\ searchTerm = None /\ lists = None /\ body = None
       /\ previous = None /\ next = None /\ links = None /\ label = None /\ editor = None
       /\ now = None /\ story = None /\ fields = None /\ text = None /\ rendered = None
       /\ click = None /\ key = None /\ db = None /\ ui = None /\ up = None /\ down = None
       /\ page = None /\ left = None /\ home = None /\ form = None /\ asked = None /\ saved = None
       /\ base = None /\ stored = None /\ unused = None /\ displayed = None /\ connected = None
       /\ untold = None /\ events = None /\ applied = None /\ crossed = None
    \/ /\ part = "job" /\ JobPage!Init /\ Unasked
       /\ feed = None /\ rev = None /\ changes = None /\ requests = None /\ pushes = None
       /\ sent = None /\ history = None /\ pos = None /\ list = None /\ dialog = None
       /\ server = None /\ hist = None /\ shown = None /\ panel = None
       /\ loadingAggregations = None /\ aggregations = None /\ activeFilter = None
       /\ chosen = None /\ openGroup = None /\ searchTerm = None /\ lists = None /\ body = None
       /\ previous = None /\ next = None /\ links = None /\ label = None /\ editor = None
       /\ now = None /\ story = None /\ fields = None /\ text = None /\ rendered = None
       /\ click = None /\ key = None /\ db = None /\ ui = None /\ up = None /\ down = None
       /\ page = None /\ left = None /\ home = None /\ form = None /\ asked = None /\ saved = None
       /\ base = None /\ stored = None /\ unused = None /\ displayed = None /\ connected = None
       /\ untold = None /\ events = None /\ applied = None /\ crossed = None
    \/ /\ part = "pauseRun" /\ PauseRunPage!Init /\ Unasked
       /\ feed = None /\ rev = None /\ changes = None /\ requests = None /\ pushes = None
       /\ sent = None /\ history = None /\ pos = None /\ list = None /\ dialog = None
       /\ server = None /\ hist = None /\ shown = None /\ panel = None
       /\ loadingAggregations = None /\ aggregations = None /\ activeFilter = None
       /\ chosen = None /\ openGroup = None /\ searchTerm = None /\ lists = None /\ body = None
       /\ previous = None /\ next = None /\ links = None /\ label = None /\ editor = None
       /\ now = None /\ story = None /\ fields = None /\ text = None /\ rendered = None
       /\ click = None /\ key = None /\ db = None /\ ui = None /\ up = None /\ down = None
       /\ page = None /\ left = None /\ home = None /\ form = None /\ asked = None /\ saved = None
       /\ base = None /\ stored = None /\ unused = None /\ displayed = None /\ connected = None
       /\ untold = None /\ events = None /\ applied = None /\ crossed = None
    \/ /\ part = "scheduleRun" /\ ScheduleRunPage!Init /\ Unasked
       /\ feed = None /\ rev = None /\ changes = None /\ requests = None /\ pushes = None
       /\ sent = None /\ history = None /\ pos = None /\ list = None /\ dialog = None
       /\ server = None /\ hist = None /\ shown = None /\ panel = None
       /\ loadingAggregations = None /\ aggregations = None /\ activeFilter = None
       /\ chosen = None /\ openGroup = None /\ searchTerm = None /\ lists = None /\ body = None
       /\ previous = None /\ next = None /\ links = None /\ label = None /\ editor = None
       /\ now = None /\ story = None /\ fields = None /\ text = None /\ rendered = None
       /\ click = None /\ key = None /\ db = None /\ ui = None /\ up = None /\ down = None
       /\ page = None /\ left = None /\ home = None /\ form = None /\ asked = None /\ saved = None
       /\ base = None /\ stored = None /\ unused = None /\ displayed = None /\ connected = None
       /\ untold = None /\ events = None /\ applied = None /\ crossed = None
    \/ /\ part = "marked" /\ MarkedPage!Init /\ Unasked
       /\ feed = None /\ rev = None /\ changes = None /\ requests = None /\ pushes = None
       /\ sent = None /\ history = None /\ pos = None /\ list = None /\ dialog = None
       /\ hist = None /\ shown = None /\ panel = None /\ loadingAggregations = None
       /\ aggregations = None /\ activeFilter = None /\ chosen = None /\ openGroup = None
       /\ searchTerm = None /\ lists = None /\ body = None /\ previous = None /\ next = None
       /\ links = None /\ label = None /\ editor = None /\ now = None /\ story = None
       /\ fields = None /\ text = None /\ rendered = None /\ click = None /\ key = None
       /\ db = None /\ ui = None /\ up = None /\ down = None /\ page = None /\ left = None
       /\ srv = None /\ modal = None /\ fullUser = None /\ today = None /\ ahead = None
       /\ dateToday = None /\ job = None /\ runs = None /\ told = None /\ stored = None
       /\ unused = None /\ displayed = None /\ connected = None /\ untold = None /\ events = None
       /\ applied = None /\ crossed = None /\ raced = None
    \/ /\ part = "dashboard" /\ DashboardPage!Init /\ Unasked
       /\ feed = None /\ rev = None /\ changes = None /\ requests = None /\ pushes = None
       /\ sent = None /\ history = None /\ pos = None /\ list = None /\ dialog = None
       /\ hist = None /\ shown = None /\ panel = None /\ loadingAggregations = None
       /\ aggregations = None /\ activeFilter = None /\ chosen = None /\ openGroup = None
       /\ searchTerm = None /\ lists = None /\ body = None /\ previous = None /\ next = None
       /\ links = None /\ label = None /\ editor = None /\ now = None /\ story = None
       /\ fields = None /\ text = None /\ rendered = None /\ click = None /\ key = None
       /\ db = None /\ ui = None /\ up = None /\ down = None /\ page = None /\ left = None
       /\ srv = None /\ modal = None /\ fullUser = None /\ today = None /\ ahead = None
       /\ dateToday = None /\ job = None /\ runs = None /\ told = None /\ stored = None
       /\ unused = None /\ displayed = None /\ connected = None /\ untold = None /\ events = None
       /\ applied = None /\ crossed = None /\ raced = None
    \/ /\ part = "choice" /\ ChoicePage!Init /\ Unasked
       /\ feed = None /\ rev = None /\ changes = None /\ requests = None /\ pushes = None
       /\ sent = None /\ history = None /\ pos = None /\ list = None /\ dialog = None
       /\ hist = None /\ shown = None /\ panel = None /\ loadingAggregations = None
       /\ aggregations = None /\ activeFilter = None /\ chosen = None /\ openGroup = None
       /\ searchTerm = None /\ lists = None /\ body = None /\ previous = None /\ next = None
       /\ links = None /\ label = None /\ editor = None /\ now = None /\ story = None
       /\ fields = None /\ text = None /\ rendered = None /\ click = None /\ key = None
       /\ db = None /\ ui = None /\ up = None /\ down = None /\ page = None /\ left = None
       /\ srv = None /\ modal = None /\ fullUser = None /\ today = None /\ ahead = None
       /\ dateToday = None /\ job = None /\ runs = None /\ told = None /\ stored = None
       /\ unused = None /\ displayed = None /\ connected = None /\ untold = None /\ events = None
       /\ applied = None /\ crossed = None /\ raced = None
    \/ /\ part = "picked" /\ SavedPage!Init /\ Unasked
       /\ feed = None /\ rev = None /\ changes = None /\ requests = None /\ pushes = None
       /\ sent = None /\ history = None /\ pos = None /\ list = None /\ dialog = None
       /\ hist = None /\ shown = None /\ panel = None /\ loadingAggregations = None
       /\ aggregations = None /\ activeFilter = None /\ chosen = None /\ openGroup = None
       /\ searchTerm = None /\ lists = None /\ body = None /\ previous = None /\ next = None
       /\ links = None /\ label = None /\ editor = None /\ now = None /\ story = None
       /\ fields = None /\ text = None /\ rendered = None /\ click = None /\ key = None
       /\ db = None /\ ui = None /\ up = None /\ down = None /\ page = None /\ left = None
       /\ srv = None /\ modal = None /\ fullUser = None /\ today = None /\ ahead = None
       /\ dateToday = None /\ job = None /\ runs = None /\ told = None /\ stored = None
       /\ unused = None /\ displayed = None /\ connected = None /\ untold = None /\ events = None
       /\ applied = None /\ crossed = None /\ raced = None
    \/ /\ part = "bell" /\ BellPanel!Init /\ Unasked
       /\ feed = None /\ rev = None /\ changes = None /\ history = None /\ pos = None
       /\ list = None /\ dialog = None /\ server = None /\ flight = None /\ hist = None
       /\ shown = None /\ panel = None /\ loadingAggregations = None /\ aggregations = None
       /\ activeFilter = None /\ chosen = None /\ openGroup = None /\ searchTerm = None
       /\ lists = None /\ body = None /\ previous = None /\ next = None /\ links = None
       /\ label = None /\ editor = None /\ now = None /\ story = None /\ fields = None
       /\ text = None /\ rendered = None /\ click = None /\ key = None /\ db = None /\ ui = None
       /\ up = None /\ down = None /\ page = None /\ left = None /\ srv = None /\ modal = None
       /\ fullUser = None /\ today = None /\ ahead = None /\ dateToday = None /\ job = None
       /\ runs = None /\ told = None /\ home = None /\ form = None /\ asked = None /\ saved = None
       /\ base = None /\ applied = None /\ crossed = None /\ raced = None
    \/ /\ part = "times" /\ Init
       /\ feed = None /\ rev = None /\ changes = None /\ store = None /\ requests = None
       /\ pushes = None /\ sent = None /\ history = None /\ pos = None /\ list = None
       /\ dialog = None /\ server = None /\ flight = None /\ hist = None /\ shown = None
       /\ panel = None /\ loadingAggregations = None /\ aggregations = None /\ activeFilter = None
       /\ chosen = None /\ openGroup = None /\ searchTerm = None /\ lists = None /\ body = None
       /\ previous = None /\ next = None /\ links = None /\ label = None /\ editor = None
       /\ now = None /\ story = None /\ fields = None /\ text = None /\ rendered = None
       /\ click = None /\ key = None /\ db = None /\ ui = None /\ up = None /\ down = None
       /\ page = None /\ left = None /\ srv = None /\ modal = None /\ fullUser = None
       /\ today = None /\ ahead = None /\ dateToday = None /\ job = None /\ runs = None
       /\ told = None /\ home = None /\ form = None /\ asked = None /\ saved = None /\ base = None
       /\ stored = None /\ unused = None /\ displayed = None /\ connected = None /\ untold = None
       /\ events = None /\ applied = None /\ crossed = None /\ raced = None

AllNext ==
    \/ part = "news" /\ NewsPage!Next /\ UNCHANGED <<part, WithoutWireResults>>
    \/ part = "overtaken" /\ OvertakenPage!Next /\ UNCHANGED <<part, WithoutWireResults>>
    \/ part = "results" /\ ResultsPage!Next /\ UNCHANGED <<part, WithoutWireResults>>
    \/ part = "keys" /\ KeysPage!Next /\ UNCHANGED <<part, WithoutWireActions>>
    \/ part = "dialogs" /\ DialogsPage!Next /\ UNCHANGED <<part, WithoutWireActions>>
    \/ part = "marks" /\ MarksPage!Next /\ UNCHANGED <<part, WithoutWireActions>>
    \/ part = "removals" /\ RemovalsPage!Next /\ UNCHANGED <<part, WithoutWireActions>>
    \/ part = "saved" /\ SavedItemsPage!Next /\ UNCHANGED <<part, WithoutWireActions>>
    \/ part = "searches" /\ SearchesPage!Next /\ UNCHANGED <<part, WithoutSearchParams>>
    \/ part = "entries" /\ EntriesKeptPage!Next /\ UNCHANGED <<part, WithoutSearchParams>>
    \/ part = "reload" /\ ReloadsPage!Next /\ UNCHANGED <<part, WithoutSearchParams>>
    \/ part = "panels" /\ PanelsPage!Next /\ UNCHANGED <<part, WithoutSearchParams>>
    \/ part = "groups" /\ FilterGroupsPage!Next /\ UNCHANGED <<part, WithoutFilterPanel>>
    \/ part = "filters" /\ FilterRacesPage!Next /\ UNCHANGED <<part, WithoutFilterPanel>>
    \/ part = "details" /\ DetailsPage!Next /\ UNCHANGED <<part, WithoutItemView>>
    \/ part = "preview" /\ PreviewPage!Next /\ UNCHANGED <<part, WithoutItemView>>
    \/ part = "versions" /\ VersionsPage!Next /\ UNCHANGED <<part, WithoutItemView>>
    \/ part = "media" /\ MediaPage!Next /\ UNCHANGED <<part, WithoutItemContent>>
    \/ part = "line" /\ MetaLinePage!Next /\ UNCHANGED <<part, WithoutItemContent>>
    \/ part = "excerpt" /\ ExcerptsPage!Next /\ UNCHANGED <<part, WithoutItemContent>>
    \/ part = "tabs" /\ NewsTabsPage!Next /\ UNCHANGED <<part, WithoutAmNews>>
    \/ part = "back" /\ BackPage!Next /\ UNCHANGED <<part, WithoutAmNews>>
    \/ part = "briefing" /\ BriefingPage!Next /\ UNCHANGED <<part, WithoutAmNews>>
    \/ part = "topics" /\ TopicsPage!Next /\ UNCHANGED <<part, WithoutFollowedTopics>>
    \/ part = "moves" /\ MovesPage!Next /\ UNCHANGED <<part, WithoutFollowedTopics>>
    \/ part = "created" /\ CreatedPage!Next /\ UNCHANGED <<part, WithoutFollowedTopics>>
    \/ part = "colleague" /\ ColleaguePage!Next /\ UNCHANGED <<part, WithoutFollowedTopics>>
    \/ part = "manager" /\ ManagerPage!Next /\ UNCHANGED <<part, WithoutFollowedTopics>>
    \/ part = "kinds" /\ KindsPage!Next /\ UNCHANGED <<part, WithoutFollowedTopics>>
    \/ part = "pauses" /\ PausesPage!Next /\ UNCHANGED <<part, WithoutUserProfile>>
    \/ part = "profile" /\ ProfilePage!Next /\ UNCHANGED <<part, WithoutUserProfile>>
    \/ part = "told" /\ ToldPage!Next /\ UNCHANGED <<part, WithoutUserProfile>>
    \/ part = "job" /\ JobPage!Next /\ UNCHANGED <<part, WithoutUserProfile>>
    \/ part = "pauseRun" /\ PauseRunPage!Next /\ UNCHANGED <<part, WithoutUserProfile>>
    \/ part = "scheduleRun" /\ ScheduleRunPage!Next /\ UNCHANGED <<part, WithoutUserProfile>>
    \/ part = "marked" /\ MarkedPage!Next /\ UNCHANGED <<part, WithoutHomePage>>
    \/ part = "dashboard" /\ DashboardPage!Next /\ UNCHANGED <<part, WithoutHomePage>>
    \/ part = "choice" /\ ChoicePage!Next /\ UNCHANGED <<part, WithoutHomePage>>
    \/ part = "picked" /\ SavedPage!Next /\ UNCHANGED <<part, WithoutHomePage>>
    \/ part = "bell" /\ BellPanel!Next /\ UNCHANGED <<part, WithoutNotificationPanel>>
    \/ part = "times" /\ Next /\ UNCHANGED <<part, WithoutScheduleTimes>>

AllSpec == AllInit /\ [][AllNext]_all

--------------------------------------------------------------------------------
(* Properties. *)
(* The lists of Wire and of the news briefings. In whatever order requests are answered: when all
   have been, and none about stories after a newer one since the list was loaded, what was
   published meanwhile and belongs on the first page is listed in its newest revision or announced
   by the badge (nothing having been removed), and rows and badge are of the search that is shown.
   At any time every row has its data and no story is listed or counted twice, though pages are cut
   by offset from results that grow and shrink, the rows of the briefings are those of the marked
   tabs, and an opened item has switched its click off (wire/actions.ts, wire/reducers.ts, am-news). *)
WireLists ==
    /\ part = "news" => NewsPage!TypeOK /\ NewsPage!NewsNoticed /\ NewsPage!RowsOfSearch
    /\ part = "overtaken" => OvertakenPage!TypeOK /\ OvertakenPage!ItemsKnown /\ OvertakenPage!NoRepeats /\ OvertakenPage!NewsNoticed /\ OvertakenPage!RowsOfSearch
    /\ part = "results" => ResultsPage!TypeOK /\ ResultsPage!ItemsKnown /\ ResultsPage!NoRepeats
    /\ part = "back" => BackPage!TypeOK
    /\ part = "tabs" => NewsTabsPage!TabAgrees /\ NewsTabsPage!DrawnAsListed
    /\ part = "briefing" => BriefingPage!OpenedAlone

(* What is done to stories. With the timers run out the active row is the one previewed; a dialog
   acts on the items it was last asked for, though it opens long after and in place of another;
   when every answer is in, each listed copy, and the item opened on the home page, tells
   whether the server has the bookmark, however often it was pressed, and the page of bookmarks
   no longer lists what lost its own, save for an item of which two requests crossed each other
   on their way, until it is listed anew (wire/actions.ts, home/actions.ts). *)
StoryActions ==
    /\ part = "keys" => KeysPage!TypeOK /\ KeysPage!PreviewFollowsActive
    /\ part = "dialogs" => DialogsPage!TypeOK /\ DialogsPage!DialogAsked
          /\ DialogsPage!ShareButtonTells
    /\ part = "removals" => RemovalsPage!TypeOK
    /\ part = "marks" => MarksPage!MarksAgree
    /\ part = "saved" => SavedItemsPage!UnmarkedLeaves
    /\ part = "marked" => MarkedPage!TypeOK /\ MarkedPage!MarkShown

(* The search the user sees is the search that is made. It survives being saved as a topic and
   loaded, loading the page again from its URL and going back in the history; boxes and ticks
   nobody touched show it; and every bucket that was found or chosen can be reached in the
   filters, and no other is drawn (search/actions.ts, search/components, FilterGroup). *)
SearchesAgree ==
    /\ part = "searches" => SearchesPage!TypeOK /\ SearchesPage!SavedTopicLoads
          /\ SearchesPage!ChangedTopicIsOffered
    /\ part = "groups" => FilterGroupsPage!TypeOK /\ FilterGroupsPage!EveryBucketReachable
    /\ part = "entries" => EntriesKeptPage!EntriesAgree
    /\ part = "reload" => ReloadsPage!ReloadSame
    /\ part = "panels" => PanelsPage!PanelsFollow
    /\ part = "filters" => FilterRacesPage!OnlyFoundDrawn

(* What a pane shows belongs to the story it shows, whichever was opened before: its text, its
   versions, its agenda items and its embargo, also when that ends while it is read. Every
   medium outside the text is shown once, the line below the headline never has two separators
   in a row, and the excerpt shows the beginning of the text once, however the highlights cut it
   (wire/components, ArticleMedia, getTextFromHtml). *)
StoriesShown ==
    /\ part = "details" => DetailsPage!TypeOK /\ DetailsPage!PreviousAgrees
          /\ DetailsPage!LinksAgree
    /\ part = "preview" => PreviewPage!BodyOfShown /\ PreviewPage!EmbargoAgrees
    /\ part = "versions" => VersionsPage!NextAgrees
    /\ part = "media" => MediaPage!MediaOnce /\ MediaPage!ListImageShown
    /\ part = "line" => MetaLinePage!NoAdjacentSeparators
    /\ part = "excerpt" => ExcerptsPage!ExcerptOnce

(* A reader's topics, profile and notifications. Once all is answered the lists, the form and the
   URL are those of the server, a topic is in a folder of its own kind, the two stores of the
   page hold the same user, a pause is offered to be cleared, and said to hold, exactly when it
   does, what the messages said was saved is in the database, save for the half of the schedule
   that was saved while a run of the emails' job was on, and the badge and the panel agree
   with the server, for which no load calls the next for ever; the topics of the home page are
   those the user sees, and never more than six are chosen (FollowedTopics, user-
   profile/actions.ts, notifications, home). *)
ReadersSettings ==
    /\ part = "manager" => ManagerPage!TypeOK
    /\ part = "job" => JobPage!TypeOK
    /\ part = "profile" => ProfilePage!TypeOK /\ ProfilePage!StoresAgree
    /\ part = "bell" => BellPanel!TypeOK /\ BellPanel!BadgeTellsTruth /\ BellPanel!ReloadsEnd
    /\ part = "topics" => TopicsPage!ListFresh
    /\ part = "colleague" => ColleaguePage!ListFresh
    /\ part = "moves" => MovesPage!FormFollows
    /\ part = "created" => CreatedPage!PageFollowsURL
    /\ part = "kinds" => KindsPage!FolderOfKind
    /\ part = "pauses" => PausesPage!StoresAgree /\ PausesPage!ClearOffered
          /\ PausesPage!PausedIsTrue
    /\ part = "pauseRun" => PauseRunPage!StoresAgree /\ PauseRunPage!ClearOffered
          /\ PauseRunPage!PausedIsTrue
    /\ part = "told" => ToldPage!ToldIsServed
    /\ part = "scheduleRun" => ScheduleRunPage!ToldIsServed
    /\ part = "dashboard" => DashboardPage!TopicsCurrent
    /\ part = "choice" => ChoicePage!AtMostSix

(* A save of My Home never overwrites what another page saved or a deletion took off after the page
   was loaded, and the page it loads shows the topics that were saved, whatever was clicked
   while the save was on its way (PersonalizeHome, the etag of the user). *)
SavedAsMeant == [][
    /\ part = "choice" => ChoicePage!NoLostUpdateStep
    /\ part = "picked" => SavedPage!SavedIsShownStep]_all
================================================================================
