# Newsroom: specifications, model checks and proofs

Newsroom (`src/newsroom`, with a web client in `src/assets`) is the delivery
side of a newsroom system. Superdesk, the editorial side, pushes stories, events
and plannings to it; readers of subscriber companies search them, follow topics
and are notified; administrators manage users, companies and products. This
directory holds TLA+ specifications of the parts whose correctness hangs on
orderings, races, failures and times, their TLC configurations, and theorems
checked by TLAPS.

    tlc -workers 2 -config WireChain_races.cfg MCWireChain     # one run
    tlapm WireChainProofs.tla                                   # one proof module

`PROJECT.json` lists the components with what is modelled of each, the runs, the
source lines of every definition, the mutant every property is tried on, the
hazards of the code, and the theorems.

The server:

| Modules | Part of the code |
|---|---|
| `VersionFeed` | what the wire promises about versions of a story (abstract) |
| `WireChain`, `WireChainProofs`, `MCWireChain` | the push of text items |
| `ScheduledNotifications`, `ScheduledNotificationsProofs`, `MCScheduledNotifications` | the queue of scheduled topic emails and the command that empties it |
| `ScheduleTimes`, `ScheduleTimesProofs` | when that command serves a user, in minutes |
| `AgendaPush`, `AgendaPushProofs`, `MCAgendaPush` | the push of events, plannings and coverage deliveries |
| `DashboardCache`, `DashboardCacheProofs` | the caches of the home page and of the public page; theorems of these and of `HomePage` |

The web client with the handlers of the server its pages talk to:

| Modules | Part of the code |
|---|---|
| `WireResults`, `SearchParams`, `FilterPanel` | the wire page: results, what is searched for and its URL, the panel of filters |
| `WireActions`, `ItemView`, `ItemContent`, `AmNews` | clicks, keys, bookmarks and dialogs; an opened story and what is drawn of it; the AM News page |
| `FollowedTopics`, `UserProfile`, `NotificationPanel`, `HomePage` | a reader's topics, profile, notifications and home page |
| `AgendaResults`, `AgendaGrouping`, `AgendaRows`, `AgendaFilters`, `LocationFilter`, `CoverageView` | the agenda page: results, days, rows and panes, filters, coverages |
| `UserManager`, `UserLists`, `UserForm` | the administration of users |
| `CompanyManager`, `Entitlements`, `EntitlementsProofs`, `SettingsPages`, `CompanyReports`, `MonitoringProfiles` | companies, what they are entitled to, settings, reports, monitoring |
| `WebSocketClient` | the connection to the notification server, with its theorem |
| `PageProofs` | theorems about companies (`CompanyManager`), users and seats (`UserManager`), the form of a user (`UserForm`), the bell (`NotificationPanel`) and the profile (`UserProfile`) |
| `MCReaderPages`, `MCAgendaPages`, `MCAdminPages`, `MCEndings` | instances of these modules, side by side |

## 1. Inventory

The system is a set of Quart web workers, a set of celery workers with a beat
process, MongoDB, Elasticsearch, Redis (sessions, celery, caches), a websocket
server, and in each reader's browser a page with a store (Redux) per section. No
operation uses a database transaction; the only mutual exclusion is the lock
document of `superdesk.lock` (`lock(name, expire)`, `unlock(name)`), whose owner
is a process and which anyone may take once it has expired. The pages exclude
nothing: any number of requests may be under way and answered in any order.

### Wire push (`push/views.py`, `push/publishing.py`, `push/utils.py`, `wire/service.py`)

State: the `items` collection (`original_id`, `ancestors`, `nextversion`, ...),
one lock per pushed guid. Operations: `POST /push`, `handle_publish_text_item`,
`publish_item`, `fix_updates`, `get_last_version`. It hands a
`notify_new_wire_item` task to celery, deletes the caches of the front page and
reports deliveries to the agenda. Hard: versions arrive in any order; a push
reads other items than the one it has locked; a push fails half way and is sent
again; locks expire after 60 seconds. Correct when: every version links to its
neighbours, a story never disappears from the search results, superseded
versions do not come back, the newest version is announced.

### Agenda push (`push/publishing.py`, `push/agenda_manager.py`, `agenda/agenda_service.py`)

State: the `agenda` collection, where an event's document embeds its plannings
and a list of coverages derived from them. Operations: `publish_event`,
`publish_planning_item`, `publish_planning_into_event`,
`publish_planning_related_events`, `set_delivery`. Hard: events and plannings
arrive in any order; three handlers under three different locks read, change and
write back the same document; a message fails between two documents. Correct
when: an event shows its plannings in their newest version, coverages and
plannings of a document agree, an embedded planning can be opened.

### Scheduled notifications (`notifications/commands.py`, `notifications/services.py`, `push/notifications.py`, `users/service.py`)

State: `notification_queue` (one document per user, its index not unique), the
users' `notification_schedule` with `last_run_time`, the lock
`send_scheduled_notifications`. Operations: `add_item_to_queue` from the celery
task of an item; the command that beat starts every five minutes: read users,
read queues, email, `reset_queue`, `update_notification_schedule_run_time`; the
settings form. Hard: both sides read, then write what they have read; runs fail
or die with the lock; times are compared in windows of minutes. Correct when:
every match reaches its user once, at the times he has chosen.

### Caches of the dashboards (`wire/views.py`, `cards/utils.py`, `factory/cache.py`)

State: the cached items of each company's cards, of the galleries and of the
public page; threads that search and store in the background. Hard: stored after
a deletion what was searched before it; what one user of a company may see is
kept for all. Correct when: what is cached is not older than the last deletion
and marked as the company's own users see it.

### The lists of the web client (`assets/wire`, `assets/agenda`, `assets/search`, `assets/am-news`)

State: `items` and `itemsById`, the query and its history, `newItems`, the
preview and the opened item, groups of agenda rows by day, filters and
aggregations, the URL. Operations: search, scroll to the next page, push messages,
preview and open, filters and topics, back and forward. Hard: answers in any
order, pushes between two pages of results, timers of clicks and keys that
outlive what they were started on, three copies (URL, store, inputs) of what is
searched for. Correct when: the list, the panes, the badge and the URL agree with each other
and, once all is answered, with the server.

### A reader's own data (`assets/search/components/FollowedTopics.tsx`, `assets/user-profile`, `assets/notifications`, `assets/home`, `topics/`, `users/`)

State: topics with folders and subscribers, profile, schedule and pause,
notifications with their count, My Home; each in one or two stores and on the
server. Hard: two stores of one page, saves by a page with an old copy, deletions
and reloads in any order. Correct when: what is said to be saved is on the
server, no save undoes another's, and page and server agree at rest.

### Administration (`assets/users`, `assets/companies`, `assets/company-admin`, `assets/products`, `assets/monitoring`, `assets/company-reports`, `users/`, `companies/`, `monitoring/`)

State: users, companies, products, seats, profiles; their forms and lists.
Hard: a form holds a copy while others save; the cascade of a company to its
users is several writes; lists answered in any order. Correct when: nobody gains
rights, is left without a company or over the seats, and nothing saved is lost.

### Connection (`assets/websocket.ts`)

One socket shared by the stores of a page, an interval that reconnects, an
indicator. Hard: servers that come and go between two callbacks, subscriptions while it
is closing. Correct when: there is one socket, the indicator tells the truth and
the page reconnects.

### The rest

Real-time notification tasks, the query of searches and their filtering, the
deletion cascades of topics, expiry commands, sessions and external login,
monitoring alerts, email, history, the APIs, media, maintenance
commands and the application factory are listed in `PROJECT.json`, each with the
reason why it is not modelled: mostly documents with one writer, pure functions
from a request to a query, or input and output. In the web client the layout, the time picker
and what is kept in the browser's local storage are left out.

### How the parts meet

    Superdesk --POST /push--> wire push ---task---> (real-time notifications)
                                 |                        |
                                 | set_delivery           | add_item_to_queue
                                 v                        v
                              agenda push          scheduled notifications <--beat
                                 |                        |
                                 +-- caches <-- pages  users' schedules <-- profile
                                                  ^
                               websocket ---------+-- requests of the pages

The interfaces are small: a wire push leaves one record in `announced` (the task
and whether topic subscribers are told); `ScheduledNotifications` starts where
such a task has found the matching subscriptions; a text push meets the agenda
only in `set_delivery`, which `AgendaPush` models with the rest of that push left
to `WireChain`. A page meets the server in requests and push messages; each page
module contains the handlers it talks to, as far as what they answer or store
matters, and the changes that others make there.

## 2. What is modelled

On the server a database call is one step, because any other process may run
between two of them; whatever a handler computes between two calls belongs to
the step of the call that follows or precedes it. In the client a callback is
one step, as JavaScript runs it: a click, an answer, a message, a timer. A
variable that starts with a worker or runner index is a local variable of that
request. The variables named "history" exist for the properties only and no
guard reads them, but for the bounds.

### WireChain and VersionFeed

A story's versions are numbers; `EvolvedFrom` is the guid a version evolved
from, and a version is never its own ancestor. `Receive` is the lock of
`push/views.py` (a request that finds it taken is refused without effect);
`ReadOriginal`, `ReadParent`, `FindUpdate`, `FixDescendant`/`FindDescendant`
(the loop of `fix_updates`), `StoreItem`, `LinkParent`, `Announce` and `Finish`
are the database calls of the handler in their order. `find_one` is given no
order: it returns any match. `Fail` is an exception at any call (`finally`
unlocks), `Crash` the death of the process (nobody unlocks), `LockExpires` the
expiry. `Unlock` may free another request's lock, as locks belong to processes.
`LastVersions` is `get_last_version_ids` as the set of its possible answers.

`StoreItem` writes only the fields the pushed document sets, as
`item.to_dict()` leaves out what is unset: a correction keeps `nextversion`. It
is assumed that Superdesk numbers versions as it evolves them and that
`WIRE_NOTIFICATIONS_ON_CORRECTIONS` is off, its default.

`VersionFeed` is the promise to readers: a version is published once for all and
leaves the search results only when a published version has evolved from it.
A version that evolved from none keeps `NoItem` there.

### ScheduledNotifications

A match is an item that matched one subscription of a user with scheduled
notifications. A queue document is named by the match it was created for.
`StartTask` to `UpdateQueue` are the celery task, `StartRun` to `EndRun` the
command, `OpenForm`/`SaveForm` the settings view. A slot is a five-minute period
of the day, a `Tick` the change to the next; a user is due in the slots he has
chosen when `last_run_time` is not in the slot (`served`). Two ticks see the lock
of 610 seconds expire (`age`); the soft time limit of 600 seconds ends a run
before, unless it `overrun`s it: the limit raises inside the loop over the
documents, whose `except Exception` catches it.

### ScheduleTimes

`ScheduledNotifications` takes for granted that a run in the slot of a chosen
time serves it, once. Whether that follows from the numbers in the code
is the question of `ScheduleTimes`, where a step of time is a minute: beat sends
every five minutes a message that expires after 5 * 60 - 1 seconds
(`default_settings.py`), the window is five minutes (`commands.py`), the lock of a
run lasts a little more than ten and the soft time limit is ten
(`soft_time_limit=600`, `lock(expire=610)`), the form offers quarters of an hour.
`Workers` take the message (`Start`) or are started by hand (`StartByHand`),
decide with the clock read at the beginning who is due (`Read`), send the email
(`Email`) and write `last_run_time` (`Save`). Nothing ends a run: the soft time
limit is raised where the users are served and caught there like any other error
(`Fail`; `commands.py:116`, `:337`), so a run may last as long as it likes, its lock
passing to another one (`LockExpires`). `RunLimit` is therefore no guard of a run:
it is when its lock expires, and the properties name what comes of a run that
outlasts it. A message may be lost or expire (`Lose`), a run may die with its lock
(`Crash`). `unsaved` are the times a run failed or died for between the email and
`last_run_time`; `excused` those that were not served because their message was
lost, their run failed or died, or an earlier run or its lock lasted beyond the limit.
Not modelled: `--force` for a user without a `last_run_time`.

### AgendaPush

Messages of Superdesk are records numbered in the order of posting;
`versioncreated` is that number. A document is a record: the version of the
event's own data, `versioncreated` (which a planning may raise), `event_id`,
`planning_items` as a function of plannings, `coverages` as one of coverages.
`CoveragesOf` is `get_coverages` over all embedded plannings. `CollectPlannings`
to `UpdateEvent` are `publish_event`, `PublishPlanningItem` to `MergeCoverages`
the three calls of a planning, `FindCoverage` and `Deliver` `set_delivery`.
`Conflict` is a create that finds the document there.

Assumed: the search index is up to date with the collection; `service.update`
sets the given fields; the messages of one guid are handled in the order of
posting (a failed one before the next); a coverage belongs to one planning and
has one story; what Superdesk posts does not depend on Newsroom, so it may all
be posted first. Dates, delivery ids, watches, assignments of coverages to
dates, and notifications are left out.

### The modules of the web client

Each has the state of the reducers and components it models as records (`store`,
`form`, `list`, ...), one action per callback, the requests under way in
`requests` or `flight`, and constants that say what a check may do: `Acts` the kinds of
clicks, `MayFail` whether requests may fail, `AnyOrder` whether answers may come
in another order than the requests, `Waits` whether the user waits for an answer
before the click that the code does not expect (then what happens otherwise is described below), and
`Max...` the numbers of requests and changes. Labels, texts, queries and items are
model values; functions given as constants say what a query finds, which version
follows which, who has which product. What the reader of a module should know:

* `WireResults`: searches, pages, aggregations, badge, removals, preview, opened item and history.
  Answers carry no mark of their request; `applied` (history) tells whether an older one was
  taken after a newer (`mixed`), which leaves what it brought on the page until the next list.
* `SearchParams`: topic and navigation tags do not search again; the sort is
  never read from the URL; the first entry of the history is ignored.
* `FilterPanel`: "Clear search" has no handler; failed aggregations leave the
  skeletons; of two searches the first answer's list stays (`Waits`).
* `WireActions`: the selection survives searches and removals; a failed share
  leaves the dialog disabled. A request is sent, served (`Serve`) and answered (`Answer`) in
  three steps, in any order with `AnyOrder`; `crossed` (history) are the items of which two
  requests, one of them for a bookmark, overtook each other: their marks may differ from the
  server's until the list is asked for again.
* `ItemView`: in previews the pane is keyed by the id of the story; the embargo is read when
  it is mounted; failed versions leave the loading; an older answer overwrites the
  next box (`Waits`). `ItemContent`: one level of groups in the line of fields;
  components that draw nothing leave separators; highlights that touch are drawn twice.
* `AmNews`: tabs, list, timers and history of a page whose paging, pushed
  changes, menus and selection are those of the wire page; answers in order;
  an entry of the history keeps the state only with "back"; timers survive unmounting.
* `FollowedTopics`: errors are swallowed and a success is told; a new topic is
  posted without an etag; a folder may be deleted while it is chosen.
* `UserProfile`: any answer to a fetch replaces typed text; dialogs use the
  values at opening; the popup compares UTC dates. A run of the emails' job reads the user
  (`StartRun`) and writes back the schedule it read (`UpdateRunTime`), undoing what was saved
  between; `raced` (history) are the halves of the schedule, times and pause, last saved while a
  run was on. The handler of a save reads and writes in one step.
* `NotificationPanel`: with `AnyOrder` it can stay stale.
* `HomePage`: the wide layout only; deleted topics are counted among the six;
  double saves are told apart by the etag.
* `AgendaResults`: two searches in flight can skip a page (`Waits`); a killed
  item shifts offsets; a moved item keeps its old rows.
* `AgendaGrouping`: zones of a fixed offset, no summer time, no groups by week or month.
* `AgendaRows`: a click and then an arrow within its timer (`Waits`); in the
  combined view the keys stop; panes fetch again.
* `AgendaFilters`: several controls have no effect, or are ignored by the
  server; the page of bookmarks has no bar. `LocationFilter`: Enter
  reloads the page; quick reopening fills the old list (`Waits`); listeners leak.
* `CoverageView`: marks lag one version behind; boxes are keyed by their index;
  a row is not redrawn after watching. Watching of whole items is in `AgendaResults`.
* `UserManager`: the etag is compared (`Handle`) before the form is made and validated and the
  user is updated (`Write`) without one, so that two saves may both pass: `clashed` (history) are
  the users of whom one was written while another had passed. Seats are over-assigned under a filter and the server does not
  enforce them; a new user's id is one never used before, as it is for `CompanyManager`'s companies. `UserLists`: the products stay when one is clicked; a refused
  request for seats closes the dialog; the first answer ends the loading; 250 users at most.
* `UserForm`: a save is checked (`Accept`) and written and answered (`Answer`) in two steps, as in
  `UserManager`; the server refuses to delete who asks for it; the list is fetched with the success of a save; the success of an
  approval closes whichever form is open; errors of another form are shown when
  it was switched before the answer (`Waits`); resending with 400 sets an error
  no field shows; an account manager is offered types the server refuses.
* `CompanyManager`: the list keeps loading after a failure; there are no etags; a form without
  an administrator leaves the one there is; a deletion is one step with that of the users.
* `Entitlements`: a save of a company reads it (`SaveCompany`), writes it (`WriteCompany`), reads its
  users if it changed (`ReadUsers`) and updates them one by one (`UpdateUser`); each update of a
  user, one of these or the save of his form (`SaveUser`, with the etag), reads the company
  (`ReadCompany`) and writes the user (`Write`); anything may happen between two of these steps.
  `overtaken` (history) are the users last written from a company that was saved since it was read,
  or whose company two saves wrote at once: they may keep a product it lost. A denied section
  leaves `denied` when an update that read the user before it was denied writes him.
* `SettingsPages`: forms share objects with their lists; a double save creates
  two; answers out of order leave the older list. `CompanyReports`: reports
  share their filters; Run after scrolling loses the next page.
* `MonitoringProfiles`: options by position in a list; whole profiles are saved
  over subscribers; a change of company keeps them.
* `DashboardCache`: threads in any order; `get_in_background` may time out; what
  is made from cached cards can be stale without a race for up to two timeouts;
  the cache of the public page's configuration and those per item are left out; an
  empty dict counts as a miss.
* `WebSocketClient`: the server goes up and down at any moment, `MaxOutages` times.

### Side by side

The pages share no state but the server's, which each page module has its own part of.
They are checked in three modules (`MCReaderPages`, `MCAgendaPages`, `MCAdminPages`)
that hold instances of the page modules side by side: `part` is chosen at the
start and says which instance takes the steps, all others are idle. So a run
with 41 parts is 41 small checks, each with bounds made for the properties it
checks. A property of such a run is a theme, a conjunction `part = "p" => P!Inv`
of named properties of the page modules, each stated and explained there:
`StoriesShown` is ten of them. One component of each of these modules is extended instead of
instantiated, so that a property that is proved is the very one that is run: `ServedOnce`
and `NoneMissed` (`ScheduleTimes`) in `MCReaderPages`, `DashboardInv` (`DashboardCache`) in
`MCAgendaPages`, `PermissionsInv` and `FormTellsGrant` (`Entitlements`) in `MCAdminPages`,
`SocketInv` (`WebSocketClient`) in `MCEndings`. The properties proved in `PageProofs` are
parts of the themes `AccountsManaged`, `SavesKeep` and `ReadersSettings`.
`MCEndings` does the same for liveness, with the server's queue and pushes among
its parts.

## 3. The runs

All runs were explored to the end. "Faults" are those of the configuration.

| Run | Instance | Distinct states | What it shows |
|---|---|---|---|
| `push_sequential` | chain 1<-2<-3<-4, one worker, each guid pushed twice, exceptions | 5.6 M | any order of arrival ends in the same chain; the last version is found, the newest announced; a retry repairs the links; links are sound and superseded versions stay so |
| `push_races` | 1<-2, 1<-3, one guid twice, two workers; exceptions, crashes, expiring locks | 3.1 M | the story stays visible, an item has one writer until its lock expires, `VersionFeed` is implemented |
| `push_concurrent` | chain of 3, two workers, nothing fails | - | **violation** of `ChainComplete` |
| `queue_races` | 2 users, 3 matches, 2 celery workers, 2 starts of the command, 3 slots | 1.9 M | no match is emailed twice, runs exclude each other |
| `queue_faults` | 1 user, 2 matches, changed times, a disabled user, one fault, lost tasks | 0.4 M | nothing leaves the queue unsent but for named reasons; one email per time |
| `queue_reset` | 2 users, 3 matches, nothing fails | - | **violation** of `NothingLost` |
| `agenda_sequential` | 2 events, 2 plannings, 1 coverage, a secondary event, 4 messages, 1 exception, one at a time | 0.9 M | events embed their plannings in the newest version and show their own |
| `agenda_races` | 1 event, 1 planning, 1 coverage, 3 messages, 2 workers, locks that do not hold | 1.2 M | coverages follow plannings, plannings can be opened |
| `reader_pages` | 41 parts: the pages of a reader, the times of the emails | 1.2 M | five themes, `WireLists`, `StoryActions`, `SearchesAgree`, `StoriesShown`, `ReadersSettings`; `SavedAsMeant`, what a save may not do; `ServedOnce` and `NoneMissed`, each chosen time is served once or there is a reason the model names |
| `agenda_pages` | 22 parts: the agenda page, the caches of the home page | 0.6 M | `AgendaLists`, `AgendaControls`; `DashboardInv`, what the home page may be relied on for |
| `admin_pages` | 25 parts: users, companies, permissions, settings, reports, monitoring | 1.4 M | `AccountsManaged`, `SettingsAgree`; `SavesKeep`, what a save may not do; `PermissionsInv` and `FormTellsGrant`: no user keeps what his company lost unless writes overtook reads, and a form shows what it grants |
| `endings` | 10 parts: dialogs and searches, the socket with 3 stores and 3 outages, the queue with 2 faults, the push with crashes; fairness | 27 k | `SocketInv`; `Reconnects`, `LoadingEnds`, `ServerWorkEnds`: what has to end does |

### Why these bounds

* Four versions are the fewest for which `fix_updates` walks over two
  descendants and still has an ancestor on its left. Two pushes per guid give
  a correction or a retry. Three versions and two workers give every pair of
  positions in a chain; the fork makes `find_one` choose.
* Two workers and one version more than the parent suffice for the races found:
  each relates two requests. The theorems below hold for any number.
* Two notifiers, two runners: the races of the queue are between two writers of
  one document, or a writer and the command. Three slots are one more than the
  lock of a dead run covers. One fault is enough for each kind of failure at
  each step; two for a failure of the run that follows a failure.
* The day of `ScheduleTimes` has two quarters of six minutes, both chosen, with beat every
  two minutes, a window of two and a limit of four: the same proportions as
  15, 5, 5 and 10 (`RunsFit` has no slack), so that two chosen times are neighbours across
  midnight. 13 minutes hold three chosen times and a run that outlasts
  its lock into each; two workers and a run by hand overlap. Its
  theorems hold for any day, any times, any workers and without the horizon.
* Four messages of the agenda are two versions of an event and two plannings, or
  an event, two versions of its planning and a story. For more documents and
  workers the two invariants of `agenda_races` are proved.
* A page's bug needs two answers, or an answer and a message, to meet: the parts
  have two or three items, two requests of each kind under way and one to three
  changes by others, enough for every order of two answers with a change before,
  between and behind them. Lists that are paged have a page of one or two items,
  so that a page boundary can fall between any two of them.
* Permissions have two companies, one user, one section, one product and two saves, of a
  company and of the user or of the company twice, with every read, write and update of the two
  interleaved; the part of denied sections has three saves, so that one that switches a section off
  runs between two of the company. The theorems hold for any number.
* `FixLimit` is the code's 50 and out of reach of chains of four: that the rest of
  a longer chain keeps incomplete ancestors is listed as a hazard without a run.
  `ChainIsComplete` assumes that no version has more than `FixLimit` ancestors
  (`Shallow`); with a limit of two TLC finds a chain of four that violates it.
  `MaxPushes`, `MaxPosts`, `MaxFaults`, `MaxOutages`, `Horizon` and the `Max...` of the
  pages are the only bounds that belong to the checks and not to the system.

`CHECK_DEADLOCK FALSE` is set everywhere: when Superdesk has nothing more to
push, the user nothing more to click, or the bounds are reached, the system rests.

### Fairness

`FairSpec` of `WireChain`: a request that has started runs on (the web server
does not suspend it; a crash is an action of its own), and a lock that has
expired counts as free, since `lock()` takes it then. No push ever has to
arrive. `FairSpec` of `ScheduledNotifications`: started tasks and runs go on, an
expired lock counts as free, time passes, and beat's messages get through often
enough: a slot that comes round again and again with no run in progress has, on
some day, a run that starts in it and reads the clock before the slot ends. Strong
fairness is used for these, as the slot and the lock disable them time and again.

On the pages a request that was sent is answered, with a result or a failure, a timer
fires and the server delivers its pushes: the browser times a request out and
runs its timers. No user ever has to click, no change has to be made and no
server has to come back; `Reconnects` says what follows once it has. `MCEndings`
states weak fairness of answers, deliveries and closings; as one part alone
takes steps, one condition for all parts is the same as one for each.

### Properties that only hold under a condition

`ChainComplete`, `LastVersionFound` and `NewestAnnounced` speak of histories
without a failed push, between pushes. The first two hold for one push at a time
only (see the findings), the third for any number until a lock expires. `OneWriterPerItem` ends when the lock of an item expires under a push of it
(`lapsed`). `OneEmailPerSlot` needs one notifier, no failed run and no changed
schedule; `KeptUntilSent` one notifier. `EventComplete` and
`EventCurrent` need messages handled one by one. `ServedOnce` leaves out times a run failed
or died for between email and `last_run_time`, `NoneMissed` those that are `excused`;
`UserWithinCompany` (in `PermissionsInv`) users that were `overtaken`; `NoLostUpdate` (in
`AccountsManaged`) users that `clashed`; the profile's properties halves that `raced`, the marks
of `StoryActions` items that `crossed`, and the list of `WireLists` answers that were `mixed`. The
theorems have the same exceptions. Each is a history of the race itself and not of its
outcome: without that race the property is checked in full. Parts of the pages whose
module has a `Waits` or `AnyOrder` check the promise for the orders that keep
it; the notes above say what the other orders do.

## 4. Findings

With a run that shows them:

* **A version and its update pushed at the same time** (`push_concurrent`).
  Locks are per guid. The update does not see its parent, the parent does not
  see its update, both are stored, and nothing repairs them afterwards, although
  the repair of late arrivals is what `fix_updates` is for.
* **A match queued during a run is deleted unsent** (`queue_reset`). The run
  emails what it has read at its start and then deletes every document of the
  user, whatever was appended or created since.

Met while modelling, without a run of their own; the modules describe the code
as it is, so that their properties leave these cases out or name them:

* Pushes: two plannings of one event pushed concurrently lose one of the two in
  the event (`EventComplete` is checked one by one). A push that fails after
  `fix_updates` and is sent again lists the new ancestors twice in the
  descendants, which is why `RetryRepairsLinks` is about `nextversion` only.
* Queue: two celery workers that append to one document lose one of the two
  matches. A run that outlives its lock overlaps the next one, and nothing ends it: the
  soft time limit is swallowed by the loop (`commands.py:116`), at the cost of one user's email.
  A run of more than ten minutes can make users miss the next time. The run writes back the whole
  `notification_schedule` it has read with the users (`users/service.py:174`), so times or a pause that the
  user has saved since are undone. Were the limit a minute more, a time could be
  missed: the assumption `RunsFit` has no slack (5 + 10 <= 15).
* Caches: a request stores, after the deletion of a push, what it had found before
  (`wire/views.py:192`); the gallery's pictures are not among the keys deleted
  (`wire/views.py:211`); the marks of the first user, an administrator's too,
  are kept for the company (`wire/views.py:194`).
* Wire page: answers are taken in any order (`wire/actions.ts:280`); an answer
  computed before a removal brings the item back (`wire/reducers.ts:60`);
  superseded items pass the filter of new items (`assets/reducers.ts:357`); a
  removed item is previewed by keys and timers (`wire/components/ItemsList.tsx:66`).
* Search and its URL: `toggleNavigation` clears the URL and not the store
  (`search/actions.ts:112`); a change to a topic is not in the URL (`:32`); the state of the
  history is the one before the change (`:362`), its first entry is ignored
  (`wire/index.ts:34`); saving is offered for every search
  (`search/selectors.ts:139`); a topic just created may never be searched for
  (`search/components/TopicEditor.tsx:281`).
* Stories: all associations count as videos (`wire/utils.ts:34`), orphan
  separators and a group of empty fields (`wire/components/fields/index.tsx:123`), excerpts are never
  truncated (`wire/utils.ts:335`), the last of the pending updates after
  every second render (`agenda/utils.ts:511`), "Follow story" at home does nothing
  (`home/components/HomeApp.tsx:314`), bookmarks at home reopen a closed item
  (`home/reducers.ts:112`).
* AM News: tab of a closed link (`AmNewsApp.tsx:69`), "back" shows no items
  (`am-news/index.ts:49`), saved items ignore the user (`am_news/views.py:33`).
* Agenda page: a killed item stays in its groups and throws
  (`agenda/reducers.ts:305`), a pushed text is compared with itself
  (`agenda/actions.ts:620`), days of groups in zones far from UTC
  (`agenda/utils.ts:798`, `:802`, `:775`), arrows in the combined view
  (`AgendaList.tsx:203`), "Open" from the menu (`ActionList.tsx:26`), four of the location
  filter (`LocationFilter.tsx:163`, `:239`, `:242`, `:259`) and a namesake that clears it
  (`agenda/actions.ts:690`), dots and a term without its box in the panel
  (`WithPagination.tsx:31`, `FilterGroup.tsx:91`).
* Profile: the last day of a pause (`NotificationPopup.tsx:22`), dates that are not
  required (`PauseNotificationModal.tsx:119`), errors after "Cancel"
  (`UserProfile.tsx:75`).
* Administration: of two saves of one user that both pass the comparison of the etag one is lost
  (`users/views.py:262`, `:293`); a user's update reads his company and is written later
  (`users/service.py:77`), so that he may keep a product a save in between took from it, and a save
  of a company compares with what it had read (`companies_async/service.py:70`), so that of
  two at once neither may update the users; default embed permissions are saved
  (`companies/reducers.ts:29`), a company without sections frees its users
  (`companies_async/service.py:77`), the secret of a new client lands in another's
  form (`oauth_clients/actions.ts:86`), totals of at most 250 (`users/reducers.ts:204`), a
  request for NaN seats (`CompanyAdminProductSeatRequestModal.tsx:83`), three of
  the user's form (`EditUser.tsx:287`, `users/views.py:217`,
  `users/utils.ts:45`), reports without products or with the filters of
  others (`ProductCompanies.tsx:19`, `SubscriberActivity.tsx:42`), schedules
  of monitoring (`MonitoringSchedule.tsx:91`, `:177`, `monitoring/actions.ts:175`).
* Kept by the browser, not modelled here: older tabs overwrite marks
  (`local-store.ts:40`) and a topic turns the featured option round
  (`agenda/actions.ts:774`).

## 5. What is proved

For every set of items, workers, users, times, events and plannings, and every
choice of faults unless stated otherwise. Each theorem goes by an inductive
invariant, most of which TLC checked first on the instances of the runs.

**WireChainProofs**

* `TypeCorrect`.
* `LinksAreSound`: a `nextversion` leads to a stored update. Inductive through
  `LinkInv`: what a worker has read of a parent or an update stays true until it
  is written, since items are not removed and their origin does not change.
* `StoriesStayVisible`, from `LinksAreSound`: updates have greater numbers than
  what they evolved from, so the greatest stored version of a story
  (`GreatestOfFinite`) has no `nextversion` (`NewestHasNoNext`).
* `SupersededForGood`: no step unsets a `nextversion`.
* `WritersExclude`: two requests are in the handler of one guid only after a lock
  has expired under one of them. Inductive through `HolderInv`: whoever is in
  the handler holds the lock of its guid.
* `RetriesRepair`, for one worker and all faults: once what has failed was sent
  again, every item with a stored update has a `nextversion`. By `RepairInv`: a link
  that is missing belongs to an update that is still `unfinished`, and a new item knows an
  update it has.
* `NewestIsAnnounced`, for any number of workers, if no lock expires: in a history without
  failures the newest versions have been announced to the topic subscribers. By
  `NewsInv`, with `HolderInv`: a stored item is announced, has an update, or is
  in the hands of the worker that knows it is new.
* `ChainIsComplete`, for one worker, all faults, and stories without forks (`Unforked`: no
  two versions evolved from the same one) whose versions have at most `FixLimit`
  ancestors (`Shallow`): in a history without failures every version lists all its stored
  ancestors, has the first one's guid as `original_id`, and is superseded when it has an
  update. By `LineageInv`, with `RepairInv`: while `fix_updates` walks down, the
  versions `Behind` it carry what they will have once the item is stored,
  those `Ahead` what they had. The facts about lineages it rests on hold for
  every set of stored versions and are inductions over a story, done with its
  first counterexample (`FirstOf`): what a version is below (`BelowStep`,
  `BelowThrough`), what storing a version does to the others' lineages
  (`LineageElsewhere`, `LineageThrough`: it puts its own before those that hang from it,
  as the loop of `fix_updates` does), and that the limit is not reached
  (`LimitNotReached`).
* `LastVersionsLast`, under the same conditions: `get_last_version_ids` ends
  (`LastVersionsDef`) and leads from every version to one that descends from it and is not
  superseded. The last version of a story has the same root (`RootBelow`), so that
  the search by `original_id` finds one; and of two versions with the same
  root one is below the other (`BelowTotal`).
* `ImplementsFeed`: every step of the push is a step of `VersionFeed` or a
  stutter under the mapping `published <- stored`, `superseded <-` the stored
  items with a `nextversion`; it rests on `LinkInv`.

**ScheduledNotificationsProofs**

* `TypeCorrect`.
* `RunsExclude`, if no run `overrun`s, through `RunInv` (a run in progress holds
  the lock; crashes leave the lock held and the runner idle).
* `EmailsOnce`, if in addition no run fails. A match has one home document; all
  copies of it, in the collection, in a task or in a run, place it there
  (`HomeInv`), and once it is emailed its home is gone or the run that emailed
  it is about to delete it (`SentInv`, with `TaskInv` and `BatchInv`). It is the
  failed update of a deleted document (`UpdateQueue`) that keeps an old copy
  from coming back.
* `NothingUnsent`, for one notifier and all faults of the model: a match that has
  left the queue was emailed, or left for one of the named reasons. With one
  notifier a user has one document (`QueueInv`), and what the worker has read of it is
  all there is (`TaskInv`, which `KeptInv` collects with `HomeInv` and `BatchInv`); a
  run has one document of a user in hand, the one in the queue, and empties it
  after the email (`ReadInv`).
* `OneEmailForATime`, for one notifier, no overrun and as long as no run has failed
  and nobody has taken other times (that `Choices` are other times than the first ones
  keeps one from coming back to these): who was emailed in the slot has it in
  `last_run_time`, or will as soon as the run goes on, and no run of the slot
  that has him due has a document of his ahead (`SlotInv`, with `KeptInv`).

**ScheduleTimesProofs**, for all periods and times that meet `MinutesAssumption`

* `TypeCorrect`.
* `ServedOnlyOnce`, for runs of any length, failures and crashes. `OnceInv`: a run whose lock has
  passed on is older than the limit (`LockInv`), so that no two runs have begun within it
  (`ApartInv`) and none serves the time of another's window (`DueInv`); a time that was served
  lies before `last_run_time`, or a run is about to save that or has failed to (`ServedInv`).
* `NoTimeMissed`, which needs `RunsFit` (a window and the limit fit between two times
  that can be chosen). `OnTimeInv`: beat's last message is at most a period old
  (`BeatInv`); a time that comes while a run or a lock of an earlier one lasts is `excused`
  (`LateInv`); `last_run_time` does not lie in the quarter of a time that was neither served nor
  excused (`LastInv`); a lock taken in the window of a time has a run that serves it or has done so
  (`HeldInv`); and a time not yet accounted for has its message waiting or a run under way
  (`PendingInv`). The step that matters is a message that finds the lock taken and is given
  up: the lock was taken in the window of the same time, or the time is excused.

**AgendaPushProofs**

* `TypeCorrect`.
* `CoveragesAgree`, if no planning has a secondary event: the coverages of every
  document are those of its embedded plannings. Races lose updates, but never
  half of one: every write takes both fields from one reading or computes one
  from the other (`AgreeInv`: `DocsAgree` for the collection, `ReadAgree` for what
  requests have read, `DeliverShows` for the search hits).
* `PlanningsStayOpen`: what an event embeds is in the collection, through
  `OpenInv` (the same for what was read, and `OwnFirst`: a planning is written
  to its own document first).
* `EventsAreCurrent` (an event shows its newest version) and `EventsAreComplete` (it
  embeds the newest version of its plannings, apart from what failed), for
  messages handled one by one, no expiring lock, any number of workers and any
  errors. The inductive invariant is `OneByOneInv`, the conjunction of `OneInv`
  (one message, one request), `MessageInv` (what a request has in hand is what
  was posted), `ReadInv` and `WrittenInv` (what it has read is what is stored, what
  it has written already is what it meant to), and for the collection
  `CurrentInv`, `PlanInv` and `EventInv`. Two facts make it work: a planning raises
  the `versioncreated` of its event, but never above that of the last message
  posted, so that a newer version of the event is still taken for newer; and an
  event that is created late embeds the plannings' own documents, which are
  written before the copies in other events (`DocsKept`, `EventStepDone`).

**WebSocketClient** (the theorem stands in the component's module): `SocketCorrect`, for any
stores and number of outages: the page
has one socket, does not give up while it has subscribers, and the indicator
tells the truth, through `IInv`, which adds what each state of the
socket says about the interval and the callbacks under way.

**DashboardCacheProofs**, for any users, companies, products and kinds of requests

* `HomeStaysFresh`: with `DELETE_DASHBOARD_CACHE_ON_PUSH` the home page's entries are
  current once the background threads have ended, unless a change was made while
  something was being computed or stored. By `FreshInv`: until then all that was read is what is
  there, and old entries are about to be deleted.
* `OwnViewKept`: what is kept for a company is what one of its users sees (`OwnInv`).
* `TypeCorrect`; `DashboardHolds`, the three together as the run checks them.

and of the home page in the browser (`HomePage`), for any topics, items and galleries and any
number of requests under way

* `HomeLosesNothing`: no save of My Home replaces a dashboard that changed behind its page, with
  answers in any order, failures, double clicks, other pages and deletions. By `SameInv`: as long
  as the page's etag is the server's, the dashboard is the one it was loaded with.
* `SavedChoiceIsShown`: the page that a save loads shows what was saved, if the user has no other
  page and nothing is deleted. `SavesInv`: while the answer to an accepted save is on its way, its
  topics are the server's dashboard and the page's etag is old, so that no other is accepted.
* `HomeTopicsCurrent`, for answers in order that do not fail: a page that waits for nothing has
  the topics its user sees (`TopicsInv`: the last push or reload on its way is as new as the server).
* `HomeMarkShown`, for a reader who waits for the answer to his click and any failures: the open
  item's bookmark is shown as the server has it (`MarkInv`: one click is on its way at most, and
  if it was accepted its answer brings what the server has). An item is never null (`NullIsNoItem`).

**EntitlementsProofs**, for any companies, users, sections, products and seats

* `TypeCorrect`, by `RecordsOK` and `OwnProducts`: a company has products of its own sections.
* `DownloadsAreShown`: who cannot see a kind of content cannot download it.
* `UsersStayWithinCompany`: once all saves and the updates they started are done nobody holds a
  product his company has not but those `overtaken`, with each read and write a step of its own and
  through any forms opened before. By `Covered`: whoever else has such a product has an update
  to come or under way.
* `PermissionsHold`: these three, as the run checks them.
* `DeniedForGood`, for companies that keep a section (`~MayEmpty`): what was denied to a user
  stays denied, until an update that had read him before writes (`DeniedOff`, with
  `UpdatesKeepOff`: an update read since keeps it off). Without the condition it is false: a
  user freed by a company without sections gets them all back.
* `FormsTellTruth`, a step property: what a user's form shows as on is what he has once it is
  saved, if the page has the companies as they are and the company is not saved between the
  read and the write (`FormsSent`).

**PageProofs**, for any companies, employees, users, products, languages, notifications, names and
times, any number of requests under way, and any bounds

* Companies. `CompaniesTypeCorrect`. `GoneForGood`, for answers in the order of the requests: a
  deleted company does not come back to the list, whatever searches and lists were on their way
  (`GoneInv`: what was computed before the deletion is answered before it; `InOrder` numbers the
  requests). `SavesOfHisOwnStay`, for an administrator who waits for every answer, and lists that do
  not fail: no later form of his undoes what he has saved; `CurrentInv`: list and form hold all
  saved edits, or a new list is on its way. `AdministratorsAreStaff`, if he waits and nothing
  fails: the monitoring administrator works in the company (`StaffInv`: the users last loaded are
  those of the company in the form).
* The form of a user. `CompanyAlwaysThere` (nobody but an administrator is without a company,
  whoever saves which form), for `CompaniesKnown`; `TypesKept` (only administrators change the type
  of an existing user), a step property that rests on the server's checks alone.
  `NobodyDeletesHimself` (`MeInv`: the page lists the accounts of the server, and no request under
  way deletes him); the server would refuse it besides. `NothingForbidden`, for administrators, and for a
  company's admin who waits for each answer (`ColleagueInv`: the open form and the one sent are of
  an account that is there, of the same type); of an account manager it is not true.
* The users of a company. `UsersTypeCorrect`. `NothingOverwritten`: with answers in any order,
  failures, double clicks and another administrator, a save replaces a version it has not seen only
  when the two ran into each other, one written between the other's check and write; it is the
  etag that keeps it otherwise, whatever the page holds (`CheckedInv`). `DeletedUsersStayGone`, for answers in
  order (`UserGoneInv`). `SeatsNeverExceeded`, for one administrator who waits, does not filter the
  list, and whose requests do not fail: no product has more users than seats. `SeatsInv`: the page
  has all users when a form is edited, and the form fits what is left (`Fits`); the lemmas about
  seats count finite sets. Each condition is needed: the server does not enforce the seats.
* The bell. `BellTypeCorrect`; `BellTellsTruth`, for answers in order and any pushes: once the open
  panel has heard of everything and waits for nothing, its count and list are the server's.
  `BellInv`: the last load, less what was deleted behind it, is the server's list. That a
  deletion is applied to a list that was loaded before or behind it is the same (`LeftOf`).
* The profile, for a reader who waits for each answer (one request under way, `ProfileShape`) and
  any number of runs of the emails' job, but for a half of the schedule last saved while one was
  on (`RunInv`: what the job has read is what is there, apart from these).
  `ProfileToldTruth`, whatever fails: what the messages said was saved is what the server has
  (`ToldInv`: what they will have said when the answer comes is). If nothing fails:
  `ProfileStoresAgree` (`FollowInv`: every save is followed by a fetch, one of the popup by a fetch
  for both stores), `PauseCanBeCleared` (`PauseInv`: the dates of the server, of a request and
  of the dialog are in order), and where the user's date is that of UTC `PopupSaysPaused`.

The assumptions are the `ASSUME`s of the modules and those of the theorems;
TLC evaluates the former in every run.

### Only model-checked

* Liveness: `Reconnects`, `LoadingEnds`, `ServerWorkEnds`. TLAPS has no `ENABLED`
  and so no fairness.
* The themes of the pages: `WireLists`, `StoryActions`, `SearchesAgree`, `StoriesShown`,
  `ReadersSettings`, `AgendaLists`, `AgendaControls`, `AccountsManaged`, `SettingsAgree`, and of
  their steps `SavedAsMeant` and `SavesKeep`. Each is a conjunction over instances with constants
  of their own. What `PageProofs` proves of companies, users, their forms, the bell and the profile is
  the part of it in `AccountsManaged`, `SavesKeep` and `ReadersSettings`, and what
  `DashboardCacheProofs` proves of the home page its part in `SavedAsMeant`, `ReadersSettings` and
  `StoryActions`; `AtMostSix`,
  `ListAgrees` and the seat requests are not proved. Nor are the lists: `WireResults`,
  `AgendaResults`, `AgendaGrouping`, `ItemContent` and `CoverageView` compute them with `SelectSeq`
  and folds over sequences, and what those return for every list is an induction over
  data, which the provers cannot do here. The other pages (`SearchParams`, `FilterPanel`,
  `FollowedTopics`, `SettingsPages`, `MonitoringProfiles`,
  `CompanyReports`, `UserLists`, `AgendaRows` and its filters) have no theorems.
* `ReloadsEnd` of the bell, which bounds its requests by what has happened.

All other safety properties of the runs are theorems, under the conditions
named above.

## 6. What is left

Not modelled: the tasks of real-time notifications with their locks, deletion
cascades of topics, expiry of the agenda, sessions and login attempts,
monitoring alerts, the news API's rate limit; `PROJECT.json` gives the reason for each.
Its map names the lines of every definition that translates code; helpers that only the
model needs, and those whose lines another row of the module names already, have no row.

What could be proved next: what `fix_updates` leaves of a story with forks; that
the profile's theorems hold for a reader who does not wait, if answers come in order; that My Home
keeps to its six topics (`AtMostSix`), which needs what `SelectSeq` returns.
