------------------------- MODULE MonitoringProfiles -------------------------
(***************************************************************************)
(* The settings page of monitoring profiles: the list with its company     *)
(* filter and its Schedules section, the form with its Profile, Users and  *)
(* Schedule tabs, and what the server does with what they post.            *)
(* Source: src/assets/monitoring/, src/newsroom/monitoring/views.py and    *)
(* email_alerts.py.                                                        *)
(***************************************************************************)
EXTENDS Naturals, Sequences, FiniteSets

CONSTANTS
    Profiles, Companies, Users, None,
    CompanyOf,      \* [Users -> Companies]
    Start,          \* the profiles there are at first: id -> profile
    Choices,        \* the intervals the select may be put to
    Acts,           \* what the administrator does
    AnyOrder,       \* requests and answers overtake each other
    Waits,          \* the administrator waits for every answer
    MayFail,        \* a request can fail
    MaxFlight       \* bound: requests at a time

ConstantsOK ==
    /\ CompanyOf \in [Users -> Companies] /\ DOMAIN Start \subseteq Profiles
    /\ None \notin Profiles \cup Companies \cup Users /\ MaxFlight \in Nat

VARIABLES
    profiles,   \* server: id -> profile
    store,      \* the redux store
    panel,      \* state of the form's components: tab, boxes of the users, needTime
    flight      \* requests and their answers, in the order they were sent

vars == <<profiles, store, panel, flight>>

May(act) == act \in Acts
WithAt(f, x, y) == [z \in DOMAIN f \cup {x} |-> IF z = x THEN y ELSE f[z]]
Staff(c) == {u \in Users : CompanyOf[u] = c}
NoProfiles == [p \in {} |-> None]

\* A schedule as it is stored; "" for a profile that never had one, "null"
\* for one that was taken away.  Only the presence of a time and a day matters.
Schedule(interval, time, day) == [interval |-> interval, time |-> time, day |-> day]
NoInterval(schedule) == schedule.interval \in {"", "null"}

-----------------------------------------------------------------------------
(* Reducers and selectors. *)

newProfile == [id |-> None, company |-> None, filled |-> FALSE, users |-> {},
               schedule |-> Schedule("", FALSE, FALSE)]
FormOf(p, profile) == [id |-> p, company |-> profile.company, filled |-> profile.filled,
                       users |-> profile.users, schedule |-> profile.schedule]
selectMonitoringProfile(s, p) ==
    [s EXCEPT !.form = FormOf(p, s.byId[p]), !.active = p, !.errors = FALSE]
newMonitoringProfile(s) == [s EXCEPT !.form = newProfile, !.errors = FALSE]
\* Mutant: the form stays.
cancelEditKept(s) == [s EXCEPT !.errors = FALSE]
cancelEdit(s) == [s EXCEPT !.form = None, !.errors = FALSE]
updateMonitoringProfile(s, form) == [s EXCEPT !.form = form, !.errors = FALSE]

\* Profiles that are gone stay in byId, not in the list.
setMonitoringList(s, found) ==
    [s EXCEPT !.list = DOMAIN found,
              !.byId = [p \in DOMAIN @ \cup DOMAIN found |-> IF p \in DOMAIN found THEN found[p] ELSE @[p]]]

monitoringList(s) == IF s.mode THEN {p \in s.list : ~ NoInterval(s.byId[p].schedule)} ELSE s.list
\* The companies the filter offers.
getDropdownItems(s) == {None} \cup IF s.mode THEN s.offered ELSE Companies

-----------------------------------------------------------------------------
(* The form: EditMonitoringProfile, EditPanel, MonitoringSchedule. *)

\* The options at 3 and 4 of the list: four_hour and daily.
getNeedTime(interval) == interval \in {"four_hour", "daily"}
Tabs(form) == {"profile"} \cup IF form.id = None THEN {} ELSE {"users", "schedule"}
Closed == [tab |-> "profile", boxes |-> {}, needTime |-> FALSE]

\* A tab as its component mounts.
Mounted(s, tab) ==
    [tab |-> tab, boxes |-> IF tab = "users" THEN s.form.users \cap s.users ELSE {},
     needTime |-> tab = "schedule" /\ getNeedTime(s.form.schedule.interval)]
defaultTab(s) == IF s.mode THEN "schedule" ELSE "profile"

\* The form after the store moved from s to t: any change puts the boxes back.
Rendered(s, t) ==
    IF t.form = None THEN Closed
    ELSE IF s.form = None \/ s.form.id # t.form.id THEN Mounted(t, defaultTab(t))
    ELSE IF s.mode # t.mode /\ panel.tab # defaultTab(t) THEN Mounted(t, defaultTab(t))
    ELSE IF s = t THEN panel
    ELSE [panel EXCEPT !.boxes = IF panel.tab = "users" THEN t.form.users \cap t.users ELSE {}]

\* The user picks an interval: what becomes of the schedule.
onChangeSchedule(schedule, interval) ==
    CASE interval = "" -> Schedule("null", FALSE, FALSE)
      [] getNeedTime(interval) /\ ~ schedule.time -> Schedule(interval, TRUE, schedule.day)
      [] OTHER -> Schedule(interval, getNeedTime(interval), interval = "weekly")

isFormValid(form) == form.filled /\ form.company # None

-----------------------------------------------------------------------------
(* The server. *)

NewIds == Profiles \ DOMAIN profiles

Stored(form, users) == [company |-> form.company, filled |-> form.filled, users |-> users,
                        schedule |-> form.schedule]
\* A new profile gets all its company's users; one that exists gets the form's.
Created(form) == Stored(form, Staff(form.company))
\* process_form_request: a schedule of null has no interval to look at.
Accepted(form) == form.id \in DOMAIN profiles /\ form.schedule.interval # "null"
update_users(p, users) ==
    [profiles EXCEPT ![p].users = {u \in users : CompanyOf[u] = profiles[p].company}]
search_all(company) ==
    [p \in {q \in DOMAIN profiles : company \in {None, profiles[q].company}} |-> profiles[p]]
monitoring_companies == {profiles[p].company : p \in {q \in DOMAIN profiles : ~ NoInterval(profiles[q].schedule)}}

-----------------------------------------------------------------------------
Request(kind, form, arg) == [kind |-> kind, form |-> form, arg |-> arg, status |-> "sent", data |-> None]
Fetch(s) == Request("list", None, s.company)

\* The store and the requests after what is dispatched.
Do(s, requests) ==
    /\ store' = s /\ panel' = Rendered(store, s)
    /\ Len(flight) + Len(requests) <= MaxFlight
    /\ flight' = flight \o requests

Turn == (Waits => flight = <<>>)

Init ==
    /\ profiles = Start
    /\ store = [company |-> None, mode |-> FALSE, list |-> {}, byId |-> NoProfiles, form |-> None,
                active |-> None, errors |-> FALSE, offered |-> {}, users |-> {}]
    /\ panel = Closed
    /\ flight = <<Fetch(store)>>

-----------------------------------------------------------------------------
(* The administrator. *)

onSectionChange ==
    /\ Turn /\ May("section")
    /\ LET s == [store EXCEPT !.mode = ~ @, !.company = None] IN Do(s, <<Fetch(s)>>)
    /\ UNCHANGED profiles

onChange(c) ==
    /\ Turn /\ May("company") /\ c \in getDropdownItems(store)
    /\ LET s == [store EXCEPT !.company = c] IN Do(s, <<Fetch(s)>>)
    /\ UNCHANGED profiles

New ==
    /\ Turn /\ May("new") /\ ~ store.mode
    /\ Do(newMonitoringProfile(store), <<>>) /\ UNCHANGED profiles

Select(p) ==
    /\ Turn /\ May("select") /\ p \in monitoringList(store)
    /\ (store.form # None /\ store.form.id = p => May("reselect"))
    /\ Do(selectMonitoringProfile(store, p), <<>>) /\ UNCHANGED profiles

Close ==
    /\ Turn /\ store.form # None
    /\ Do(cancelEdit(store), <<>>) /\ UNCHANGED profiles

handleTabClick(tab) ==
    /\ Turn /\ May(tab) /\ store.form # None /\ tab \in Tabs(store.form)
    /\ panel' = IF tab = panel.tab THEN panel ELSE Mounted(store, tab)
    /\ IF tab = "users" /\ store.form.company # None
       THEN /\ Len(flight) < MaxFlight
            /\ flight' = Append(flight, Request("users", None, store.form.company))
       ELSE UNCHANGED flight
    /\ UNCHANGED <<profiles, store>>

OnTab(tab) == store.form # None /\ panel.tab = tab

EditCompany(c) ==
    /\ Turn /\ May("edit") /\ OnTab("profile")
    /\ Do(updateMonitoringProfile(store, [store.form EXCEPT !.company = c]), <<>>)
    /\ UNCHANGED profiles

\* The name and the query, which have to be there.
EditFields(filled) ==
    /\ Turn /\ May("edit") /\ OnTab("profile")
    /\ Do(updateMonitoringProfile(store, [store.form EXCEPT !.filled = filled]), <<>>)
    /\ UNCHANGED profiles

save ==
    /\ Turn /\ May("save") /\ OnTab("profile")
    /\ IF isFormValid(store.form)
       THEN Do([store EXCEPT !.errors = FALSE], <<Request("save", store.form, None)>>)
       ELSE Do([store EXCEPT !.errors = TRUE], <<>>)
    /\ UNCHANGED profiles

deleteMonitoringProfile ==
    /\ Turn /\ May("delete") /\ OnTab("profile") /\ store.form.id # None
    /\ Do(store, <<Request("delete", store.form, None)>>) /\ UNCHANGED profiles

onItemChange(u) ==
    /\ Turn /\ OnTab("users") /\ u \in store.users
    /\ panel' = [panel EXCEPT !.boxes = IF u \in @ THEN @ \ {u} ELSE @ \cup {u}]
    /\ UNCHANGED <<profiles, store, flight>>

saveMonitoringProfileUsers ==
    /\ Turn /\ OnTab("users")
    /\ Do(store, <<Request("subscribe", store.form, panel.boxes)>>) /\ UNCHANGED profiles

\* Picking a time or a day changes neither's presence.
ChangeSchedule(interval) ==
    /\ Turn /\ OnTab("schedule") /\ interval # store.form.schedule.interval
    /\ store' = updateMonitoringProfile(store,
                    [store.form EXCEPT !.schedule = onChangeSchedule(@, interval)])
    /\ panel' = [panel EXCEPT !.needTime = getNeedTime(interval)]
    /\ UNCHANGED <<profiles, flight>>

\* A form without an id is only complained about.
saveMonitoringProfileSchedule ==
    /\ Turn /\ OnTab("schedule")
    /\ Do(store, <<Request("schedule", store.form, None)>>) /\ UNCHANGED profiles

-----------------------------------------------------------------------------
(* Requests and answers. *)

InTurn(i, status) == flight[i].status = status
                     /\ (AnyOrder \/ \A j \in 1..(i - 1) : flight[j].status # status)
Answered(i, data, status) == flight' = [flight EXCEPT ![i].status = status, ![i].data = data]

Serve(i) ==
    /\ i \in DOMAIN flight /\ InTurn(i, "sent")
    /\ UNCHANGED <<store, panel>>
    /\ LET r == flight[i]
           Written(ok, new) == IF ok THEN profiles' = new /\ Answered(i, None, "done")
                               ELSE UNCHANGED profiles /\ Answered(i, None, "failed")
           p == IF r.form = None THEN None ELSE r.form.id
       IN CASE r.kind = "list" -> Answered(i, search_all(r.arg), "done") /\ UNCHANGED profiles
            [] r.kind = "companies" -> Answered(i, monitoring_companies, "done") /\ UNCHANGED profiles
            [] r.kind = "users" -> Answered(i, Staff(r.arg), "done") /\ UNCHANGED profiles
            [] r.kind = "save" /\ p = None ->
                    \E q \in NewIds : Written(TRUE, WithAt(profiles, q, Created(r.form)))
            [] r.kind = "save" /\ p # None ->
                    Written(Accepted(r.form), WithAt(profiles, p, Stored(r.form, r.form.users)))
            [] r.kind = "subscribe" -> Written(p \in DOMAIN profiles, update_users(p, r.arg))
            [] r.kind = "schedule" ->
                    Written(p \in DOMAIN profiles, [profiles EXCEPT ![p].schedule = r.form.schedule])
            [] r.kind = "delete" ->
                    Written(p \in DOMAIN profiles, [q \in DOMAIN profiles \ {p} |-> profiles[q]])

Fail(i) ==
    /\ MayFail /\ i \in DOMAIN flight /\ InTurn(i, "sent")
    /\ Answered(i, None, "failed") /\ UNCHANGED <<profiles, store, panel>>

Rest(i) == SubSeq(flight, 1, i - 1) \o SubSeq(flight, i + 1, Len(flight))
Take(i, s, requests) == store' = s /\ panel' = Rendered(store, s) /\ flight' = Rest(i) \o requests

Saved(s) == <<Fetch(s)>>

Fetched(s) == IF s.mode THEN <<Request("companies", None, None)>> ELSE <<>>

Receive(i) ==
    /\ i \in DOMAIN flight
    /\ AnyOrder \/ i = 1
    /\ LET r == flight[i] IN
       /\ r.status \in {"done", "failed"}
       /\ IF r.status = "failed" THEN Take(i, store, <<>>)
          ELSE CASE r.kind = "list" -> Take(i, setMonitoringList(store, r.data), Fetched(store))
                 [] r.kind = "companies" -> Take(i, [store EXCEPT !.offered = r.data], <<>>)
                 [] r.kind = "users" -> Take(i, [store EXCEPT !.users = r.data], <<>>)
                 [] OTHER -> Take(i, cancelEdit(store), Saved(store))
    /\ UNCHANGED profiles

Next ==
    \/ onSectionChange \/ New \/ Close \/ save \/ deleteMonitoringProfile
    \/ saveMonitoringProfileUsers \/ saveMonitoringProfileSchedule
    \/ \E c \in Companies \cup {None} : onChange(c) \/ EditCompany(c)
    \/ \E p \in Profiles : Select(p)
    \/ \E tab \in {"profile", "users", "schedule"} : handleTabClick(tab)
    \/ \E filled \in BOOLEAN : EditFields(filled)
    \/ \E u \in Users : onItemChange(u)
    \/ \E interval \in Choices : ChangeSchedule(interval)
    \/ \E i \in 1..MaxFlight : Serve(i) \/ Fail(i) \/ Receive(i)

Spec == Init /\ [][Next]_vars

-----------------------------------------------------------------------------
(* Properties. *)

\* Every form shows a tab it has, boxes are of the users listed, and a
\* profile is listed only when its data are known.
TypeOK ==
    /\ store.list \subseteq DOMAIN store.byId /\ DOMAIN store.byId \subseteq Profiles
    /\ store.form # None => panel.tab \in {"profile", "users", "schedule"}
    /\ store.form = None => panel = Closed /\ ~ store.errors
    /\ panel.boxes \subseteq store.users /\ (panel.tab # "users" => panel.boxes = {})
    /\ \A p \in DOMAIN profiles : profiles[p].company \in Companies /\ profiles[p].filled

Settled == flight = <<>>

\* Once everything is answered, the page lists the profiles of the company it
\* filters by (with a schedule, in Schedules) as the server has them, and
\* Schedules offers the companies that have one (MonitoringApp.onChange,
\* fetchMonitoring after every write, fetchMonitoringCompanies).
ListSettles ==
    Settled =>
        LET found == search_all(store.company) IN
        /\ monitoringList(store) =
                {p \in DOMAIN found : store.mode => ~ NoInterval(found[p].schedule)}
        /\ \A p \in store.list : store.byId[p] = found[p]
        /\ store.mode => store.offered = monitoring_companies

\* A profile saved as a whole keeps the subscribers it has: who waits for
\* answers has a form as new as the last save of the Users tab.
SubscribersKeptStep ==
    \A p \in DOMAIN profiles \cap DOMAIN profiles' :
            profiles'[p].users # profiles[p].users =>
                \E i \in DOMAIN flight : flight[i].kind = "subscribe" /\ flight'[i].status = "done"
                                         /\ flight[i].status = "sent"

\* The field for the time is drawn only when there is a time, without which
\* the page breaks (MonitoringSchedule.render), and a day goes with "weekly".
TimeShown ==
    OnTab("schedule") =>
        /\ panel.needTime => store.form.schedule.time
        /\ store.form.schedule.interval = "weekly" => store.form.schedule.day

=============================================================================
