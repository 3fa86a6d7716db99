---------------------------- MODULE UserProfile ----------------------------
(* "My Profile" (user-profile/) and the pause shown by the notifications'   *)
(* popup (components/NotificationPopup.tsx): the form of the user's name,   *)
(* the dialogs of the schedule and of the pause, the requests they send,    *)
(* and the two stores of one page that each keep a copy of the user.        *)
(* A day is a number; a time of the schedule is a member of Times.          *)
EXTENDS Integers, Sequences, FiniteSets, SequencesExt

CONSTANTS
    Names,          \* the names that can be typed
    Times,          \* the times of a schedule
    DefaultTimes,   \* the times of the configuration (1 to 3)
    MaxDay,         \* bound: the last day of the model
    Offsets,        \* how many days the user's date may be ahead of UTC's
    Acts,           \* what the user does in a run
    MaxFlight,      \* bound: requests under way
    MaxRuns,        \* bound: runs of the job that sends the scheduled emails
    AnyOrder,       \* whether requests are handled and answered in any order
    MayFail,        \* whether a request may fail
    Waits,          \* whether the user waits for the answers
    None

ConstantsOK ==
    /\ "" \notin Names /\ None \notin Names
    /\ DefaultTimes \in BoundedSeq(Times, 3) /\ DefaultTimes # <<>>
    /\ MaxDay \in Nat /\ Offsets \subseteq -1..1 /\ Offsets # {}
    /\ MaxFlight \in Nat /\ MaxRuns \in Nat
    /\ {AnyOrder, MayFail, Waits} \subseteq BOOLEAN

VARIABLES
    srv,        \* the user in the database
    store,      \* the profile's store: user, editedUser, errors, displayModal
    modal,      \* the dialog, with the state of its component, or None
    fullUser,   \* the user of the notifications' store
    today,      \* the UTC date
    ahead,      \* the user's date minus the UTC date
    dateToday,  \* the date the page was loaded
    flight,     \* requests under way
    job,        \* the schedule that a run of the emails' job has read, or None
    runs,       \* runs begun
    told,       \* what the last messages said was saved
    raced       \* the parts of the schedule that were last saved while a run of the job was on

vars == <<srv, store, modal, fullUser, today, ahead, dateToday, flight, job, runs, told, raced>>

Days == 0..MaxDay
Schedules == BoundedSeq(Times, 3)
\* times: None for a user who never saved a schedule, <<>> for one whose schedule
\* holds nothing but a pause.
Users == [name : Names \cup {""}, times : Schedules \cup {None},
          from : Days \cup {None}, to : Days \cup {None}]

Requests ==
    [kind : {"save", "get", "sched"}, body : Users, part : {"name", "times", "pause", "resume", "none"},
     who : {"profile", "popup"}, stage : {"sent", "done"}, lost : BOOLEAN]

----------------------------------------------------------------------------
(* utils.tsx: the pause as the page sees it. A date that is not set is NaN, *)
(* and every comparison with it is false.                                   *)

Set(u) == u.from # None /\ u.to # None

notificationsArePaused(u) == Set(u) /\ u.from <= today /\ u.to >= today

notificationsWillBePaused(u) == Set(u) /\ u.from > today /\ u.to > today

\* UserResourceModel.has_paused_notifications: in the user's timezone.
has_paused_notifications(u) == Set(u) /\ u.from <= today + ahead /\ today + ahead <= u.to

----------------------------------------------------------------------------
(* The reducers of the profile's store.                                     *)

getUser(s, u) == [s EXCEPT !.user = u, !.edited = u]
editUser(s, n) == [s EXCEPT !.edited.name = n, !.errors = {}]
setError(s, e) == [s EXCEPT !.errors = e]

ProfileData(u) == [user |-> u, edited |-> u, errors |-> {}, shown |-> FALSE]

----------------------------------------------------------------------------
(* What the components draw.                                                *)

\* The popup: the notice with the button that resumes, or the list.
NotificationPopup ==
    [resume |-> notificationsArePaused(fullUser),
     notice |-> notificationsWillBePaused(fullUser)]

\* and the pause: either it can be cleared, or one can be made.
ClearIsOffered == notificationsArePaused(store.edited) \/ notificationsWillBePaused(store.edited)

\* The form can be used: a dialog covers it.
InForm == store.shown /\ modal = None

Can(a) == a \in Acts /\ (Waits => flight = <<>>)

----------------------------------------------------------------------------
(* Requests. A request is handled by the server and then answered.          *)

Request(k, p, b, w) ==
    [kind |-> k, part |-> p, body |-> b, who |-> w, stage |-> "sent", lost |-> FALSE]

Send(r) == Len(flight) < MaxFlight /\ flight' = Append(flight, r)

\* What a request or an answer does not use of a user is left out of its body.
Blank == [name |-> "", times |-> None, from |-> None, to |-> None]

fetchUser(w) == Request("get", "none", Blank, w)

InTurn(i) == i \in 1..Len(flight) /\ (AnyOrder \/ i = 1)

\* Mutant of EditSchedules: what is sent replaces what is stored.
ReplaceSchedules(r) == [srv EXCEPT !.times = r.body.times, !.from = r.body.from, !.to = r.body.to]

\* edit_user_profile keeps the fields of the profile; the schedules' endpoint
\* merges what it is sent into what is stored.
EditProfile(r) == [srv EXCEPT !.name = r.body.name]
\* (Its read and its write are one step: what a run of the job writes between them is
\* overwritten.)
EditSchedules(r) ==
    CASE r.part = "times" -> [srv EXCEPT !.times = r.body.times]
      [] OTHER -> [srv EXCEPT !.from = r.body.from, !.to = r.body.to,
                              !.times = IF @ = None THEN <<>> ELSE @]

\* The half of the schedule that a request saves.
Half(r) == IF r.part = "times" THEN "times" ELSE "pause"

Handle(i) ==
    /\ InTurn(i) /\ flight[i].stage = "sent"
    /\ LET r == flight[i]
           new == CASE r.kind = "save"  -> EditProfile(r)
                    [] r.kind = "sched" -> EditSchedules(r)
                    [] OTHER            -> srv
       IN  /\ srv' = new
           /\ raced' = IF r.kind # "sched" THEN raced
                       ELSE IF job = None THEN raced \ {Half(r)}
                       ELSE raced \cup {Half(r)}
           /\ flight' = [flight EXCEPT ![i].stage = "done",
                                       ![i].body = IF r.kind = "get" THEN srv ELSE r.body]
    /\ UNCHANGED <<store, modal, fullUser, today, ahead, dateToday, job, runs, told>>

\* The answer of GET /users/<id>: fetchUser, or updateFullUser after a resume.
GotUser(i) ==
    LET r == flight[i] IN
    /\ r.kind = "get"
    /\ store' = getUser(store, r.body)
    /\ fullUser' = IF r.who = "popup" THEN r.body ELSE fullUser
    /\ flight' = RemoveAt(flight, i)
    /\ UNCHANGED <<modal, told>>

\* saveUser: the message, and the user is fetched again.
SavedUser(i) ==
    LET r == flight[i] IN
    /\ r.kind = "save"
    /\ told' = [told EXCEPT !.name = r.body.name]
    /\ flight' = Append(RemoveAt(flight, i), fetchUser("profile"))
    /\ UNCHANGED <<store, modal, fullUser>>

\* updateUserNotificationSchedule: the message, the fetch, the dialog closes.
\* The popup's resume fetches for both stores.
SavedSchedule(i) ==
    LET r == flight[i] IN
    /\ r.kind = "sched"
    /\ told' = IF r.part = "times"
               THEN [told EXCEPT !.times = r.body.times, !.what = r.part]
               ELSE [told EXCEPT !.from = r.body.from, !.to = r.body.to, !.what = r.part]
    /\ flight' = Append(RemoveAt(flight, i), fetchUser(r.who))
    /\ modal' = IF r.who = "profile" THEN None ELSE modal
    /\ UNCHANGED <<store, fullUser>>

Answer(i) ==
    /\ InTurn(i) /\ flight[i].stage = "done"
    /\ IF flight[i].lost
       THEN flight' = RemoveAt(flight, i) /\ UNCHANGED <<store, modal, fullUser, told>>
       ELSE GotUser(i) \/ SavedUser(i) \/ SavedSchedule(i)
    /\ UNCHANGED <<srv, today, ahead, dateToday, job, runs, raced>>

\* errorHandler only shows a message.
Fail(i) ==
    /\ MayFail /\ InTurn(i) /\ flight[i].stage = "sent"
    /\ flight' = RemoveAt(flight, i)
    /\ UNCHANGED <<srv, store, modal, fullUser, today, ahead, dateToday, job, runs, told, raced>>

----------------------------------------------------------------------------
(* The user.                                                                *)

OpenProfile ==
    /\ Can("open") /\ ~store.shown
    /\ store' = [store EXCEPT !.shown = TRUE]
    /\ UNCHANGED <<srv, modal, fullUser, today, ahead, dateToday, flight, job, runs, told, raced>>

\* Closing the profile loads the page again: requests that have been sent are
\* still handled, nobody hears their answers.
HideModal ==
    /\ Can("close") /\ InForm
    /\ store' = ProfileData(srv)
    /\ fullUser' = srv
    /\ dateToday' = today
    /\ flight' = [i \in 1..Len(flight) |-> [flight[i] EXCEPT !.lost = TRUE]]
    /\ UNCHANGED <<srv, modal, today, ahead, job, runs, told, raced>>

TypeName(n) ==
    /\ Can("type") /\ InForm /\ n # store.edited.name
    /\ store' = editUser(store, n)
    /\ UNCHANGED <<srv, modal, fullUser, today, ahead, dateToday, flight, job, runs, told, raced>>

\* isFormValid sets the errors, of an invalid form or none.
FormErrors(u) == IF u.name = "" THEN {"name"} ELSE {}

Save ==
    /\ Can("save") /\ InForm
    /\ store' = setError(store, FormErrors(store.edited))
    /\ IF FormErrors(store.edited) = {}
       THEN Send(Request("save", "name", [Blank EXCEPT !.name = store.edited.name], "profile"))
       ELSE UNCHANGED flight
    /\ UNCHANGED <<srv, modal, fullUser, today, ahead, dateToday, job, runs, told, raced>>

\* Cancel fetches the user again.
Cancel ==
    /\ Can("cancel") /\ InForm
    /\ Send(fetchUser("profile"))
    /\ UNCHANGED <<srv, store, modal, fullUser, today, ahead, dateToday, job, runs, told, raced>>

ClearPausing ==
    /\ Can("clear") /\ InForm /\ ClearIsOffered
    /\ Send(Request("sched", "resume", Blank, "profile"))
    /\ UNCHANGED <<srv, store, modal, fullUser, today, ahead, dateToday, job, runs, told, raced>>

\* "Resume all notifications" in the popup, which the profile covers
ResumeNotifications ==
    /\ Can("resume") /\ ~store.shown /\ NotificationPopup.resume
    /\ Send(Request("sched", "resume", Blank, "popup"))
    /\ UNCHANGED <<srv, store, modal, fullUser, today, ahead, dateToday, job, runs, told, raced>>

----------------------------------------------------------------------------
(* The dialogs take their state from the user of the store when they open.  *)

TimesOrDefault(u) == IF u.times \in {None, <<>>} THEN DefaultTimes ELSE u.times

OpenSchedule ==
    /\ Can("schedule") /\ InForm
    /\ modal' = [kind |-> "schedule", from |-> None, to |-> None,
                 times |-> TimesOrDefault(store.user)]
    /\ UNCHANGED <<srv, store, fullUser, today, ahead, dateToday, flight, job, runs, told, raced>>

OpenPause ==
    /\ Can("pause") /\ InForm /\ ~ClearIsOffered
    /\ modal' = [kind |-> "pause", from |-> store.user.from, to |-> store.user.to, times |-> <<>>]
    /\ UNCHANGED <<srv, store, fullUser, today, ahead, dateToday, flight, job, runs, told, raced>>

In(kind) == modal # None /\ modal.kind = kind

CloseModal ==
    /\ Can("dismiss") /\ modal # None
    /\ modal' = None
    /\ UNCHANGED <<srv, store, fullUser, today, ahead, dateToday, flight, job, runs, told, raced>>

\* The schedule's dialog: a picker for each time, and the buttons that are enabled.
ScheduleDialog ==
    [pickers |-> 1..Len(modal.times),
     remove  |-> IF Len(modal.times) < 2 THEN {} ELSE 1..Len(modal.times),
     add     |-> Len(modal.times) < 3]

UpdateTime(i, t) == modal' = [modal EXCEPT !.times[i] = t]

UpdateNumberPerDay ==
    \/ ScheduleDialog.add /\ modal' = [modal EXCEPT !.times = Append(@, Last(@))]
    \/ \E i \in ScheduleDialog.remove : modal' = [modal EXCEPT !.times = RemoveAt(@, i)]

EditTimes ==
    /\ Can("schedule") /\ In("schedule")
    /\ \/ \E i \in ScheduleDialog.pickers, t \in Times : UpdateTime(i, t)
       \/ UpdateNumberPerDay
    /\ UNCHANGED <<srv, store, fullUser, today, ahead, dateToday, flight, job, runs, told, raced>>

SubmitSchedule ==
    /\ Can("schedule") /\ In("schedule")
    /\ Send(Request("sched", "times", [Blank EXCEPT !.times = modal.times], "profile"))
    /\ UNCHANGED <<srv, store, modal, fullUser, today, ahead, dateToday, job, runs, told, raced>>

\* The pause's dialog: the limits of its two dates, and the browser's validation.
\* An empty date is valid.
MinimumForDateTo(f) == IF f # None THEN f + 1 ELSE dateToday
MaximumForDateFrom(t) == IF t # None THEN t - 1 ELSE MaxDay

DatesValid(f, t) ==
    /\ f # None => f >= dateToday /\ f <= MaximumForDateFrom(t)
    /\ t # None => t >= MinimumForDateTo(f)

UpdateDate ==
    /\ Can("pause") /\ In("pause")
    /\ \E d \in Days \cup {None} :
          modal' = [modal EXCEPT !.from = d] \/ modal' = [modal EXCEPT !.to = d]
    /\ UNCHANGED <<srv, store, fullUser, today, ahead, dateToday, flight, job, runs, told, raced>>

SubmitPause ==
    /\ Can("pause") /\ In("pause") /\ DatesValid(modal.from, modal.to)
    /\ Send(Request("sched", "pause", [Blank EXCEPT !.from = modal.from, !.to = modal.to], "profile"))
    /\ UNCHANGED <<srv, store, modal, fullUser, today, ahead, dateToday, job, runs, told, raced>>

----------------------------------------------------------------------------
(* Time, and the job that sends the scheduled emails.                       *)

Tick ==
    /\ \E d \in {today, today + 1}, o \in Offsets :
          d \in Days /\ <<d, o>> # <<today, ahead>> /\ today' = d /\ ahead' = o
    /\ UNCHANGED <<srv, store, modal, fullUser, dateToday, flight, job, runs, told, raced>>

\* The users are read at the start of a run, and those without times are given those of
\* the configuration; after the email of a user its schedule is written back as it was
\* read, with the time of the run: what was saved meanwhile is lost.
StartRun ==
    /\ runs < MaxRuns /\ job = None
    /\ runs' = runs + 1
    /\ job' = srv
    /\ UNCHANGED <<srv, store, modal, fullUser, today, ahead, dateToday, flight, told, raced>>

UpdateRunTime ==
    /\ job # None
    /\ srv' = [srv EXCEPT !.times = TimesOrDefault(job), !.from = job.from, !.to = job.to]
    /\ job' = None
    /\ UNCHANGED <<store, modal, fullUser, today, ahead, dateToday, flight, runs, told, raced>>

----------------------------------------------------------------------------
NewUser == [name |-> CHOOSE n \in Names : TRUE, times |-> None, from |-> None, to |-> None]

Init ==
    /\ srv = NewUser
    /\ store = ProfileData(srv)
    /\ fullUser = srv
    /\ modal = None
    /\ today = 0 /\ ahead \in Offsets /\ dateToday = 0
    /\ flight = <<>>
    /\ job = None /\ runs = 0
    /\ told = [name |-> srv.name, times |-> None, from |-> None, to |-> None, what |-> "none"]
    /\ raced = {}

Next ==
    \/ OpenProfile \/ HideModal
    \/ \E n \in Names \cup {""} : TypeName(n)
    \/ Save \/ Cancel \/ ClearPausing \/ ResumeNotifications
    \/ OpenSchedule \/ EditTimes \/ SubmitSchedule
    \/ OpenPause \/ UpdateDate \/ SubmitPause \/ CloseModal
    \/ \E i \in 1..Len(flight) : Handle(i) \/ Answer(i) \/ Fail(i)
    \/ Tick \/ StartRun \/ UpdateRunTime

Spec == Init /\ [][Next]_vars

----------------------------------------------------------------------------
Quiet == flight = <<>>

\* The shapes of the state: in particular the user of the stores always has a
\* name, so that its initials can be drawn (ProfileToggle, UserProfileAvatar).
TypeOK ==
    /\ srv \in Users /\ srv.name # ""
    /\ store.user \in Users /\ store.edited \in Users /\ store.user.name # ""
    /\ store.errors \subseteq {"name"} /\ store.shown \in BOOLEAN
    /\ fullUser \in Users
    /\ modal # None =>
          /\ modal.kind \in {"schedule", "pause"} /\ store.shown
          /\ In("schedule") => modal.times # <<>> /\ modal.times \in Schedules
          /\ {modal.from, modal.to} \subseteq Days \cup {None}
    /\ Len(flight) <= MaxFlight /\ \A i \in 1..Len(flight) : flight[i] \in Requests
    /\ today \in Days /\ dateToday \in Days /\ ahead \in Offsets
    /\ job \in Users \cup {None} /\ runs \in 0..MaxRuns /\ raced \subseteq {"times", "pause"}

\* Two users have the same times and the same pause, but for what was last saved while a
\* run of the emails' job was on, which writes back what it read before.
SameSchedule(u, v) ==
    /\ "times" \notin raced => TimesOrDefault(u) = TimesOrDefault(v)
    /\ "pause" \notin raced => u.from = v.from /\ u.to = v.to

\* Once nothing is under way the database holds what the messages said was saved: the
\* name, the times and the pause, whichever was saved last. The two dialogs write into
\* one schedule and must leave each other's half alone. A run of the emails' job undoes
\* no save but those of the schedule made between its read and its write: not those of
\* the name, not those that came before or after, not the other half.
ToldIsServed == Quiet => srv.name = told.name /\ SameSchedule(srv, told)

\* With the profile closed and nothing under way the two stores of the page hold the
\* user of the database, with the same exception: closing loads the page again, and a
\* resume in the popup tells the profile's store.
StoresAgree ==
    Quiet /\ ~store.shown =>
        \A u \in {store.user, fullUser} : u.name = srv.name /\ SameSchedule(srv, u)

\* A pause that is not over can be cleared in the profile, and only such a pause: the
\* form offers one of the two buttons, and the dates of the dialog are in order. A pause
\* that was last saved or cleared while a run was on may have been set back behind it.
ClearOffered ==
    Quiet /\ InForm /\ "pause" \notin raced => (ClearIsOffered <=> Set(srv) /\ srv.to >= today)

\* The popup says that all notifications are paused when the server holds them
\* back. This is so where the user's date is that of UTC, with the same exception.
PausedIsTrue ==
    Quiet /\ ~store.shown /\ "pause" \notin raced =>
        (NotificationPopup.resume <=> has_paused_notifications(srv))

=============================================================================
