------------------------ MODULE ScheduledNotifications ------------------------
(***************************************************************************)
(* The queue of scheduled topic notifications                              *)
(* (newsroom/notifications/services.py and commands.py).                   *)
(*                                                                         *)
(* When an item matches a topic, the celery task that notifies of the item *)
(* adds it to the queue document of every subscriber who wants his         *)
(* notifications at fixed times.  A command that beat starts every five    *)
(* minutes (and that may be started by hand) reads all the documents,      *)
(* emails the users whose time has come and deletes their documents.       *)
(* Neither side uses transactions: every database call is a step.          *)
(***************************************************************************)
EXTENDS Naturals, FiniteSets

CONSTANTS
    Users,
    Items,
    Matches,      \* pairs of an item and a topic subscription, to be queued
    ItemOf,       \* ItemOf[m]: the item of a match
    UserOf,       \* UserOf[m]: its subscriber
    Notifiers,    \* celery workers that notify of new items
    Runners,      \* processes that can run the command
    None,
    Slots,        \* the five-minute periods of a day, 1..Slots
    Times,        \* Times[u]: the slots user u has chosen at first
    Choices,      \* sets of slots a user may change to
    MayDisable,   \* users an administrator may disable
    Faults,       \* "lost" task, "error", "crash" or "overrun" of a run
    MaxFaults     \* bound for model checking: errors and crashes of runs

ASSUME MatchesAssumption ==
    /\ ItemOf \in [Matches -> Items]
    /\ UserOf \in [Matches -> Users]

ASSUME NoneAssumption ==
    None \notin Matches /\ None \notin Runners

ASSUME TimesAssumption ==
    /\ Slots \in Nat \ {0}
    /\ Times \in [Users -> SUBSET (1..Slots)]
    /\ Choices \subseteq SUBSET (1..Slots)
    /\ MayDisable \subseteq Users
    /\ Faults \subseteq {"lost", "error", "crash", "overrun"}
    /\ MaxFaults \in Nat

VARIABLES
    \* the notification_queue collection; a document is named by its first match
    docs,       \* documents present
    content,    \* content[d]: the matches listed in document d
    \* the users collection
    enabled,    \* users whose account is enabled
    times,      \* times[u]: the slots of notification_schedule
    served,     \* users whose last_run_time is not before the current slot
    \* the notification tasks
    notified,   \* items whose task has been started
    todo,       \* todo[w]: matches worker w has still to queue
    at,         \* at[w]: the match it is queueing, or None
    found,      \* found[w]: the document it has read, or None
    copy,       \* copy[w]: the matches listed in it
    \* the command
    lock,       \* the runner that holds the lock, or None
    age,        \* slots begun since the lock was taken, 2 for two or more
    pc,         \* pc[r]: next step of a run
    known,      \* known[r]: enabled users it has read
    due,        \* due[r]: those who are to be emailed
    chosen,     \* chosen[r]: the schedules it has read
    batch,      \* batch[r]: documents it has still to process
    seen,       \* seen[r]: the contents it has read
    cur,        \* cur[r]: the document it is processing
    \* the settings form of a user
    form,       \* form[u]: [open, served] of a change that has read the schedule
    slot,       \* the current five minutes of the day
    \* history
    home,       \* home[m]: the document m was saved in, None if it was not
    emailed,    \* matches reported in an email
    resent,     \* those reported more than once
    mailed,     \* users emailed by a run that started in the current slot
    twice,      \* those emailed more than once by such runs
    onTime,     \* runs that have read the clock in the current slot
    wanted,     \* wanted[u]: the slots u has chosen last
    faults      \* errors and crashes so far

queueVars == <<docs, content>>
userVars == <<enabled, times, served, form, wanted>>
taskVars == <<notified, todo, at, found, copy>>
lockVars == <<lock, age>>
snapshotVars == <<known, due, chosen, seen>>
runVars == <<pc, snapshotVars, batch, cur, onTime>>
mailVars == <<emailed, resent, mailed, twice>>
vars == <<queueVars, userVars, taskVars, lockVars, runVars, slot, home, mailVars, faults>>

-----------------------------------------------------------------------------

Init ==
    /\ docs = {}
    /\ content = [m \in Matches |-> {}]
    /\ enabled = Users
    /\ times = Times
    /\ served = {}
    /\ notified = {}
    /\ todo = [w \in Notifiers |-> {}]
    /\ at = [w \in Notifiers |-> None]
    /\ found = [w \in Notifiers |-> None]
    /\ copy = [w \in Notifiers |-> {}]
    /\ lock = None
    /\ age = 0
    /\ pc = [r \in Runners |-> "idle"]
    /\ known = [r \in Runners |-> {}]
    /\ due = [r \in Runners |-> {}]
    /\ chosen = [r \in Runners |-> Times]
    /\ batch = [r \in Runners |-> {}]
    /\ seen = [r \in Runners |-> [m \in Matches |-> {}]]
    /\ cur = [r \in Runners |-> None]
    /\ form = [u \in Users |-> [open |-> FALSE, served |-> FALSE]]
    /\ slot = 1
    /\ home = [m \in Matches |-> None]
    /\ emailed = {}
    /\ resent = {}
    /\ mailed = {}
    /\ twice = {}
    /\ onTime = {}
    /\ wanted = Times
    /\ faults = 0

-----------------------------------------------------------------------------
(* The notification tasks *)

\* A worker starts the task of an item: it reads the enabled users and the
\* topics the item matches.
StartTask(w, i) ==
    /\ todo[w] = {}
    /\ i \notin notified
    /\ notified' = notified \cup {i}
    /\ todo' = [todo EXCEPT ![w] = {m \in Matches : ItemOf[m] = i /\ UserOf[m] \in enabled}]
    /\ UNCHANGED <<queueVars, userVars, at, found, copy, lockVars, runVars, slot, home, mailVars, faults>>

\* add_item_to_queue: find_one(user=...) returns any document of the user.
FindQueue(w, m) ==
    /\ m \in todo[w]
    /\ at[w] = None
    /\ at' = [at EXCEPT ![w] = m]
    /\ \/ \E d \in docs :
            /\ UserOf[d] = UserOf[m]
            /\ found' = [found EXCEPT ![w] = d]
            /\ copy' = [copy EXCEPT ![w] = content[d]]
       \/ /\ \A d \in docs : UserOf[d] # UserOf[m]
          /\ found' = [found EXCEPT ![w] = None]
          /\ copy' = [copy EXCEPT ![w] = {}]
    /\ UNCHANGED <<queueVars, userVars, notified, todo, lockVars, runVars, slot, home, mailVars, faults>>

\* The worker turns to the next match.
NextMatch(w) ==
    /\ todo' = [todo EXCEPT ![w] = @ \ {at[w]}]
    /\ at' = [at EXCEPT ![w] = None]

\* ... no document was found: a new one is created.
CreateQueue(w) ==
    LET m == at[w] IN
    /\ m # None /\ found[w] = None
    /\ docs' = docs \cup {m}
    /\ content' = [content EXCEPT ![m] = {m}]
    /\ home' = [home EXCEPT ![m] = m]
    /\ NextMatch(w)
    /\ UNCHANGED <<userVars, notified, found, copy, lockVars, runVars, slot, mailVars, faults>>

\* Mutant: the update creates the document when it is gone.
UpsertQueue(w) ==
    LET m == at[w] IN
    /\ m # None /\ found[w] # None
    /\ docs' = docs \cup {found[w]}
    /\ content' = [content EXCEPT ![found[w]] = copy[w] \cup {m}]
    /\ home' = [home EXCEPT ![m] = found[w]]
    /\ NextMatch(w)
    /\ UNCHANGED <<userVars, notified, found, copy, lockVars, runVars, slot, mailVars, faults>>

\* ... else the topics read from it are written back with the match appended.
\* If the document has been deleted meanwhile, the update raises, the caller
\* logs the exception and goes on: the match is in no document.
UpdateQueue(w) ==
    LET m == at[w] IN
    /\ m # None /\ found[w] # None
    /\ \/ /\ found[w] \in docs
          /\ content' = [content EXCEPT ![found[w]] = copy[w] \cup {m}]
          /\ home' = [home EXCEPT ![m] = found[w]]
       \/ /\ found[w] \notin docs
          /\ UNCHANGED <<content, home>>
    /\ NextMatch(w)
    /\ UNCHANGED <<docs, userVars, notified, found, copy, lockVars, runVars, slot, mailVars, faults>>

\* The worker dies, and its task with it.
LoseTask(w) ==
    /\ "lost" \in Faults
    /\ todo[w] # {}
    /\ todo' = [todo EXCEPT ![w] = {}]
    /\ at' = [at EXCEPT ![w] = None]
    /\ UNCHANGED <<queueVars, userVars, notified, found, copy, lockVars, runVars, slot, home, mailVars, faults>>

-----------------------------------------------------------------------------
(* The command *)

Goto(r, step) == pc' = [pc EXCEPT ![r] = step]

\* Mutant: the result of lock() is not looked at.
StartRunAnyway(r) ==
    /\ pc[r] = "idle"
    /\ lock' = r
    /\ age' = 0
    /\ Goto(r, "users")
    /\ UNCHANGED <<queueVars, userVars, taskVars, snapshotVars, batch, cur, onTime, slot, home, mailVars, faults>>

\* run: when the lock is taken, the run ends at once.
StartRun(r) ==
    /\ pc[r] = "idle"
    /\ lock = None
    /\ lock' = r
    /\ age' = 0
    /\ Goto(r, "users")
    /\ UNCHANGED <<queueVars, userVars, taskVars, snapshotVars, batch, cur, onTime, slot, home, mailVars, faults>>

\* Mutant: last_run_time is not compared.
DueAgain(u) == slot \in times[u]

\* is_scheduled_to_run_for_user: one of his times is in the current five
\* minutes, and he was not served since.
IsDue(u) == slot \in times[u] /\ u \notin served

\* run_schedules reads the clock and the users, their schedules included ...
ReadUsers(r) ==
    /\ pc[r] = "users"
    /\ known' = [known EXCEPT ![r] = enabled]
    /\ due' = [due EXCEPT ![r] = {u \in enabled : IsDue(u)}]
    /\ chosen' = [chosen EXCEPT ![r] = times]
    /\ onTime' = onTime \cup {r}
    /\ Goto(r, "queues")
    /\ UNCHANGED <<queueVars, userVars, taskVars, lockVars, batch, seen, cur, slot, home, mailVars, faults>>

\* ... and then all the queue documents, at once.
ReadQueues(r) ==
    /\ pc[r] = "queues"
    /\ batch' = [batch EXCEPT ![r] = docs]
    /\ seen' = [seen EXCEPT ![r] = content]
    /\ Goto(r, "next")
    /\ UNCHANGED <<queueVars, userVars, taskVars, lockVars, known, due, chosen, cur, onTime, slot, home, mailVars, faults>>

\* The next document is taken: nothing happens to it if its user is not due.
TakeQueue(r, d) ==
    LET u == UserOf[d] IN
    /\ pc[r] = "next"
    /\ d \in batch[r]
    /\ batch' = [batch EXCEPT ![r] = @ \ {d}]
    /\ cur' = [cur EXCEPT ![r] = d]
    /\ \/ u \notin known[r] /\ Goto(r, "reset")
       \/ u \in due[r] /\ Goto(r, "email")
       \/ u \in known[r] \ due[r] /\ UNCHANGED pc
    /\ UNCHANGED <<queueVars, userVars, taskVars, lockVars, snapshotVars, onTime, slot, home, mailVars, faults>>

\* process_schedule: the email reports what was read at the start of the run.
SendEmail(r) ==
    LET u == UserOf[cur[r]]
        reported == seen[r][cur[r]]
    IN
    /\ pc[r] = "email"
    /\ emailed' = emailed \cup reported
    /\ resent' = resent \cup (emailed \cap reported)
    /\ mailed' = IF r \in onTime THEN mailed \cup {u} ELSE mailed
    /\ twice' = IF r \in onTime THEN twice \cup (mailed \cap {u}) ELSE twice
    /\ Goto(r, "reset")
    /\ UNCHANGED <<queueVars, userVars, taskVars, lockVars, snapshotVars, batch, cur, onTime, slot, home, faults>>

\* reset_queue: every document of the user is deleted.
ResetQueue(r) ==
    /\ pc[r] = "reset"
    /\ docs' = {d \in docs : UserOf[d] # UserOf[cur[r]]}
    /\ \/ UserOf[cur[r]] \in known[r] /\ Goto(r, "save")
       \/ UserOf[cur[r]] \notin known[r] /\ Goto(r, "next")
    /\ UNCHANGED <<content, userVars, taskVars, lockVars, snapshotVars, batch, cur, onTime, slot, home, mailVars, faults>>

\* update_notification_schedule_run_time: the schedule read at the start of the
\* run is written back with last_run_time set to the present time.
SaveRunTime(r) ==
    LET u == UserOf[cur[r]] IN
    /\ pc[r] = "save"
    /\ times' = [times EXCEPT ![u] = chosen[r][u]]
    /\ served' = served \cup {u}
    /\ Goto(r, "next")
    /\ UNCHANGED <<queueVars, enabled, form, wanted, taskVars, lockVars, snapshotVars, batch, cur, onTime, slot, home, mailVars, faults>>

\* unlock, which frees the lock of the process; it may have passed to another.
EndRun(r) ==
    /\ pc[r] = "next"
    /\ batch[r] = {}
    /\ lock' = IF lock = r THEN None ELSE lock
    /\ onTime' = onTime \ {r}
    /\ Goto(r, "idle")
    /\ UNCHANGED <<queueVars, userVars, taskVars, age, snapshotVars, batch, cur, slot, home, mailVars, faults>>

\* Reading the users or the documents raises: the run ends without a result.
FailRead(r) ==
    /\ "error" \in Faults /\ faults < MaxFaults
    /\ pc[r] \in {"users", "queues"}
    /\ faults' = faults + 1
    /\ Goto(r, "next")
    /\ UNCHANGED <<queueVars, userVars, taskVars, lockVars, snapshotVars, batch, cur, onTime, slot, home, mailVars>>

\* Mutant: a failure ends the processing with a clean queue.
FailScheduleClean(r) ==
    /\ "error" \in Faults /\ faults < MaxFaults
    /\ pc[r] \in {"email", "reset", "save"}
    /\ faults' = faults + 1
    /\ docs' = {d \in docs : UserOf[d] # UserOf[cur[r]]}
    /\ Goto(r, "next")
    /\ UNCHANGED <<content, userVars, taskVars, lockVars, snapshotVars, batch, cur, onTime, slot, home, mailVars>>

\* Processing a schedule raises (the soft time limit of celery included): the
\* exception is logged and the next document is taken.
FailSchedule(r) ==
    /\ "error" \in Faults /\ faults < MaxFaults
    /\ pc[r] \in {"email", "reset", "save"}
    /\ faults' = faults + 1
    /\ Goto(r, "next")
    /\ UNCHANGED <<queueVars, userVars, taskVars, lockVars, snapshotVars, batch, cur, onTime, slot, home, mailVars>>

\* The process of a run dies and leaves its lock.
CrashRun(r) ==
    /\ "crash" \in Faults /\ faults < MaxFaults
    /\ pc[r] # "idle"
    /\ faults' = faults + 1
    /\ batch' = [batch EXCEPT ![r] = {}]
    /\ onTime' = onTime \ {r}
    /\ Goto(r, "idle")
    /\ UNCHANGED <<queueVars, userVars, taskVars, lockVars, snapshotVars, cur, slot, home, mailVars>>

\* Mutant: the lock has no expiry.
LockKept == FALSE /\ UNCHANGED vars

\* lock(name, expire=610): two slots have ended since.  The soft time limit has
\* ended the run ten seconds before, unless it overruns.
LockExpires ==
    /\ lock # None
    /\ age = 2
    /\ "overrun" \in Faults \/ pc[lock] = "idle"
    /\ lock' = None
    /\ UNCHANGED <<queueVars, userVars, taskVars, age, runVars, slot, home, mailVars, faults>>

-----------------------------------------------------------------------------
(* Users, administrators, and the clock *)

\* edit_user_notification_schedules reads the schedule ...
OpenForm(u) ==
    /\ ~form[u].open
    /\ Choices # {}
    /\ form' = [form EXCEPT ![u] = [open |-> TRUE, served |-> u \in served]]
    /\ UNCHANGED <<queueVars, enabled, times, served, wanted, taskVars, lockVars, runVars, slot, home, mailVars, faults>>

\* ... and writes it back with the times the user has chosen.
SaveForm(u, choice) ==
    /\ form[u].open
    /\ times' = [times EXCEPT ![u] = choice]
    /\ wanted' = [wanted EXCEPT ![u] = choice]
    /\ served' = IF form[u].served THEN served \cup {u} ELSE served \ {u}
    /\ form' = [form EXCEPT ![u].open = FALSE]
    /\ UNCHANGED <<queueVars, enabled, taskVars, lockVars, runVars, slot, home, mailVars, faults>>

Disable(u) ==
    /\ u \in MayDisable
    /\ enabled' = enabled \ {u}
    /\ UNCHANGED <<queueVars, times, served, form, wanted, taskVars, lockVars, runVars, slot, home, mailVars, faults>>

\* Mutant: the day never ends.
TickOn ==
    /\ slot' = slot + 1
    /\ served' = {}
    /\ mailed' = {}
    /\ onTime' = {}
    /\ UNCHANGED <<queueVars, enabled, times, form, wanted, taskVars, lockVars, pc, snapshotVars, batch, cur, home, emailed, resent, twice, faults>>

\* The soft time limit of 600 seconds lets a run that has somebody to email see
\* the end of two slots, and of more if it overruns: the loop over the documents
\* survives the limit.  A run that has read the users and has nobody to email
\* is over in no time.
Tick ==
    /\ "overrun" \in Faults \/ age < 2 \/ \A r \in Runners : lock = r => pc[r] = "idle"
    /\ \A r \in Runners : pc[r] \in {"idle", "users"} \/ due[r] # {}
    /\ slot' = (slot % Slots) + 1
    /\ age' = IF age = 2 THEN 2 ELSE age + 1
    /\ served' = {}
    /\ form' = [u \in Users |-> [form[u] EXCEPT !.served = FALSE]]
    /\ mailed' = {}
    /\ onTime' = {}
    /\ UNCHANGED <<queueVars, enabled, times, wanted, taskVars, lock, pc, snapshotVars, batch, cur, home, emailed, resent, twice, faults>>

-----------------------------------------------------------------------------

NotifierStep(w) ==
    \/ \E m \in Matches : FindQueue(w, m)
    \/ CreateQueue(w)
    \/ UpdateQueue(w)

RunStep(r) ==
    \/ ReadUsers(r)
    \/ ReadQueues(r)
    \/ \E d \in Matches : TakeQueue(r, d)
    \/ SendEmail(r)
    \/ ResetQueue(r)
    \/ SaveRunTime(r)
    \/ EndRun(r)

Next ==
    \/ \E w \in Notifiers :
        \/ \E i \in Items : StartTask(w, i)
        \/ NotifierStep(w)
        \/ LoseTask(w)
    \/ \E r \in Runners :
        \/ StartRun(r)
        \/ RunStep(r)
        \/ FailRead(r)
        \/ FailSchedule(r)
        \/ CrashRun(r)
    \/ LockExpires
    \/ \E u \in Users :
        \/ OpenForm(u)
        \/ \E choice \in Choices : SaveForm(u, choice)
        \/ Disable(u)
    \/ Tick

Spec == Init /\ [][Next]_vars

(***************************************************************************)
(* What has started runs on, an expired lock counts as free and time goes  *)
(* on.  Beat starts a run in every slot; celery drops it when no worker is *)
(* free within the slot, but not on every day: whenever a slot comes round *)
(* again and again with no run in progress, a run is started in it and has *)
(* read the clock before it ends.                                          *)
(***************************************************************************)
Fairness ==
    /\ \A w \in Notifiers : WF_vars(NotifierStep(w))
    /\ \A r \in Runners : WF_vars(RunStep(r))
    /\ WF_vars(LockExpires)
    /\ SF_vars(Tick)
    /\ \A s \in 1..Slots :
        /\ SF_vars(slot = s /\ \E r \in Runners : StartRun(r))
        /\ SF_vars(slot = s /\ \E r \in Runners : ReadUsers(r))

FairSpec == Spec /\ Fairness
-----------------------------------------------------------------------------
(* Properties *)

Steps == {"idle", "users", "queues", "next", "email", "reset", "save"}

\* Every variable holds a value of its kind; a task that is queueing a match
\* has it still to do, and a document is one of its user's.
TypeOK ==
    /\ docs \subseteq Matches
    /\ content \in [Matches -> SUBSET Matches]
    /\ enabled \subseteq Users
    /\ times \in [Users -> SUBSET (1..Slots)]
    /\ served \subseteq Users
    /\ notified \subseteq Items
    /\ todo \in [Notifiers -> SUBSET Matches]
    /\ at \in [Notifiers -> Matches \cup {None}]
    /\ found \in [Notifiers -> Matches \cup {None}]
    /\ copy \in [Notifiers -> SUBSET Matches]
    /\ lock \in Runners \cup {None}
    /\ age \in 0..2
    /\ pc \in [Runners -> Steps]
    /\ known \in [Runners -> SUBSET Users]
    /\ due \in [Runners -> SUBSET Users]
    /\ chosen \in [Runners -> [Users -> SUBSET (1..Slots)]]
    /\ batch \in [Runners -> SUBSET Matches]
    /\ seen \in [Runners -> [Matches -> SUBSET Matches]]
    /\ cur \in [Runners -> Matches \cup {None}]
    /\ form \in [Users -> [open : BOOLEAN, served : BOOLEAN]]
    /\ slot \in 1..Slots
    /\ home \in [Matches -> Matches \cup {None}]
    /\ emailed \subseteq Matches
    /\ resent \subseteq Matches
    /\ mailed \subseteq Users
    /\ twice \subseteq Users
    /\ onTime \subseteq Runners
    /\ wanted \in [Users -> SUBSET (1..Slots)]
    /\ faults \in Nat
    /\ \A w \in Notifiers : at[w] # None => at[w] \in todo[w]
    /\ \A r \in Runners : pc[r] \in {"email", "reset", "save"} => cur[r] \in Matches

InQueue(m) == \E d \in docs : m \in content[d]

(***************************************************************************)
(* No match is reported in two emails, however the tasks that add to the   *)
(* queue interleave with each other and with the run that empties it: a    *)
(* task that has read a document the run then deletes does not bring it    *)
(* back.                                                                   *)
(***************************************************************************)
EmailedOnce == resent = {}

(***************************************************************************)
(* What makes EmailedOnce inductive, as long as no run fails: a match has  *)
(* one home, in which all that was read of it places it, and once it has   *)
(* been emailed its home is gone or about to go.                           *)
(***************************************************************************)
RunInv == \A r \in Runners : pc[r] # "idle" => lock = r

TaskInv ==
    /\ \A m \in Matches : ItemOf[m] \notin notified =>
        home[m] = None /\ \A w \in Notifiers : m \notin todo[w]
    /\ \A w \in Notifiers : \A m \in todo[w] : home[m] = None
    /\ \A v, w \in Notifiers : v # w => todo[v] \cap todo[w] = {}

HomeInv ==
    /\ \A m \in Matches : home[m] # None => home[home[m]] = home[m]
    /\ \A d \in docs : home[d] = d
    /\ \A w \in Notifiers : found[w] # None => home[found[w]] = found[w]
    /\ \A d \in Matches : \A m \in content[d] : home[m] = d
    /\ \A w \in Notifiers : \A m \in copy[w] : home[m] = found[w] /\ found[w] # None
    /\ \A r \in Runners : \A d \in Matches : \A m \in seen[r][d] : home[m] = d

BatchInv ==
    \A r \in Runners :
        /\ pc[r] \in {"idle", "users", "queues"} => batch[r] = {}
        /\ pc[r] \in {"email", "reset", "save"} => cur[r] \notin batch[r]
        /\ \A d \in batch[r] : home[d] # None

SentInv ==
    \A m \in emailed :
        /\ home[m] # None
        /\ home[m] \in docs => \E r \in Runners : pc[r] = "reset" /\ UserOf[cur[r]] = UserOf[home[m]]
        /\ \A r \in Runners : home[m] \notin batch[r] /\ (pc[r] = "email" => cur[r] # home[m])

MailInv == RunInv /\ TaskInv /\ HomeInv /\ BatchInv /\ SentInv

\* No two runs are in progress together.
OneRunAtATime ==
    \A q, r \in Runners : q # r => pc[q] = "idle" \/ pc[r] = "idle"

(***************************************************************************)
(* A user gets one email at most for a time he has chosen, however often   *)
(* the command is started in those five minutes and whatever arrives       *)
(* between: as long as no run fails, one worker notifies (two may create   *)
(* two documents for a user) and nobody changes his times (a form saved    *)
(* during a run takes the record of the run back).                         *)
(***************************************************************************)
OneEmailPerSlot == faults = 0 /\ wanted = Times => twice = {}

(***************************************************************************)
(* As long as one worker notifies, a match leaves the queue only when it   *)
(* has been emailed, when its user is disabled, or when it came after the  *)
(* run had read the queue: a run that fails or dies keeps what it has not  *)
(* sent.                                                                   *)
(***************************************************************************)
KeptUntilSent ==
    [][\A m \in Matches : InQueue(m) /\ ~InQueue(m)' =>
        \/ m \in emailed
        \/ \E r \in Runners : pc[r] = "reset" /\ UserOf[cur[r]] = UserOf[m] /\
              (UserOf[m] \notin known[r] \/ m \notin seen[r][home[m]])]_vars

(***************************************************************************)
(* What makes the two inductive, with TaskInv, HomeInv and BatchInv.  One  *)
(* worker keeps one document per user and loses none of its matches ...    *)
(***************************************************************************)
UpToDate(w) ==
    IF found[w] = None
    THEN \A d \in docs : UserOf[d] # UserOf[at[w]]
    ELSE /\ UserOf[found[w]] = UserOf[at[w]]
         /\ found[w] \in docs => content[found[w]] \subseteq copy[w]

QueueInv ==
    /\ \A d, e \in docs : UserOf[d] = UserOf[e] => d = e
    /\ \A m \in Matches : home[m] # None => UserOf[home[m]] = UserOf[m]
    /\ \A w \in Notifiers : at[w] # None => UpToDate(w)

\* The documents a run has read and not done with.
InHand(r) == batch[r] \cup (IF pc[r] \in {"email", "reset", "save"} THEN {cur[r]} ELSE {})

\* ... so a run has at most one document of a user in hand: the one that is in
\* the queue, if it read that.  It empties it after the email.
ReadOK(r) ==
    /\ \A d, e \in InHand(r) : UserOf[d] = UserOf[e] => d = e
    /\ \A d \in docs : \A e \in InHand(r) : seen[r][d] # {} /\ UserOf[d] = UserOf[e] => d = e
    /\ pc[r] = "reset" /\ UserOf[cur[r]] \in known[r] => seen[r][cur[r]] \subseteq emailed

ReadInv == \A r \in Runners : ReadOK(r)

KeptInv == TaskInv /\ HomeInv /\ BatchInv /\ QueueInv /\ ReadInv

\* Whom a run may still email, if he is due.
Ahead(r) ==
    {u \in Users :
        \/ pc[r] = "queues"
        \/ \E d \in batch[r] : UserOf[d] = u
        \/ pc[r] = "email" /\ UserOf[cur[r]] = u}

(***************************************************************************)
(* ... and who was emailed in the slot has it recorded in last_run_time, or*)
(* will have as soon as the run goes on; so no run of the slot that began  *)
(* later has him due, and the one that emailed him has no other document   *)
(* of his.                                                                 *)
(***************************************************************************)
SlotInv ==
    /\ \A r \in Runners :
        /\ due[r] \subseteq known[r]
        /\ pc[r] = "email" => UserOf[cur[r]] \in due[r]
    /\ faults = 0 /\ wanted = Times =>
        /\ \A u \in mailed : u \notin served =>
              \E r \in Runners : pc[r] \in {"reset", "save"} /\ UserOf[cur[r]] = u /\ u \in known[r]
        /\ \A r \in onTime : due[r] \cap mailed \cap Ahead(r) = {}
        /\ twice = {}

OnceInv == RunInv /\ KeptInv /\ SlotInv

\* What the task has dealt with.
Handled(m) == ItemOf[m] \in notified /\ \A w \in Notifiers : m \notin todo[w]

\* A match whose task has dealt with it is in the queue until it is emailed.
NothingLost == \A m \in Matches : Handled(m) => InQueue(m) \/ m \in emailed

=============================================================================
