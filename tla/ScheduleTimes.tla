---------------------------- MODULE ScheduleTimes ----------------------------
(***************************************************************************)
(* When a user's scheduled notifications are sent, minute by minute        *)
(* (newsroom/notifications/commands.py).                                   *)
(*                                                                         *)
(* Beat asks for a run every Period minutes.  The message waits for a free *)
(* worker and expires just before the next one is sent.  A run is given up *)
(* when the lock is held, which is freed when a run ends, or when RunLimit *)
(* minutes have passed; a run that lasts longer then has another one       *)
(* beside it.  The soft time limit of the task does not end a run: it is   *)
(* raised where the users are served, and caught like any other error that *)
(* leaves out the user it comes upon.  The settings form offers times that *)
(* are Grain minutes apart.  Which times are served hangs on these four    *)
(* numbers, which are written in four places.                              *)
(***************************************************************************)
EXTENDS Integers

CONSTANTS
    Workers,   \* the processes that may run the command
    Day,       \* minutes of a day (1440)
    Period,    \* crontab(minute="*/5"), expires 5 * 60 - 1
    Window,    \* how late a run may be for a time it still serves (5)
    RunLimit,  \* soft_time_limit=600, and the lock's expire=610
    Grain,     \* minutes between the times the form offers (15)
    ChosenTimes, \* the times one user has chosen, in minutes since midnight
    Horizon,   \* bounds for model checking: the last minute,
    MaxHands   \* and the runs started by hand

Never == -1

ASSUME MinutesAssumption ==
    /\ {Day, Period, Window, RunLimit, Grain, Horizon} \subseteq Nat \ {0} /\ MaxHands \in Nat
    /\ Day % Grain = 0 /\ Grain % Period = 0
    /\ Period <= Window /\ Window <= Grain
    /\ ChosenTimes \subseteq {t \in 0 .. Day - 1 : t % Grain = 0}
    /\ Never \notin Workers

\* 5 + 10 minutes are as long as the quarters of the form: a run that serves one
\* time and keeps the limit has ended when the next one comes, and the lock of one
\* that serves a time outlasts the minutes that time may be served in.
ASSUME RunsFit == Window + RunLimit <= Grain /\ Window <= RunLimit

VARIABLES
    minute,   \* the present minute
    beat,     \* the minute of beat's last message
    waiting,  \* the minute of the message that waits for a worker, or Never
    at,       \* where each worker is
    run,      \* the clock its run has read: the minute it has started, or Never
    due,      \* the time it serves the user for, or Never
    lock,     \* the worker whose run has taken the lock, or Never
    taken,    \* the minute it was taken, or Never
    lastRun,  \* last_run_time of the user, or Never
    served,   \* times he was sent an email for, in minutes since the start
    twice,    \* those he was sent more than one for
    unsaved,  \* those a run failed or died for between the email and last_run_time
    excused,  \* those there is a reason for that no email is sent: their message was lost,
              \* the run that was to serve them failed or died, or an earlier one lasted too long
    hands     \* runs started by hand

clockVars == <<minute, beat, waiting>>
runVars == <<at, run, due>>
lockVars == <<lock, taken>>
userVars == <<lastRun, served, twice>>
histVars == <<unsaved, excused>>
vars == <<clockVars, runVars, lockVars, userVars, histVars, hands>>

Init ==
    /\ minute = 0 /\ beat = Never /\ waiting = Never
    /\ at = [p \in Workers |-> "idle"]
    /\ run = [p \in Workers |-> Never]
    /\ due = [p \in Workers |-> Never]
    /\ lock = Never /\ taken = Never
    /\ lastRun = Never
    /\ served = {} /\ twice = {}
    /\ unsaved = {} /\ excused = {}
    /\ hands = 0

\* _convert_schedule_times: the user's times on the day of minute m.
ScheduleTimes(m) == {(m - (m % Day)) + t : t \in ChosenTimes}

\* Those a run of minute m is not too late for.
InWindow(m) == {s \in ScheduleTimes(m) : 0 <= m - s /\ m - s < Window}

\* Mutant: last_run_time is not compared.
DueRegardless(m) == InWindow(m)

\* Mutant: the time itself is not within its five minutes.
DueAfter(m) == {s \in InWindow(m) : s < m /\ lastRun < s}

\* is_scheduled_to_run_for_user: the times that make a run of minute m serve him.
DueTimes(m) == {s \in InWindow(m) : lastRun < s}

\* Beat sends a message; the last one expires if it still waits.
Send ==
    /\ minute % Period = 0 /\ beat # minute
    /\ beat' = minute
    /\ waiting' = minute
    /\ excused' = excused \cup (({waiting} \ {Never}) \cap ScheduleTimes(waiting))
    /\ UNCHANGED <<minute, runVars, lockVars, userVars, unsaved, hands>>

\* The message expires, or no worker gets it.
Lose ==
    /\ waiting # Never
    /\ excused' = excused \cup ({waiting} \cap ScheduleTimes(waiting))
    /\ waiting' = Never
    /\ UNCHANGED <<minute, beat, runVars, lockVars, userVars, unsaved, hands>>

\* A run gets the lock and reads the clock.
Begin(p) ==
    /\ at[p] = "idle" /\ lock = Never
    /\ lock' = p /\ taken' = minute
    /\ at' = [at EXCEPT ![p] = "begun"]
    /\ run' = [run EXCEPT ![p] = minute]
    /\ UNCHANGED <<minute, beat, due, userVars, histVars>>

\* A worker takes the message; its run is given up when the lock is held.
Start(p) ==
    /\ waiting # Never /\ minute < waiting + Period
    /\ waiting' = Never
    /\ UNCHANGED hands
    /\ \/ Begin(p)
       \/ /\ at[p] = "idle" /\ lock # Never
          /\ UNCHANGED <<minute, beat, runVars, lockVars, userVars, histVars>>

\* The command is started by hand.
StartByHand(p) ==
    /\ hands < MaxHands
    /\ Begin(p)
    /\ hands' = hands + 1
    /\ UNCHANGED waiting

Over(r, m) == r + RunLimit < m

\* run_schedules reads the users: whether this one is to be served is told by the
\* clock of the run and the last_run_time of now.
Read(p) ==
    /\ at[p] = "begun"
    /\ \/ /\ due' \in {[due EXCEPT ![p] = s] : s \in DueTimes(run[p])}
          /\ at' = [at EXCEPT ![p] = "due"]
       \/ /\ DueTimes(run[p]) = {}
          /\ at' = [at EXCEPT ![p] = "ending"]
          /\ UNCHANGED due
    /\ excused' = excused \cup IF Over(run[p], minute) THEN InWindow(run[p]) ELSE {}
    /\ UNCHANGED <<clockVars, run, lockVars, userVars, unsaved, hands>>

\* The user's turn: his email ...
Email(p) ==
    /\ at[p] = "due"
    /\ at' = [at EXCEPT ![p] = "emailed"]
    /\ served' = served \cup {due[p]}
    /\ twice' = twice \cup ({due[p]} \cap served)
    /\ UNCHANGED <<clockVars, run, due, lockVars, lastRun, histVars, hands>>

\* ... and, the queue being cleared, his last_run_time.
Save(p) ==
    /\ at[p] = "emailed"
    /\ at' = [at EXCEPT ![p] = "ending"]
    /\ due' = [due EXCEPT ![p] = Never]
    /\ lastRun' = minute
    /\ UNCHANGED <<clockVars, run, lockVars, served, twice, histVars, hands>>

\* What is left undone by a run that does not go on with the user.
Undone(p) ==
    /\ excused' = excused \cup CASE at[p] = "begun" -> InWindow(run[p])
                                [] at[p] = "due" -> {due[p]}
                                [] OTHER -> {}
    /\ unsaved' = IF at[p] = "emailed" THEN unsaved \cup {due[p]} ELSE unsaved

\* An error, that of the soft time limit included, while the data are read, at the
\* email or after it: it is logged and the run goes on without the user.
Fail(p) ==
    /\ at[p] \in {"begun", "due", "emailed"}
    /\ Undone(p)
    /\ at' = [at EXCEPT ![p] = "ending"]
    /\ due' = [due EXCEPT ![p] = Never]
    /\ UNCHANGED <<clockVars, run, lockVars, userVars, hands>>

\* unlock, which frees the lock of the process; it may have passed to another.
Finish(p) ==
    /\ at[p] = "ending"
    /\ at' = [at EXCEPT ![p] = "idle"]
    /\ run' = [run EXCEPT ![p] = Never]
    /\ IF lock = p THEN lock' = Never /\ taken' = Never ELSE UNCHANGED lockVars
    /\ UNCHANGED <<clockVars, due, userVars, histVars, hands>>

\* The process dies and leaves its lock; another one takes its place.
Crash(p) ==
    /\ at[p] # "idle"
    /\ Undone(p)
    /\ at' = [at EXCEPT ![p] = "idle"]
    /\ run' = [run EXCEPT ![p] = Never]
    /\ due' = [due EXCEPT ![p] = Never]
    /\ UNCHANGED <<clockVars, lockVars, userVars, hands>>

\* lock(name, expire=610): the lock counts for RunLimit minutes and some seconds.
LockExpires ==
    /\ lock # Never /\ minute >= taken + RunLimit
    /\ lock' = Never /\ taken' = Never
    /\ UNCHANGED <<clockVars, runVars, userVars, histVars, hands>>

\* Somebody may be due: then a run has emails to send and takes its time.
Busy(m) == m % Grain < Window

\* The runs and the lock of earlier minutes: one that was begun when nobody is due,
\* or that has lasted beyond the limit.
Lasting == {r \in {run[p] : p \in Workers} \cup {taken} :
                r # Never /\ (Over(r, minute + 1) \/ ~Busy(r))}

\* Time passes neither a beat without its message nor the expiry of a lock.
Tick ==
    /\ minute < Horizon
    /\ minute % Period = 0 => beat = minute
    /\ lock # Never => ~Over(taken, minute)
    /\ minute' = minute + 1
    /\ excused' = excused \cup IF Lasting # {} THEN {minute'} \cap ScheduleTimes(minute') ELSE {}
    /\ UNCHANGED <<beat, waiting, runVars, lockVars, userVars, unsaved, hands>>

Next ==
    \/ Send \/ Lose \/ LockExpires \/ Tick
    \/ \E p \in Workers :
          \/ Start(p) \/ StartByHand(p) \/ Read(p) \/ Email(p) \/ Save(p)
          \/ Fail(p) \/ Finish(p) \/ Crash(p)

Spec == Init /\ [][Next]_vars

-----------------------------------------------------------------------------
(* Properties *)

\* Every variable is a minute, a set of minutes, or Never; a worker has a clock while
\* it runs and a time while it serves the user.
TypeOK ==
    /\ minute \in 0 .. Horizon
    /\ {beat, waiting, taken, lastRun} \subseteq {Never} \cup (0 .. minute)
    /\ at \in [Workers -> {"idle", "begun", "due", "emailed", "ending"}]
    /\ run \in [Workers -> {Never} \cup (0 .. minute)]
    /\ due \in [Workers -> {Never} \cup (0 .. minute)]
    /\ lock \in Workers \cup {Never} /\ (lock = Never <=> taken = Never)
    /\ \A p \in Workers : /\ run[p] = Never <=> at[p] = "idle"
                          /\ due[p] # Never <=> at[p] \in {"due", "emailed"}
    /\ served \subseteq 0 .. minute /\ twice \subseteq served
    /\ unsaved \cup excused \subseteq 0 .. minute
    /\ hands \in 0 .. MaxHands

(***************************************************************************)
(* The user is not sent two emails for a time, be it by beat and by hand,  *)
(* or by a run that lasts beyond its lock and another beside it: unless a  *)
(* run has failed, or its process has died, between his email and his      *)
(* last_run_time.                                                          *)
(***************************************************************************)
ServedOnce == twice \subseteq unsaved

Scheduled == {s \in 0 .. minute : s % Day \in ChosenTimes}

\* There was an email for a time, or there is a reason that there was none.
Accounted(s) == s \in served \cup excused

(***************************************************************************)
(* When the minutes a time may be served in are over, its email is sent or *)
(* on its way, unless the very message beat sent at that minute was lost,  *)
(* the run that was to serve it failed or died before the email, or a run  *)
(* that had begun earlier, or the lock of one that died, has lasted beyond *)
(* the limit.  Messages that wait, runs that are slow within the limit and *)
(* runs given up for another make nobody miss an email.                    *)
(***************************************************************************)
NoneMissed ==
    \A s \in Scheduled : s + Window < minute =>
        Accounted(s) \/ \E p \in Workers : s = due[p] \/ (at[p] = "begun" /\ s \in InWindow(run[p]))

(* What makes them inductive.  A run whose lock has passed on is over the limit ... *)
LockInv ==
    \A p \in Workers : at[p] # "idle" =>
        (lock = p /\ taken = run[p]) \/ run[p] + RunLimit <= minute

\* ... so that no two runs have begun within it ...
ApartInv ==
    \A p, q \in Workers : p # q /\ at[p] # "idle" /\ at[q] # "idle" =>
        run[p] + RunLimit <= run[q] \/ run[q] + RunLimit <= run[p]

\* ... a run serves a time it has begun in the window of ...
DueInv == \A p \in Workers : due[p] # Never => due[p] \in InWindow(run[p])

\* ... and one the user was sent an email for lies before his last_run_time, or a run
\* is about to save that or has failed to.
ServedInv ==
    /\ \A s \in served :
          \/ s \in unsaved \/ s <= lastRun
          \/ \E p \in Workers : at[p] = "emailed" /\ due[p] = s
    /\ \A p \in Workers : at[p] = "due" => due[p] \notin served \ unsaved
    /\ \A p \in Workers : at[p] = "emailed" => due[p] \in served

\* Beat has just sent the message that waits ...
BeatInv ==
    /\ beat = Never => minute = 0
    /\ beat # Never => beat % Period = 0 /\ minute <= beat + Period
    /\ waiting # Never => waiting = beat

\* ... a run or a lock that was there before a time is late for it ...
LateInv ==
    \A s \in Scheduled :
        /\ \A p \in Workers : at[p] # "idle" /\ run[p] < s => s \in excused
        /\ lock # Never /\ taken < s => s \in excused

\* ... a time that last_run_time lies after was served, or a run was late for it ...
LastInv ==
    \A s \in Scheduled : s <= lastRun /\ lastRun < s + Grain => s \in served \cup excused

OnItsWay(s) ==
    \E p \in Workers : \/ at[p] = "begun" /\ s <= run[p] /\ run[p] < s + Window
                      \/ due[p] = s

\* ... a lock taken in its window has a run that serves it, or has done so ...
HeldInv ==
    \A s \in Scheduled :
        lock # Never /\ s <= taken /\ taken < s + Window => Accounted(s) \/ OnItsWay(s)

\* ... and otherwise its message is still to be sent, waits, or has become a run.
PendingInv ==
    \A s \in Scheduled :
        \/ Accounted(s) \/ OnItsWay(s)
        \/ s = minute /\ beat # s
        \/ s = waiting

OnceInv == LockInv /\ ApartInv /\ DueInv /\ ServedInv
OnTimeInv == BeatInv /\ LateInv /\ LastInv /\ HeldInv /\ PendingInv

=============================================================================
