---------------------- MODULE ScheduledNotificationsProofs ----------------------
(***************************************************************************)
(* Theorems of ScheduledNotifications, for any number of users, matches,   *)
(* workers and runs.                                                       *)
(***************************************************************************)
EXTENDS ScheduledNotifications, TLAPS

\* Every reachable state is well typed, whatever races and fails.
THEOREM TypeCorrect == Spec => []TypeOK
<1>1. Init => TypeOK
  BY MatchesAssumption, NoneAssumption, TimesAssumption DEF Init, TypeOK, Steps
<1>2. TypeOK /\ [Next]_vars => TypeOK'
  <2> SUFFICES ASSUME TypeOK, [Next]_vars PROVE TypeOK'
    OBVIOUS
  <2> USE DEF Steps, Goto, NextMatch, vars, queueVars, userVars, taskVars, lockVars, snapshotVars, runVars, mailVars
  <2>1. ASSUME NEW w \in Notifiers, NEW i \in Items, StartTask(w, i) PROVE TypeOK'
    BY <2>1 DEF StartTask, TypeOK
  <2>2. ASSUME NEW w \in Notifiers, NEW m \in Matches, FindQueue(w, m) PROVE TypeOK'
    <3> USE <2>2 DEF FindQueue
    <3>1. found' \in [Notifiers -> Matches \cup {None}]
      <4>1. \E d \in Matches \cup {None} : found' = [found EXCEPT ![w] = d]
        BY DEF TypeOK
      <4>2. found \in [Notifiers -> Matches \cup {None}]
        BY DEF TypeOK
      <4> HIDE <2>2 DEF FindQueue
      <4> QED
        BY <4>1, <4>2
    <3>2. copy' \in [Notifiers -> SUBSET Matches]
      <4>1. \E c \in SUBSET Matches : copy' = [copy EXCEPT ![w] = c]
        BY DEF TypeOK
      <4>2. copy \in [Notifiers -> SUBSET Matches]
        BY DEF TypeOK
      <4> HIDE <2>2 DEF FindQueue
      <4> QED
        BY <4>1, <4>2
    <3>3. /\ at' \in [Notifiers -> Matches \cup {None}]
          /\ \A v \in Notifiers : at'[v] # None => at'[v] \in todo'[v]
      BY DEF TypeOK
    <3> QED
      BY <3>1, <3>2, <3>3 DEF TypeOK
  <2>3. ASSUME NEW w \in Notifiers, CreateQueue(w) PROVE TypeOK'
    BY <2>3, NoneAssumption DEF CreateQueue, TypeOK
  <2>4. ASSUME NEW w \in Notifiers, UpdateQueue(w) PROVE TypeOK'
    <3> USE <2>4 DEF UpdateQueue
    <3>1. at[w] \in Matches /\ found[w] \in Matches
      BY DEF TypeOK
    <3>2. content' \in [Matches -> SUBSET Matches]
      <4>1. copy[w] \cup {at[w]} \in SUBSET Matches
        BY <3>1 DEF TypeOK
      <4>2. \/ content' = content
            \/ content' = [content EXCEPT ![found[w]] = copy[w] \cup {at[w]}]
        OBVIOUS
      <4>3. content \in [Matches -> SUBSET Matches]
        BY DEF TypeOK
      <4> HIDE <2>4 DEF UpdateQueue
      <4> QED
        BY <4>1, <4>2, <4>3
    <3>3. home' \in [Matches -> Matches \cup {None}]
      BY <3>1 DEF TypeOK
    <3>4. /\ todo' \in [Notifiers -> SUBSET Matches]
          /\ at' \in [Notifiers -> Matches \cup {None}]
          /\ \A v \in Notifiers : at'[v] # None => at'[v] \in todo'[v]
      BY DEF TypeOK
    <3> QED
      BY <3>2, <3>3, <3>4 DEF TypeOK
  <2>5. ASSUME NEW w \in Notifiers, LoseTask(w) PROVE TypeOK'
    BY <2>5 DEF LoseTask, TypeOK
  <2>6. ASSUME NEW r \in Runners, StartRun(r) PROVE TypeOK'
    BY <2>6 DEF StartRun, TypeOK
  <2>7. ASSUME NEW r \in Runners, ReadUsers(r) PROVE TypeOK'
    BY <2>7 DEF ReadUsers, TypeOK
  <2>8. ASSUME NEW r \in Runners, ReadQueues(r) PROVE TypeOK'
    BY <2>8 DEF ReadQueues, TypeOK
  <2>9. ASSUME NEW r \in Runners, NEW d \in Matches, TakeQueue(r, d) PROVE TypeOK'
    <3> USE <2>9 DEF TakeQueue
    <3>1. /\ batch' \in [Runners -> SUBSET Matches]
          /\ cur' \in [Runners -> Matches \cup {None}]
      BY DEF TypeOK
    <3>2. pc' \in [Runners -> Steps]
      <4>1. \E s \in Steps : pc' = [pc EXCEPT ![r] = s]
        BY DEF TypeOK
      <4>2. pc \in [Runners -> Steps]
        BY DEF TypeOK
      <4> HIDE <2>9 DEF TakeQueue
      <4> QED
        BY <4>1, <4>2
    <3>3. \A q \in Runners : pc'[q] \in {"email", "reset", "save"} => cur'[q] \in Matches
      BY DEF TypeOK
    <3> QED
      BY <3>1, <3>2, <3>3 DEF TypeOK
  <2>10. ASSUME NEW r \in Runners, SendEmail(r) PROVE TypeOK'
    <3> USE <2>10 DEF SendEmail
    <3>1. cur[r] \in Matches
      BY DEF TypeOK
    <3>2. /\ seen[r][cur[r]] \subseteq Matches
          /\ UserOf[cur[r]] \in Users
      BY <3>1, MatchesAssumption DEF TypeOK
    <3>3. emailed' \subseteq Matches /\ resent' \subseteq Matches
      BY <3>2 DEF TypeOK
    <3>4. mailed' \subseteq Users /\ twice' \subseteq Users
      BY <3>2 DEF TypeOK
    <3>5. /\ pc' \in [Runners -> Steps]
          /\ \A q \in Runners : pc'[q] \in {"email", "reset", "save"} => cur'[q] \in Matches
      BY DEF TypeOK
    <3> QED
      BY <3>3, <3>4, <3>5 DEF TypeOK
  <2>11. ASSUME NEW r \in Runners, ResetQueue(r) PROVE TypeOK'
    BY <2>11 DEF ResetQueue, TypeOK
  <2>12. ASSUME NEW r \in Runners, SaveRunTime(r) PROVE TypeOK'
    <3> USE <2>12 DEF SaveRunTime
    <3>1. UserOf[cur[r]] \in Users
      BY MatchesAssumption DEF TypeOK
    <3>2. chosen[r][UserOf[cur[r]]] \in SUBSET (1..Slots)
      BY <3>1 DEF TypeOK
    <3>3. times' \in [Users -> SUBSET (1..Slots)]
      BY <3>2 DEF TypeOK
    <3>4. served' \subseteq Users
      BY <3>1 DEF TypeOK
    <3>5. /\ pc' \in [Runners -> Steps]
          /\ \A q \in Runners : pc'[q] \in {"email", "reset", "save"} => cur'[q] \in Matches
      BY DEF TypeOK
    <3> QED
      BY <3>3, <3>4, <3>5 DEF TypeOK
  <2>13. ASSUME NEW r \in Runners, EndRun(r) PROVE TypeOK'
    BY <2>13 DEF EndRun, TypeOK
  <2>14. ASSUME NEW r \in Runners, FailRead(r) PROVE TypeOK'
    BY <2>14 DEF FailRead, TypeOK
  <2>15. ASSUME NEW r \in Runners, FailSchedule(r) PROVE TypeOK'
    BY <2>15 DEF FailSchedule, TypeOK
  <2>16. ASSUME NEW r \in Runners, CrashRun(r) PROVE TypeOK'
    BY <2>16 DEF CrashRun, TypeOK
  <2>17. ASSUME LockExpires PROVE TypeOK'
    BY <2>17 DEF LockExpires, TypeOK
  <2>18. ASSUME NEW u \in Users, OpenForm(u) PROVE TypeOK'
    BY <2>18 DEF OpenForm, TypeOK
  <2>19. ASSUME NEW u \in Users, NEW choice \in Choices, SaveForm(u, choice) PROVE TypeOK'
    BY <2>19, TimesAssumption DEF SaveForm, TypeOK
  <2>20. ASSUME NEW u \in Users, Disable(u) PROVE TypeOK'
    BY <2>20 DEF Disable, TypeOK
  <2>21. ASSUME Tick PROVE TypeOK'
    <3> USE <2>21 DEF Tick
    <3>1. slot' \in 1..Slots
      BY TimesAssumption DEF TypeOK
    <3>2. form' \in [Users -> [open : BOOLEAN, served : BOOLEAN]]
      BY DEF TypeOK
    <3>3. age' \in 0..2
      BY DEF TypeOK
    <3> QED
      BY <3>1, <3>2, <3>3 DEF TypeOK
  <2>22. CASE UNCHANGED vars
    BY <2>22 DEF TypeOK
  <2> QED
    BY <2>1, <2>2, <2>3, <2>4, <2>5, <2>6, <2>7, <2>8, <2>9, <2>10, <2>11, <2>12, <2>13, <2>14, <2>15, <2>16, <2>17, <2>18, <2>19, <2>20, <2>21, <2>22 DEF Next, NotifierStep, RunStep
<1> QED
  BY <1>1, <1>2, PTL DEF Spec

-----------------------------------------------------------------------------
(* One run at a time *)

\* A run that is in progress holds the lock, which does not expire meanwhile.
LEMMA RunInvStep ==
    ASSUME "overrun" \notin Faults, TypeOK, RunInv, [Next]_vars
    PROVE  RunInv'
<1> USE DEF RunInv, Goto, Steps, queueVars, userVars, taskVars, lockVars, snapshotVars, runVars, mailVars
<1>1. ASSUME NEW r \in Runners, StartRun(r) PROVE RunInv'
  BY <1>1, NoneAssumption DEF StartRun, TypeOK
<1>2. ASSUME NEW r \in Runners, RunStep(r) PROVE RunInv'
  <2>1. CASE ReadUsers(r) \/ ReadQueues(r) \/ SendEmail(r) \/ ResetQueue(r) \/ SaveRunTime(r)
    BY <2>1 DEF ReadUsers, ReadQueues, SendEmail, ResetQueue, SaveRunTime, TypeOK
  <2>2. CASE \E d \in Matches : TakeQueue(r, d)
    BY <2>2 DEF TakeQueue, TypeOK
  <2>3. CASE EndRun(r)
    BY <2>3 DEF EndRun, TypeOK
  <2> QED
    BY <1>2, <2>1, <2>2, <2>3 DEF RunStep
<1>3. ASSUME NEW r \in Runners, FailRead(r) \/ FailSchedule(r) \/ CrashRun(r) PROVE RunInv'
  BY <1>3 DEF FailRead, FailSchedule, CrashRun, TypeOK
<1>4. ASSUME LockExpires PROVE RunInv'
  BY <1>4 DEF LockExpires
<1>5. ASSUME Tick PROVE RunInv'
  BY <1>5 DEF Tick, TypeOK
<1>6. ASSUME NEW w \in Notifiers,
             (\E i \in Items : StartTask(w, i)) \/ NotifierStep(w) \/ LoseTask(w)
      PROVE  RunInv'
  <2>1. UNCHANGED <<pc, lock, age>>
    BY <1>6 DEF StartTask, NotifierStep, FindQueue, CreateQueue, UpdateQueue, LoseTask
  <2> QED
    BY <2>1
<1>7. ASSUME NEW u \in Users,
             OpenForm(u) \/ (\E choice \in Choices : SaveForm(u, choice)) \/ Disable(u)
      PROVE  RunInv'
  BY <1>7 DEF OpenForm, SaveForm, Disable
<1>8. CASE UNCHANGED vars
  BY <1>8 DEF vars
<1> QED
  BY <1>1, <1>2, <1>3, <1>4, <1>5, <1>6, <1>7, <1>8 DEF Next

\* Unless a run overruns its lock, no two runs are in progress together,
\* whatever fails or dies.
THEOREM RunsExclude ==
    ASSUME "overrun" \notin Faults
    PROVE  Spec => []OneRunAtATime
<1>1. Init => RunInv
  BY DEF Init, RunInv
<1>2. TypeOK /\ RunInv /\ [Next]_vars => RunInv'
  BY RunInvStep
<1>3. RunInv => OneRunAtATime
  BY DEF RunInv, OneRunAtATime
<1> QED
  BY <1>1, <1>2, <1>3, TypeCorrect, PTL DEF Spec

-----------------------------------------------------------------------------
(* No match is emailed twice *)

\* Tasks share no match, and what is still to be queued has no home yet.
LEMMA TaskInvStep ==
    ASSUME TypeOK, TaskInv, [Next]_vars
    PROVE  TaskInv'
<1> USE DEF Goto, NextMatch, queueVars, userVars, taskVars, lockVars, snapshotVars, runVars, mailVars
<1>1. ASSUME NEW w \in Notifiers, NEW i \in Items, StartTask(w, i) PROVE TaskInv'
  BY <1>1 DEF StartTask, TypeOK, TaskInv
<1>2. ASSUME NEW w \in Notifiers, CreateQueue(w) \/ UpdateQueue(w) PROVE TaskInv'
  <2>1. at[w] \in todo[w] /\ at[w] \in Matches
    BY <1>2 DEF CreateQueue, UpdateQueue, TypeOK
  <2>2. /\ notified' = notified
        /\ todo' = [todo EXCEPT ![w] = @ \ {at[w]}]
        /\ \A m \in Matches : m # at[w] => home'[m] = home[m]
    BY <1>2 DEF CreateQueue, UpdateQueue, TypeOK
  <2>3. ItemOf[at[w]] \in notified
    BY <2>1 DEF TaskInv
  <2> QED
    BY <2>1, <2>2, <2>3 DEF TaskInv, TypeOK
<1>3. ASSUME NEW w \in Notifiers, LoseTask(w) PROVE TaskInv'
  BY <1>3 DEF LoseTask, TypeOK, TaskInv
<1>4. CASE UNCHANGED <<home, notified, todo>>
  BY <1>4 DEF TaskInv
<1>5. ASSUME NEW w \in Notifiers, NEW m \in Matches, FindQueue(w, m)
      PROVE  UNCHANGED <<home, notified, todo>>
  BY <1>5 DEF FindQueue
<1>6. ASSUME NEW r \in Runners, StartRun(r) \/ RunStep(r)
      PROVE  UNCHANGED <<home, notified, todo>>
  BY <1>6 DEF StartRun, RunStep, ReadUsers, ReadQueues, TakeQueue, SendEmail, ResetQueue, SaveRunTime, EndRun
<1>7. ASSUME NEW r \in Runners, FailRead(r) \/ FailSchedule(r) \/ CrashRun(r)
      PROVE  UNCHANGED <<home, notified, todo>>
  BY <1>7 DEF FailRead, FailSchedule, CrashRun
<1>8. ASSUME NEW u \in Users,
             OpenForm(u) \/ (\E choice \in Choices : SaveForm(u, choice)) \/ Disable(u)
      PROVE  UNCHANGED <<home, notified, todo>>
  BY <1>8 DEF OpenForm, SaveForm, Disable
<1>9. ASSUME LockExpires \/ Tick \/ UNCHANGED vars
      PROVE  UNCHANGED <<home, notified, todo>>
  BY <1>9 DEF LockExpires, Tick, vars
<1> QED
  BY <1>1, <1>2, <1>3, <1>4, <1>5, <1>6, <1>7, <1>8, <1>9 DEF Next, NotifierStep

\* Everything that has been read of the queue places a match in its home.
LEMMA HomeInvStep ==
    ASSUME TypeOK, TaskInv, HomeInv, [Next]_vars
    PROVE  HomeInv'
<1> USE DEF Goto, NextMatch, queueVars, userVars, taskVars, lockVars, snapshotVars, runVars, mailVars
<1> DEFINE homeVars == <<home, docs, found, content, copy, seen>>
<1>1. ASSUME NEW w \in Notifiers, CreateQueue(w) PROVE HomeInv'
  <2> DEFINE m == at[w]
  <2>1. m \in Matches /\ home[m] = None /\ m # None
    BY <1>1 DEF CreateQueue, TypeOK, TaskInv
  <2>2. /\ home'[m] = m
        /\ \A x \in Matches : x # m => home'[x] = home[x]
        /\ docs' = docs \cup {m}
        /\ content'[m] = {m}
        /\ \A d \in Matches : d # m => content'[d] = content[d]
        /\ UNCHANGED <<found, copy, seen>>
    BY <1>1, <2>1 DEF CreateQueue, TypeOK
  <2>3. ASSUME NEW x \in Matches, home'[x] # None PROVE home'[home'[x]] = home'[x]
    <3>1. CASE x = m
      BY <3>1, <2>1, <2>2
    <3>2. CASE x # m
      <4>1. home[x] \in Matches /\ home[home[x]] = home[x] /\ home[x] # m
        BY <3>2, <2>1, <2>2, <2>3 DEF HomeInv, TypeOK
      <4> QED
        BY <3>2, <4>1, <2>2
    <3> QED
      BY <3>1, <3>2
  <2>4. \A d \in docs' : home'[d] = d
    BY <2>1, <2>2 DEF HomeInv, TypeOK
  <2>5. \A v \in Notifiers : found'[v] # None => home'[found'[v]] = found'[v]
    BY <2>1, <2>2 DEF HomeInv, TypeOK
  <2>6. ASSUME NEW d \in Matches, NEW x \in content'[d] PROVE home'[x] = d
    <3>1. CASE d = m
      BY <3>1, <2>2
    <3>2. CASE d # m
      <4>1. x \in content[d] /\ x \in Matches
        BY <2>2, <3>2, <2>6 DEF TypeOK
      <4>2. home[x] = d /\ x # m
        BY <2>1, <4>1, NoneAssumption DEF HomeInv
      <4> QED
        BY <2>2, <4>1, <4>2
    <3> QED
      BY <3>1, <3>2
  <2>7. \A v \in Notifiers : \A x \in copy'[v] : home'[x] = found'[v] /\ found'[v] # None
    BY <2>1, <2>2 DEF HomeInv, TypeOK
  <2>8. \A r \in Runners : \A d \in Matches : \A x \in seen'[r][d] : home'[x] = d
    BY <2>1, <2>2, NoneAssumption DEF HomeInv, TypeOK
  <2> QED
    BY <2>3, <2>4, <2>5, <2>6, <2>7, <2>8 DEF HomeInv
<1>2. ASSUME NEW w \in Notifiers, UpdateQueue(w), found[w] \in docs PROVE HomeInv'
  <2> DEFINE m == at[w]
             f == found[w]
  <2>1. m \in Matches /\ home[m] = None /\ f \in Matches /\ f # None /\ home[f] = f /\ f # m
    BY <1>2, NoneAssumption DEF UpdateQueue, TypeOK, TaskInv, HomeInv
  <2>2. /\ home'[m] = f
        /\ \A x \in Matches : x # m => home'[x] = home[x]
        /\ content'[f] = copy[w] \cup {m}
        /\ \A d \in Matches : d # f => content'[d] = content[d]
        /\ UNCHANGED <<docs, found, copy, seen>>
    BY <1>2, <2>1 DEF UpdateQueue, TypeOK
  <2>3. ASSUME NEW x \in Matches, home'[x] # None PROVE home'[home'[x]] = home'[x]
    <3>1. CASE x = m
      BY <3>1, <2>1, <2>2
    <3>2. CASE x # m
      <4>1. home[x] \in Matches /\ home[home[x]] = home[x] /\ home[x] # m
        BY <3>2, <2>1, <2>2, <2>3 DEF HomeInv, TypeOK
      <4> QED
        BY <3>2, <4>1, <2>2
    <3> QED
      BY <3>1, <3>2
  <2>4. \A d \in docs' : home'[d] = d
    BY <2>1, <2>2, NoneAssumption DEF HomeInv, TypeOK
  <2>5. \A v \in Notifiers : found'[v] # None => home'[found'[v]] = found'[v]
    BY <2>1, <2>2 DEF HomeInv, TypeOK
  <2>6. \A d \in Matches : \A x \in content'[d] : home'[x] = d
    <3>1. \A x \in copy[w] : x \in Matches /\ home[x] = f
      BY <2>1 DEF HomeInv, TypeOK
    <3>2. \A x \in content'[f] : home'[x] = f
      BY <2>1, <2>2, <3>1
    <3>3. ASSUME NEW d \in Matches, d # f, NEW x \in content'[d] PROVE home'[x] = d
      <4>1. x \in content[d] /\ x \in Matches
        BY <2>2, <3>3 DEF TypeOK
      <4>2. home[x] = d /\ x # m
        BY <2>1, <4>1, NoneAssumption DEF HomeInv
      <4> QED
        BY <2>2, <4>1, <4>2
    <3> QED
      BY <3>2, <3>3
  <2>7. \A v \in Notifiers : \A x \in copy'[v] : home'[x] = found'[v] /\ found'[v] # None
    BY <2>1, <2>2 DEF HomeInv, TypeOK
  <2>8. \A r \in Runners : \A d \in Matches : \A x \in seen'[r][d] : home'[x] = d
    BY <2>1, <2>2, NoneAssumption DEF HomeInv, TypeOK
  <2> QED
    BY <2>3, <2>4, <2>5, <2>6, <2>7, <2>8 DEF HomeInv
<1>3. ASSUME NEW w \in Notifiers, NEW m \in Matches, FindQueue(w, m) PROVE HomeInv'
  <2>1. \A v \in Notifiers : found'[v] # None => home[found'[v]] = found'[v]
    <3>1. ASSUME NEW d \in docs, found' = [found EXCEPT ![w] = d]
          PROVE  \A v \in Notifiers : found'[v] # None => home[found'[v]] = found'[v]
      BY <3>1 DEF HomeInv, TypeOK
    <3>2. ASSUME found' = [found EXCEPT ![w] = None]
          PROVE  \A v \in Notifiers : found'[v] # None => home[found'[v]] = found'[v]
      BY <3>2 DEF HomeInv, TypeOK
    <3> QED
      BY <1>3, <3>1, <3>2 DEF FindQueue
  <2>2. \A v \in Notifiers : \A x \in copy'[v] : home[x] = found'[v] /\ found'[v] # None
    <3>1. ASSUME NEW d \in docs, copy' = [copy EXCEPT ![w] = content[d]],
                 found' = [found EXCEPT ![w] = d]
          PROVE  \A v \in Notifiers : \A x \in copy'[v] : home[x] = found'[v] /\ found'[v] # None
      BY <3>1, NoneAssumption DEF HomeInv, TypeOK
    <3>2. ASSUME copy' = [copy EXCEPT ![w] = {}], found' = [found EXCEPT ![w] = None]
          PROVE  \A v \in Notifiers : \A x \in copy'[v] : home[x] = found'[v] /\ found'[v] # None
      BY <3>2 DEF HomeInv, TypeOK
    <3> QED
      BY <1>3, <3>1, <3>2 DEF FindQueue
  <2> QED
    BY <1>3, <2>1, <2>2 DEF FindQueue, HomeInv
<1>4. ASSUME NEW r \in Runners, ReadQueues(r) PROVE HomeInv'
  BY <1>4 DEF ReadQueues, HomeInv, TypeOK
<1>5. ASSUME NEW r \in Runners, ResetQueue(r) PROVE HomeInv'
  BY <1>5 DEF ResetQueue, HomeInv
<1>6. CASE UNCHANGED homeVars
  BY <1>6 DEF HomeInv
<1>7. ASSUME NEW w \in Notifiers,
             (\E i \in Items : StartTask(w, i)) \/ LoseTask(w) \/ (UpdateQueue(w) /\ found[w] \notin docs)
      PROVE  UNCHANGED homeVars
  BY <1>7 DEF StartTask, LoseTask, UpdateQueue
<1>8. ASSUME NEW r \in Runners,
             \/ StartRun(r) \/ ReadUsers(r) \/ (\E d \in Matches : TakeQueue(r, d))
             \/ SendEmail(r) \/ SaveRunTime(r) \/ EndRun(r)
      PROVE  UNCHANGED homeVars
  BY <1>8 DEF StartRun, ReadUsers, TakeQueue, SendEmail, SaveRunTime, EndRun
<1>9. ASSUME NEW r \in Runners, FailRead(r) \/ FailSchedule(r) \/ CrashRun(r)
      PROVE  UNCHANGED homeVars
  BY <1>9 DEF FailRead, FailSchedule, CrashRun
<1>10. ASSUME NEW u \in Users,
              OpenForm(u) \/ (\E choice \in Choices : SaveForm(u, choice)) \/ Disable(u)
       PROVE  UNCHANGED homeVars
  BY <1>10 DEF OpenForm, SaveForm, Disable
<1>11. ASSUME LockExpires \/ Tick \/ UNCHANGED vars
       PROVE  UNCHANGED homeVars
  BY <1>11 DEF LockExpires, Tick, vars
<1> HIDE DEF homeVars
<1> QED
  BY <1>1, <1>2, <1>3, <1>4, <1>5, <1>6, <1>7, <1>8, <1>9, <1>10, <1>11 DEF Next, NotifierStep, RunStep

\* A match that has a home keeps it.
LEMMA HomeKept ==
    ASSUME TypeOK, TaskInv, [Next]_vars, NEW m \in Matches, home[m] # None
    PROVE  home'[m] = home[m]
<1> USE DEF queueVars, userVars, taskVars, lockVars, snapshotVars, runVars, mailVars
<1>1. ASSUME NEW w \in Notifiers, CreateQueue(w) \/ UpdateQueue(w) PROVE home'[m] = home[m]
  <2>1. home[at[w]] = None
    BY <1>1 DEF CreateQueue, UpdateQueue, TypeOK, TaskInv
  <2> QED
    BY <1>1, <2>1 DEF CreateQueue, UpdateQueue, TypeOK
<1>2. ASSUME NEW w \in Notifiers,
             \/ \E i \in Items : StartTask(w, i)
             \/ \E x \in Matches : FindQueue(w, x)
             \/ LoseTask(w)
      PROVE  UNCHANGED home
  BY <1>2 DEF StartTask, FindQueue, LoseTask
<1>3. ASSUME NEW r \in Runners, StartRun(r) \/ RunStep(r)
      PROVE  UNCHANGED home
  BY <1>3 DEF StartRun, RunStep, ReadUsers, ReadQueues, TakeQueue, SendEmail, ResetQueue, SaveRunTime, EndRun
<1>4. ASSUME NEW r \in Runners, FailRead(r) \/ FailSchedule(r) \/ CrashRun(r)
      PROVE  UNCHANGED home
  BY <1>4 DEF FailRead, FailSchedule, CrashRun
<1>5. ASSUME NEW u \in Users,
             OpenForm(u) \/ (\E choice \in Choices : SaveForm(u, choice)) \/ Disable(u)
      PROVE  UNCHANGED home
  BY <1>5 DEF OpenForm, SaveForm, Disable
<1>6. ASSUME LockExpires \/ Tick \/ UNCHANGED vars
      PROVE  UNCHANGED home
  BY <1>6 DEF LockExpires, Tick, vars
<1> QED
  BY <1>1, <1>2, <1>3, <1>4, <1>5, <1>6 DEF Next, NotifierStep

\* A run has in its batch what it read and has not taken yet.
LEMMA BatchInvStep ==
    ASSUME TypeOK, TaskInv, HomeInv, BatchInv, [Next]_vars
    PROVE  BatchInv'
<1> USE DEF Goto, queueVars, userVars, taskVars, lockVars, snapshotVars, runVars, mailVars
<1> DEFINE Others == UNCHANGED <<pc, batch, cur>>
<1>1. CASE Others
  <2>1. ASSUME NEW r \in Runners, NEW d \in batch[r] PROVE home'[d] # None
    BY <2>1, HomeKept DEF BatchInv, TypeOK
  <2> QED
    BY <1>1, <2>1 DEF BatchInv
<1>2. ASSUME NEW r \in Runners, ReadQueues(r) PROVE BatchInv'
  <2>1. \A d \in docs : home[d] # None
    BY NoneAssumption DEF HomeInv, TypeOK
  <2> QED
    BY <1>2, <2>1 DEF ReadQueues, BatchInv, TypeOK
<1>3. ASSUME NEW r \in Runners, NEW d \in Matches, TakeQueue(r, d) PROVE BatchInv'
  <2>1. /\ home' = home
        /\ batch' = [batch EXCEPT ![r] = @ \ {d}]
        /\ cur' = [cur EXCEPT ![r] = d]
        /\ pc[r] = "next"
        /\ \A q \in Runners : q # r => pc'[q] = pc[q]
        /\ pc'[r] \notin {"idle", "users", "queues"}
    BY <1>3 DEF TakeQueue, TypeOK
  <2> QED
    BY <2>1 DEF BatchInv, TypeOK
<1>4. ASSUME NEW r \in Runners,
             \/ StartRun(r) \/ ReadUsers(r) \/ SendEmail(r) \/ SaveRunTime(r)
             \/ FailRead(r) \/ FailSchedule(r)
      PROVE  BatchInv'
  BY <1>4 DEF StartRun, ReadUsers, SendEmail, SaveRunTime, FailRead, FailSchedule, BatchInv, TypeOK
<1>5. ASSUME NEW r \in Runners, ResetQueue(r) PROVE BatchInv'
  BY <1>5 DEF ResetQueue, BatchInv, TypeOK
<1>6. ASSUME NEW r \in Runners, EndRun(r) \/ CrashRun(r) PROVE BatchInv'
  <2>1. /\ UNCHANGED <<home, cur>>
        /\ pc'[r] = "idle" /\ batch'[r] = {}
        /\ \A q \in Runners : q # r => pc'[q] = pc[q] /\ batch'[q] = batch[q]
    BY <1>6 DEF EndRun, CrashRun, TypeOK
  <2> QED
    BY <2>1 DEF BatchInv
<1>7. ASSUME NEW w \in Notifiers,
             (\E i \in Items : StartTask(w, i)) \/ NotifierStep(w) \/ LoseTask(w)
      PROVE  Others
  BY <1>7 DEF StartTask, NotifierStep, FindQueue, CreateQueue, UpdateQueue, LoseTask
<1>8. ASSUME NEW u \in Users,
             OpenForm(u) \/ (\E choice \in Choices : SaveForm(u, choice)) \/ Disable(u)
      PROVE  Others
  BY <1>8 DEF OpenForm, SaveForm, Disable
<1>9. ASSUME LockExpires \/ Tick \/ UNCHANGED vars
      PROVE  Others
  BY <1>9 DEF LockExpires, Tick, vars
<1> HIDE DEF Others
<1> QED
  BY <1>1, <1>2, <1>3, <1>4, <1>5, <1>6, <1>7, <1>8, <1>9 DEF Next, RunStep

\* What has been emailed is gone from the queue, or about to go, and no run
\* will email it again.
LEMMA SentInvStep ==
    ASSUME Faults \subseteq {"lost"}, TypeOK, MailInv, EmailedOnce, [Next]_vars
    PROVE  SentInv' /\ EmailedOnce'
<1> USE DEF Goto, NextMatch, queueVars, userVars, taskVars, lockVars, snapshotVars, runVars, mailVars
<1>1. \A m \in emailed : m \in Matches /\ home[m] \in Matches /\ home'[m] = home[m]
  BY HomeKept DEF TypeOK, MailInv, SentInv
<1> DEFINE Others == UNCHANGED <<docs, pc, batch, cur, emailed, resent>>
<1>2. CASE Others
  BY <1>1, <1>2 DEF MailInv, SentInv, EmailedOnce
<1>3. ASSUME NEW w \in Notifiers, CreateQueue(w) PROVE SentInv' /\ EmailedOnce'
  <2>1. home[at[w]] = None /\ docs' = docs \cup {at[w]} /\ UNCHANGED <<pc, batch, cur, emailed, resent>>
    BY <1>3 DEF CreateQueue, MailInv, TaskInv, TypeOK
  <2>2. \A m \in emailed : home[m] # at[w]
    BY <1>1, <2>1, NoneAssumption DEF MailInv, HomeInv, SentInv
  <2> QED
    BY <1>1, <2>1, <2>2 DEF MailInv, SentInv, EmailedOnce
<1>4. ASSUME NEW r \in Runners, StartRun(r) \/ ReadUsers(r) \/ SaveRunTime(r) \/ EndRun(r)
      PROVE  SentInv' /\ EmailedOnce'
  <2>1. /\ UNCHANGED <<docs, home, batch, cur, emailed, resent>>
        /\ \A q \in Runners : q # r => pc'[q] = pc[q]
        /\ pc[r] # "reset" /\ pc'[r] # "email"
    BY <1>4 DEF StartRun, ReadUsers, SaveRunTime, EndRun, TypeOK
  <2> QED
    BY <2>1 DEF MailInv, SentInv, EmailedOnce
<1>5. ASSUME NEW r \in Runners, ReadQueues(r) PROVE SentInv' /\ EmailedOnce'
  <2>1. \A q \in Runners : pc[q] # "reset"
    BY <1>5 DEF ReadQueues, MailInv, RunInv
  <2>2. \A m \in emailed : home[m] \notin docs
    BY <2>1 DEF MailInv, SentInv
  <2> QED
    BY <1>1, <1>5, <2>2 DEF ReadQueues, MailInv, SentInv, EmailedOnce, TypeOK
<1>6. ASSUME NEW r \in Runners, NEW d \in Matches, TakeQueue(r, d) PROVE SentInv' /\ EmailedOnce'
  <2>1. \A m \in emailed : home[m] # d
    BY <1>6 DEF TakeQueue, MailInv, SentInv
  <2>2. /\ UNCHANGED <<docs, emailed, resent>>
        /\ batch' = [batch EXCEPT ![r] = @ \ {d}]
        /\ cur' = [cur EXCEPT ![r] = d]
        /\ pc[r] = "next"
        /\ \A q \in Runners : q # r => pc'[q] = pc[q]
    BY <1>6 DEF TakeQueue, TypeOK
  <2>3. ASSUME NEW m \in emailed
        PROVE  /\ home'[m] # None
               /\ home'[m] \in docs' => \E q \in Runners : pc'[q] = "reset" /\ UserOf[cur'[q]] = UserOf[home'[m]]
               /\ \A q \in Runners : home'[m] \notin batch'[q] /\ (pc'[q] = "email" => cur'[q] # home'[m])
    <3>1. home[m] # None /\ home'[m] = home[m] /\ home[m] # d
      BY <1>1, <2>1 DEF MailInv, SentInv
    <3>2. home[m] \in docs => \E q \in Runners : pc'[q] = "reset" /\ UserOf[cur'[q]] = UserOf[home[m]]
      BY <2>2 DEF MailInv, SentInv, TypeOK
    <3>3. \A q \in Runners : home[m] \notin batch'[q]
      BY <2>2 DEF MailInv, SentInv, TypeOK
    <3>4. \A q \in Runners : pc'[q] = "email" => cur'[q] # home[m]
      BY <2>2, <3>1 DEF MailInv, SentInv, TypeOK
    <3> QED
      BY <2>2, <3>1, <3>2, <3>3, <3>4
  <2> QED
    BY <2>2, <2>3 DEF SentInv, EmailedOnce
<1>7. ASSUME NEW r \in Runners, SendEmail(r) PROVE SentInv' /\ EmailedOnce'
  <2> DEFINE d == cur[r]
  <2>1. d \in Matches /\ \A m \in seen[r][d] : m \in Matches /\ home[m] = d
    BY <1>7 DEF SendEmail, MailInv, HomeInv, TypeOK
  <2>2. \A m \in emailed : home[m] # d
    BY <1>7 DEF SendEmail, MailInv, SentInv
  <2>3. EmailedOnce'
    BY <1>7, <2>1, <2>2 DEF SendEmail, EmailedOnce
  <2>4. /\ UNCHANGED <<docs, home, batch, cur>>
        /\ emailed' = emailed \cup seen[r][d]
        /\ pc' = [pc EXCEPT ![r] = "reset"]
        /\ \A q \in Runners : q # r => pc[q] = "idle" /\ batch[q] = {}
        /\ d \notin batch[r]
    BY <1>7 DEF SendEmail, MailInv, RunInv, BatchInv
  <2>5. ASSUME NEW m \in seen[r][d]
        PROVE  /\ home'[m] # None
               /\ \E q \in Runners : pc'[q] = "reset" /\ UserOf[cur'[q]] = UserOf[home'[m]]
               /\ \A q \in Runners : home'[m] \notin batch'[q] /\ (pc'[q] = "email" => cur'[q] # home'[m])
    <3>1. home'[m] = d /\ d # None /\ d \in Matches
      BY <2>1, <2>4, <2>5, NoneAssumption
    <3>2. pc'[r] = "reset" /\ cur'[r] = d
      BY <2>4 DEF TypeOK
    <3>3. \A q \in Runners : d \notin batch'[q] /\ pc'[q] # "email"
      BY <2>4 DEF TypeOK
    <3> QED
      BY <3>1, <3>2, <3>3
  <2>6. ASSUME NEW m \in emailed
        PROVE  /\ home'[m] # None
               /\ home'[m] \in docs' => \E q \in Runners : pc'[q] = "reset" /\ UserOf[cur'[q]] = UserOf[home'[m]]
               /\ \A q \in Runners : home'[m] \notin batch'[q] /\ (pc'[q] = "email" => cur'[q] # home'[m])
    BY <1>7, <2>4 DEF SendEmail, MailInv, SentInv, TypeOK
  <2> QED
    BY <2>3, <2>4, <2>5, <2>6 DEF SentInv
<1>8. ASSUME NEW r \in Runners, ResetQueue(r) PROVE SentInv' /\ EmailedOnce'
  <2>1. /\ docs' = {d \in docs : UserOf[d] # UserOf[cur[r]]}
        /\ UNCHANGED <<batch, cur, emailed, resent, home>>
        /\ \A q \in Runners : q # r => pc'[q] = pc[q] /\ pc[q] = "idle"
        /\ pc'[r] # "email"
    BY <1>8 DEF ResetQueue, MailInv, RunInv, TypeOK
  <2>2. \A m \in emailed : home[m] \notin docs'
    BY <2>1 DEF MailInv, SentInv
  <2> QED
    BY <2>1, <2>2 DEF MailInv, SentInv, EmailedOnce
<1>9. ASSUME NEW w \in Notifiers,
             \/ \E i \in Items : StartTask(w, i)
             \/ \E m \in Matches : FindQueue(w, m)
             \/ UpdateQueue(w) \/ LoseTask(w)
      PROVE  Others
  BY <1>9 DEF StartTask, FindQueue, UpdateQueue, LoseTask
<1>10. ASSUME NEW r \in Runners PROVE ~FailRead(r) /\ ~FailSchedule(r) /\ ~CrashRun(r)
  BY DEF FailRead, FailSchedule, CrashRun
<1>11. ASSUME NEW u \in Users,
              OpenForm(u) \/ (\E choice \in Choices : SaveForm(u, choice)) \/ Disable(u)
       PROVE  Others
  BY <1>11 DEF OpenForm, SaveForm, Disable
<1>12. ASSUME LockExpires \/ Tick \/ UNCHANGED vars
       PROVE  Others
  BY <1>12 DEF LockExpires, Tick, vars
<1> HIDE DEF Others
<1> QED
  BY <1>2, <1>3, <1>4, <1>5, <1>6, <1>7, <1>8, <1>9, <1>10, <1>11, <1>12 DEF Next, NotifierStep, RunStep

\* No match is reported in two emails, whatever races and whichever tasks are
\* lost, as long as no run fails, dies or overruns.
THEOREM EmailsOnce ==
    ASSUME Faults \subseteq {"lost"}
    PROVE  Spec => []EmailedOnce
<1> DEFINE Inv == MailInv /\ EmailedOnce
<1>1. Init => Inv
  BY MatchesAssumption DEF Init, MailInv, RunInv, TaskInv, HomeInv, BatchInv, SentInv, EmailedOnce
<1>2. TypeOK /\ Inv /\ [Next]_vars => Inv'
  BY RunInvStep, TaskInvStep, HomeInvStep, BatchInvStep, SentInvStep DEF MailInv
<1>3. Inv => EmailedOnce
  OBVIOUS
<1> HIDE DEF Inv
<1> QED
  BY <1>1, <1>2, <1>3, TypeCorrect, PTL DEF Spec

-----------------------------------------------------------------------------
(* What leaves the queue *)

\* One worker keeps one document per user, and what it read of it is all there is.
LEMMA QueueInvStep ==
    ASSUME \A v, w \in Notifiers : v = w,
           TypeOK, TaskInv, HomeInv, QueueInv, [Next]_vars
    PROVE  QueueInv'
<1> USE DEF Goto, NextMatch, queueVars, userVars, taskVars, lockVars, snapshotVars, runVars, mailVars
<1> DEFINE Others == UNCHANGED <<docs, content, home, at, found, copy>>
<1>1. CASE Others
  BY <1>1 DEF QueueInv, UpToDate
<1>2. ASSUME NEW w \in Notifiers, NEW m \in Matches, FindQueue(w, m) PROVE QueueInv'
  <2>1. UNCHANGED <<docs, content, home>> /\ at'[w] = m
    BY <1>2 DEF FindQueue, TypeOK
  <2>2. UpToDate(w)'
    <3>1. ASSUME NEW d \in docs, UserOf[d] = UserOf[m],
                 found' = [found EXCEPT ![w] = d], copy' = [copy EXCEPT ![w] = content[d]]
          PROVE  UpToDate(w)'
      <4>1. found'[w] = d /\ copy'[w] = content[d] /\ d # None
        BY <3>1, NoneAssumption DEF TypeOK
      <4> QED
        BY <2>1, <3>1, <4>1 DEF UpToDate
    <3>2. ASSUME \A d \in docs : UserOf[d] # UserOf[m], found' = [found EXCEPT ![w] = None]
          PROVE  UpToDate(w)'
      BY <2>1, <3>2 DEF UpToDate, TypeOK
    <3> QED
      BY <1>2, <3>1, <3>2 DEF FindQueue
  <2> QED
    BY <2>1, <2>2 DEF QueueInv
<1>3. ASSUME NEW w \in Notifiers, CreateQueue(w) PROVE QueueInv'
  <2> DEFINE m == at[w]
  <2>1. m \in Matches /\ home[m] = None /\ \A d \in docs : UserOf[d] # UserOf[m]
    BY <1>3 DEF CreateQueue, TypeOK, TaskInv, QueueInv, UpToDate
  <2>2. /\ docs' = docs \cup {m}
        /\ home'[m] = m
        /\ \A x \in Matches : x # m => home'[x] = home[x]
        /\ at'[w] = None
    BY <1>3, <2>1 DEF CreateQueue, TypeOK
  <2>3. \A d, e \in docs' : UserOf[d] = UserOf[e] => d = e
    BY <2>1, <2>2 DEF QueueInv
  <2>4. \A x \in Matches : home'[x] # None => UserOf[home'[x]] = UserOf[x]
    BY <2>2 DEF QueueInv
  <2> QED
    BY <2>2, <2>3, <2>4 DEF QueueInv
<1>4. ASSUME NEW w \in Notifiers, UpdateQueue(w) PROVE QueueInv'
  <2>1. at[w] \in Matches /\ UserOf[found[w]] = UserOf[at[w]]
    BY <1>4 DEF UpdateQueue, TypeOK, QueueInv, UpToDate
  <2>2. docs' = docs /\ at'[w] = None
    BY <1>4, <2>1 DEF UpdateQueue, TypeOK
  <2>3. \A x \in Matches : home'[x] = home[x] \/ (x = at[w] /\ home'[x] = found[w])
    BY <1>4, <2>1 DEF UpdateQueue, TypeOK
  <2>4. \A x \in Matches : home'[x] # None => UserOf[home'[x]] = UserOf[x]
    BY <2>1, <2>3 DEF QueueInv
  <2> QED
    BY <2>2, <2>4 DEF QueueInv
<1>5. ASSUME NEW w \in Notifiers, LoseTask(w) PROVE QueueInv'
  <2>1. UNCHANGED <<docs, content, home>> /\ at'[w] = None
    BY <1>5 DEF LoseTask, TypeOK
  <2> QED
    BY <2>1 DEF QueueInv
<1>6. ASSUME NEW r \in Runners, ResetQueue(r) PROVE QueueInv'
  <2>1. docs' \subseteq docs /\ UNCHANGED <<content, home, at, found, copy>>
    BY <1>6 DEF ResetQueue
  <2> QED
    BY <2>1 DEF QueueInv, UpToDate
<1>7. ASSUME NEW w \in Notifiers, NEW i \in Items, StartTask(w, i) PROVE Others
  BY <1>7 DEF StartTask
<1>8. ASSUME NEW r \in Runners,
             \/ StartRun(r) \/ ReadUsers(r) \/ ReadQueues(r) \/ (\E d \in Matches : TakeQueue(r, d))
             \/ SendEmail(r) \/ SaveRunTime(r) \/ EndRun(r)
      PROVE  Others
  BY <1>8 DEF StartRun, ReadUsers, ReadQueues, TakeQueue, SendEmail, SaveRunTime, EndRun
<1>9. ASSUME NEW r \in Runners, FailRead(r) \/ FailSchedule(r) \/ CrashRun(r)
      PROVE  Others
  BY <1>9 DEF FailRead, FailSchedule, CrashRun
<1>10. ASSUME NEW u \in Users,
              OpenForm(u) \/ (\E choice \in Choices : SaveForm(u, choice)) \/ Disable(u)
       PROVE  Others
  BY <1>10 DEF OpenForm, SaveForm, Disable
<1>11. ASSUME LockExpires \/ Tick \/ UNCHANGED vars
       PROVE  Others
  BY <1>11 DEF LockExpires, Tick, vars
<1> HIDE DEF Others
<1> QED
  BY <1>1, <1>2, <1>3, <1>4, <1>5, <1>6, <1>7, <1>8, <1>9, <1>10, <1>11 DEF Next, NotifierStep, RunStep

\* A run that takes nothing more into its hands keeps them in order, whatever
\* is deleted or emailed meanwhile.
LEMMA HandsKept ==
    ASSUME NEW r \in Runners, ReadOK(r),
           docs' \subseteq docs, emailed \subseteq emailed',
           InHand(r)' \subseteq InHand(r), seen'[r] = seen[r],
           pc'[r] = "reset" /\ UserOf[cur'[r]] \in known'[r] => seen[r][cur'[r]] \subseteq emailed'
    PROVE  ReadOK(r)'
  BY DEF ReadOK

\* A run reads one document of a user, which stays the one in the queue, and
\* deletes it after the email.
LEMMA ReadInvStep ==
    ASSUME TypeOK, TaskInv, HomeInv, BatchInv, QueueInv, ReadInv, [Next]_vars
    PROVE  ReadInv'
<1> USE DEF Goto, queueVars, userVars, taskVars, lockVars, snapshotVars, runVars, mailVars
<1> DEFINE Others == docs' = docs /\ UNCHANGED <<pc, batch, cur, known, seen, emailed>>
<1>1. CASE Others
  BY <1>1 DEF ReadInv, ReadOK, InHand
<1>2. ASSUME NEW w \in Notifiers, CreateQueue(w) PROVE ReadInv'
  <2> DEFINE m == at[w]
  <2>1. docs' = docs \cup {m} /\ UNCHANGED <<pc, batch, cur, known, seen, emailed>>
    BY <1>2 DEF CreateQueue
  <2>2. home[m] = None /\ m \in Matches /\ m # None
    BY <1>2 DEF CreateQueue, TypeOK, TaskInv
  <2>3. \A r \in Runners : seen[r][m] = {}
    <3> SUFFICES ASSUME NEW r \in Runners, NEW x \in seen[r][m] PROVE FALSE
      OBVIOUS
    <3>1. x \in Matches /\ home[x] = m
      BY <2>2 DEF HomeInv, TypeOK
    <3>2. home[m] = m
      BY <2>2, <3>1 DEF HomeInv
    <3> QED
      BY <2>2, <3>2
  <2> QED
    BY <2>1, <2>3 DEF ReadInv, ReadOK, InHand
<1>3. ASSUME NEW r \in Runners, ReadQueues(r) PROVE ReadInv'
  <2>1. /\ UNCHANGED <<docs, cur, known, emailed>>
        /\ batch'[r] = docs /\ pc'[r] = "next"
        /\ \A q \in Runners : q # r => pc'[q] = pc[q] /\ batch'[q] = batch[q] /\ seen'[q] = seen[q]
    BY <1>3 DEF ReadQueues, TypeOK
  <2>2. ReadOK(r)'
    BY <2>1 DEF ReadOK, InHand, QueueInv
  <2>3. \A q \in Runners : q # r => ReadOK(q)'
    BY <2>1 DEF ReadInv, ReadOK, InHand
  <2> QED
    BY <2>2, <2>3 DEF ReadInv
<1>4. ASSUME NEW r \in Runners,
             \/ StartRun(r) \/ ReadUsers(r) \/ (\E d \in Matches : TakeQueue(r, d)) \/ SendEmail(r)
             \/ ResetQueue(r) \/ SaveRunTime(r) \/ EndRun(r)
             \/ FailRead(r) \/ FailSchedule(r) \/ CrashRun(r)
      PROVE  ReadInv'
  <2>1. /\ docs' \subseteq docs /\ emailed \subseteq emailed' /\ UNCHANGED seen
        /\ \A q \in Runners : q # r =>
              pc'[q] = pc[q] /\ batch'[q] = batch[q] /\ cur'[q] = cur[q] /\ known'[q] = known[q]
    BY <1>4 DEF StartRun, ReadUsers, TakeQueue, SendEmail, ResetQueue, SaveRunTime, EndRun,
       FailRead, FailSchedule, CrashRun, TypeOK
  <2>2. ASSUME NEW q \in Runners, q # r PROVE ReadOK(q)'
    <3>1. InHand(q)' = InHand(q)
      BY <2>1, <2>2 DEF InHand
    <3> QED
      BY <2>1, <2>2, <3>1, HandsKept DEF ReadInv, ReadOK
  <2>3. InHand(r)' \subseteq InHand(r)
    <3>1. CASE StartRun(r) \/ ReadUsers(r) \/ EndRun(r) \/ FailRead(r) \/ CrashRun(r)
      <4>1. batch'[r] \subseteq batch[r] /\ pc'[r] \notin {"email", "reset", "save"}
        BY <3>1 DEF StartRun, ReadUsers, EndRun, FailRead, CrashRun, TypeOK
      <4> QED
        BY <4>1 DEF InHand
    <3>2. CASE SendEmail(r) \/ ResetQueue(r) \/ SaveRunTime(r) \/ FailSchedule(r)
      <4>1. UNCHANGED <<batch, cur>> /\ pc[r] \in {"email", "reset", "save"}
        BY <3>2 DEF SendEmail, ResetQueue, SaveRunTime, FailSchedule
      <4> QED
        BY <4>1 DEF InHand
    <3>3. ASSUME NEW d \in Matches, TakeQueue(r, d) PROVE InHand(r)' \subseteq InHand(r)
      <4>1. batch'[r] = batch[r] \ {d} /\ cur'[r] = d /\ d \in batch[r]
        BY <3>3 DEF TakeQueue, TypeOK
      <4> QED
        BY <4>1 DEF InHand
    <3> QED
      BY <1>4, <3>1, <3>2, <3>3
  <2>4. pc'[r] = "reset" /\ UserOf[cur'[r]] \in known'[r] => seen[r][cur'[r]] \subseteq emailed'
    <3>1. CASE \/ StartRun(r) \/ ReadUsers(r) \/ ResetQueue(r) \/ SaveRunTime(r) \/ EndRun(r)
               \/ FailRead(r) \/ FailSchedule(r) \/ CrashRun(r)
      BY <3>1 DEF StartRun, ReadUsers, ResetQueue, SaveRunTime, EndRun, FailRead, FailSchedule, CrashRun, TypeOK
    <3>2. CASE SendEmail(r)
      BY <3>2 DEF SendEmail
    <3>3. ASSUME NEW d \in Matches, TakeQueue(r, d), pc'[r] = "reset"
          PROVE  UserOf[cur'[r]] \notin known'[r]
      BY <3>3 DEF TakeQueue, TypeOK
    <3> QED
      BY <1>4, <3>1, <3>2, <3>3
  <2>5. ReadOK(r)'
    BY <2>1, <2>3, <2>4, HandsKept DEF ReadInv
  <2> QED
    BY <2>2, <2>5 DEF ReadInv
<1>5. ASSUME NEW w \in Notifiers,
             \/ \E i \in Items : StartTask(w, i)
             \/ \E m \in Matches : FindQueue(w, m)
             \/ UpdateQueue(w) \/ LoseTask(w)
      PROVE  Others
  BY <1>5 DEF StartTask, FindQueue, UpdateQueue, LoseTask
<1>6. ASSUME NEW u \in Users,
             OpenForm(u) \/ (\E choice \in Choices : SaveForm(u, choice)) \/ Disable(u)
      PROVE  Others
  BY <1>6 DEF OpenForm, SaveForm, Disable
<1>7. ASSUME LockExpires \/ Tick \/ UNCHANGED vars
      PROVE  Others
  BY <1>7 DEF LockExpires, Tick, vars
<1> HIDE DEF Others
<1> QED
  BY <1>1, <1>2, <1>3, <1>4, <1>5, <1>6, <1>7 DEF Next, NotifierStep, RunStep

\* A step that takes a match from the queue is the deletion after the email, or
\* one of those that KeptUntilSent names.
LEMMA KeptStep ==
    ASSUME TypeOK, KeptInv, [Next]_vars, NEW m \in Matches, InQueue(m), ~InQueue(m)'
    PROVE  \/ m \in emailed
           \/ \E r \in Runners : pc[r] = "reset" /\ UserOf[cur[r]] = UserOf[m] /\
                 (UserOf[m] \notin known[r] \/ m \notin seen[r][home[m]])
<1> USE DEF queueVars, userVars, taskVars, lockVars, snapshotVars, runVars, mailVars
<1>1. PICK d \in docs : m \in content[d]
  BY DEF InQueue
<1>2. d \in Matches /\ home[m] = d /\ d # None /\ UserOf[d] = UserOf[m]
  BY <1>1, NoneAssumption DEF KeptInv, HomeInv, QueueInv, TypeOK
<1>3. ASSUME NEW w \in Notifiers, CreateQueue(w) PROVE FALSE
  <2>1. at[w] \in Matches /\ home[at[w]] = None
    BY <1>3 DEF CreateQueue, TypeOK, KeptInv, TaskInv
  <2>2. home[d] = d
    BY <1>1 DEF KeptInv, HomeInv
  <2>3. content'[d] = content[d] /\ d \in docs'
    BY <1>2, <1>3, <2>1, <2>2, <1>1 DEF CreateQueue, TypeOK
  <2> QED
    BY <1>1, <2>3 DEF InQueue
<1>4. ASSUME NEW w \in Notifiers, UpdateQueue(w) PROVE FALSE
  <2>1. found[w] \in docs => content[found[w]] \subseteq copy[w]
    BY <1>4 DEF UpdateQueue, KeptInv, QueueInv, UpToDate
  <2>2. docs' = docs /\ content[d] \subseteq content'[d]
    BY <1>2, <1>4, <2>1 DEF UpdateQueue, TypeOK
  <2> QED
    BY <1>1, <2>2 DEF InQueue
<1>5. ASSUME NEW r \in Runners, ResetQueue(r)
      PROVE  \/ m \in emailed
             \/ pc[r] = "reset" /\ UserOf[cur[r]] = UserOf[m] /\
                  (UserOf[m] \notin known[r] \/ m \notin seen[r][home[m]])
  <2>1. pc[r] = "reset" /\ UserOf[cur[r]] = UserOf[d]
    BY <1>1, <1>5 DEF ResetQueue, InQueue
  <2>2. ASSUME UserOf[m] \in known[r], m \in seen[r][d] PROVE m \in emailed
    <3>1. cur[r] \in InHand(r) /\ seen[r][cur[r]] \subseteq emailed
      BY <1>2, <2>1, <2>2 DEF KeptInv, ReadInv, ReadOK, InHand
    <3>2. d = cur[r]
      BY <1>1, <2>1, <2>2, <3>1 DEF KeptInv, ReadInv, ReadOK
    <3> QED
      BY <2>2, <3>1, <3>2
  <2> QED
    BY <1>2, <2>1, <2>2
<1>6. ASSUME UNCHANGED <<docs, content>> PROVE FALSE
  BY <1>6 DEF InQueue
<1>7. ASSUME NEW w \in Notifiers,
             \/ \E i \in Items : StartTask(w, i)
             \/ \E x \in Matches : FindQueue(w, x)
             \/ LoseTask(w)
      PROVE  UNCHANGED <<docs, content>>
  BY <1>7 DEF StartTask, FindQueue, LoseTask
<1>8. ASSUME NEW r \in Runners,
             \/ StartRun(r) \/ ReadUsers(r) \/ ReadQueues(r) \/ (\E x \in Matches : TakeQueue(r, x))
             \/ SendEmail(r) \/ SaveRunTime(r) \/ EndRun(r)
             \/ FailRead(r) \/ FailSchedule(r) \/ CrashRun(r)
      PROVE  UNCHANGED <<docs, content>>
  BY <1>8 DEF StartRun, ReadUsers, ReadQueues, TakeQueue, SendEmail, SaveRunTime, EndRun,
     FailRead, FailSchedule, CrashRun
<1>9. ASSUME NEW u \in Users,
             OpenForm(u) \/ (\E choice \in Choices : SaveForm(u, choice)) \/ Disable(u)
      PROVE  UNCHANGED <<docs, content>>
  BY <1>9 DEF OpenForm, SaveForm, Disable
<1>10. ASSUME LockExpires \/ Tick \/ UNCHANGED vars
       PROVE  UNCHANGED <<docs, content>>
  BY <1>10 DEF LockExpires, Tick, vars
<1> QED
  BY <1>3, <1>4, <1>5, <1>6, <1>7, <1>8, <1>9, <1>10 DEF Next, NotifierStep, RunStep

\* The parts of KeptInv carry each other.
LEMMA KeptInvStep ==
    ASSUME \A v, w \in Notifiers : v = w, TypeOK, KeptInv, [Next]_vars
    PROVE  KeptInv'
  BY TaskInvStep, HomeInvStep, BatchInvStep, QueueInvStep, ReadInvStep DEF KeptInv

LEMMA KeptInvInit == Init => KeptInv
  BY MatchesAssumption DEF Init, KeptInv, TaskInv, HomeInv, BatchInv, QueueInv, ReadInv, ReadOK, InHand

\* With one worker that queues, a match leaves the queue only after its email,
\* with a disabled user, or because it came after the run had read the queue,
\* whatever fails, dies, expires or overruns.
THEOREM NothingUnsent ==
    ASSUME \A v, w \in Notifiers : v = w
    PROVE  Spec => KeptUntilSent
<1> DEFINE Kept == \A m \in Matches : InQueue(m) /\ ~InQueue(m)' =>
        \/ m \in emailed
        \/ \E r \in Runners : pc[r] = "reset" /\ UserOf[cur[r]] = UserOf[m] /\
              (UserOf[m] \notin known[r] \/ m \notin seen[r][home[m]])
<1>1. TypeOK /\ KeptInv /\ [Next]_vars => KeptInv'
  BY KeptInvStep
<1>2. TypeOK /\ KeptInv /\ [Next]_vars => [Kept]_vars
  BY KeptStep
<1>3. KeptUntilSent <=> [][Kept]_vars
  BY DEF KeptUntilSent
<1> HIDE DEF Kept
<1> QED
  BY <1>1, <1>2, <1>3, KeptInvInit, TypeCorrect, PTL DEF Spec

-----------------------------------------------------------------------------
(* One email for a time *)

\* Who was emailed in the slot is recorded as served, or about to be, and no
\* run has him ahead.
LEMMA SlotInvStep ==
    ASSUME "overrun" \notin Faults, \A u \in Users : Times[u] \notin Choices,
           TypeOK, RunInv, BatchInv, ReadInv, SlotInv, [Next]_vars
    PROVE  SlotInv'
<1> USE DEF Goto, queueVars, userVars, taskVars, lockVars, snapshotVars, runVars, mailVars
<1> DEFINE Clean == faults = 0 /\ wanted = Times
           DuesOK == \A r \in Runners :
                        /\ due[r] \subseteq known[r]
                        /\ pc[r] = "email" => UserOf[cur[r]] \in due[r]
           Recorded == \A u \in mailed : u \notin served =>
                        \E r \in Runners : pc[r] \in {"reset", "save"} /\ UserOf[cur[r]] = u /\ u \in known[r]
           NotAhead == \A r \in onTime : due[r] \cap mailed \cap Ahead(r) = {}
           Others == UNCHANGED <<wanted, faults, served, pc, cur, known, due, batch, mailed, twice, onTime>>
<1>1. CASE Others
  BY <1>1 DEF SlotInv, Ahead
<1>2. ASSUME NEW r \in Runners, FailRead(r) \/ FailSchedule(r) \/ CrashRun(r) PROVE SlotInv'
  <2>1. faults' # 0 /\ UNCHANGED <<cur, known, due>>
    BY <1>2 DEF FailRead, FailSchedule, CrashRun, TypeOK
  <2>2. \A q \in Runners : pc'[q] = "email" => pc[q] = "email"
    BY <1>2 DEF FailRead, FailSchedule, CrashRun, TypeOK
  <2> QED
    BY <2>1, <2>2 DEF SlotInv
<1>3. ASSUME NEW u \in Users, NEW choice \in Choices, SaveForm(u, choice) PROVE SlotInv'
  <2>1. wanted'[u] = choice
    BY <1>3 DEF SaveForm, TypeOK
  <2>2. wanted' # Times /\ UNCHANGED <<pc, cur, known, due>>
    BY <1>3, <2>1 DEF SaveForm
  <2> QED
    BY <2>2 DEF SlotInv
<1>4. ASSUME Tick PROVE SlotInv'
  <2>1. mailed' = {} /\ onTime' = {} /\ UNCHANGED <<wanted, faults, pc, cur, known, due, twice>>
    BY <1>4 DEF Tick
  <2> QED
    BY <2>1 DEF SlotInv
<1>5. ASSUME NEW r \in Runners, StartRun(r) \/ EndRun(r) PROVE SlotInv'
  <2>1. /\ UNCHANGED <<wanted, faults, served, cur, known, due, batch, mailed, twice>>
        /\ onTime' \subseteq onTime
        /\ pc[r] \in {"idle", "next"} /\ pc'[r] \in {"idle", "users"}
        /\ \A q \in Runners : q # r => pc'[q] = pc[q]
    BY <1>5 DEF StartRun, EndRun, TypeOK
  <2>2. \A q \in Runners : Ahead(q)' \subseteq Ahead(q)
    BY <2>1 DEF Ahead
  <2>3. DuesOK'
    BY <2>1 DEF SlotInv
  <2>4. ASSUME Clean PROVE Recorded' /\ NotAhead' /\ twice' = {}
    BY <2>1, <2>2, <2>4 DEF SlotInv, TypeOK
  <2> QED
    BY <2>1, <2>3, <2>4 DEF SlotInv
<1>6. ASSUME NEW r \in Runners, ReadUsers(r) PROVE SlotInv'
  <2>1. /\ UNCHANGED <<wanted, faults, served, cur, batch, mailed, twice>>
        /\ onTime' = onTime \cup {r}
        /\ pc[r] = "users" /\ pc'[r] = "queues"
        /\ due'[r] \subseteq known'[r] /\ due'[r] \cap served = {}
        /\ \A q \in Runners : q # r => pc'[q] = pc[q] /\ known'[q] = known[q] /\ due'[q] = due[q]
    BY <1>6 DEF ReadUsers, IsDue, TypeOK
  <2>2. \A q \in Runners : q # r => pc[q] = "idle"
    BY <2>1 DEF RunInv
  <2>3. DuesOK'
    BY <2>1 DEF SlotInv
  <2>4. ASSUME Clean PROVE Recorded' /\ NotAhead' /\ twice' = {}
    <3>1. mailed \subseteq served
      BY <2>1, <2>2, <2>4 DEF SlotInv
    <3>2. \A q \in Runners : q # r => Ahead(q)' = Ahead(q)
      BY <2>1 DEF Ahead
    <3> QED
      BY <2>1, <2>4, <3>1, <3>2 DEF SlotInv, TypeOK
  <2> QED
    BY <2>1, <2>3, <2>4 DEF SlotInv
<1>7. ASSUME NEW r \in Runners, ReadQueues(r) \/ (\E d \in Matches : TakeQueue(r, d)) PROVE SlotInv'
  <2>1. /\ UNCHANGED <<wanted, faults, served, known, due, mailed, twice, onTime>>
        /\ pc[r] \in {"queues", "next"}
        /\ \A q \in Runners : q # r => pc'[q] = pc[q] /\ cur'[q] = cur[q] /\ batch'[q] = batch[q]
    BY <1>7 DEF ReadQueues, TakeQueue, TypeOK
  <2>2. Ahead(r)' \subseteq Ahead(r)
    <3>1. CASE ReadQueues(r)
      BY <3>1 DEF ReadQueues, Ahead
    <3>2. ASSUME NEW d \in Matches, TakeQueue(r, d) PROVE Ahead(r)' \subseteq Ahead(r)
      <4>1. d \in batch[r] /\ batch'[r] = batch[r] \ {d} /\ cur'[r] = d /\ pc'[r] # "queues"
        BY <3>2 DEF TakeQueue, TypeOK
      <4> QED
        BY <4>1 DEF Ahead
    <3> QED
      BY <1>7, <3>1, <3>2
  <2>3. pc'[r] = "email" => UserOf[cur'[r]] \in due'[r]
    BY <1>7 DEF ReadQueues, TakeQueue, TypeOK
  <2>4. DuesOK'
    BY <2>1, <2>3 DEF SlotInv
  <2>5. \A q \in Runners : q # r => Ahead(q)' = Ahead(q)
    BY <2>1 DEF Ahead
  <2>6. ASSUME Clean PROVE Recorded' /\ NotAhead' /\ twice' = {}
    <3>1. Recorded'
      BY <2>1, <2>6 DEF SlotInv
    <3>2. NotAhead'
      <4>1. \A q \in Runners : Ahead(q)' \subseteq Ahead(q)
        BY <2>2, <2>5
      <4> QED
        BY <2>1, <2>6, <4>1 DEF SlotInv, TypeOK
    <3> QED
      BY <2>1, <2>6, <3>1, <3>2 DEF SlotInv
  <2> QED
    BY <2>1, <2>4, <2>6 DEF SlotInv
<1>8. ASSUME NEW r \in Runners, SendEmail(r) PROVE SlotInv'
  <2> DEFINE u == UserOf[cur[r]]
  <2>1. /\ UNCHANGED <<wanted, faults, served, cur, known, due, batch, onTime>>
        /\ pc[r] = "email" /\ pc'[r] = "reset"
        /\ \A q \in Runners : q # r => pc'[q] = pc[q] /\ pc[q] = "idle" /\ batch[q] = {}
        /\ mailed' = mailed \/ (r \in onTime /\ mailed' = mailed \cup {u})
        /\ twice' = twice \/ (r \in onTime /\ twice' = twice \cup (mailed \cap {u}))
    BY <1>8 DEF SendEmail, RunInv, BatchInv, TypeOK
  <2>2. u \in Users /\ u \in due[r] /\ u \in known[r] /\ u \in Ahead(r)
    BY <2>1, MatchesAssumption DEF SlotInv, Ahead, TypeOK
  <2>3. Ahead(r)' \subseteq Ahead(r) \ {u}
    <3>1. ASSUME NEW d \in batch[r] PROVE UserOf[d] # u
      BY <2>1, <3>1 DEF ReadInv, ReadOK, InHand, BatchInv
    <3> QED
      BY <2>1, <3>1 DEF Ahead
  <2>4. \A q \in Runners : q # r => Ahead(q)' = {}
    BY <2>1 DEF Ahead
  <2>5. DuesOK'
    BY <2>1 DEF SlotInv
  <2>6. ASSUME Clean PROVE Recorded' /\ NotAhead' /\ twice' = {}
    <3>1. r \in onTime => u \notin mailed
      BY <2>2, <2>6 DEF SlotInv
    <3>2. twice' = {}
      BY <2>1, <2>6, <3>1 DEF SlotInv
    <3>3. NotAhead'
      BY <2>1, <2>3, <2>4, <2>6 DEF SlotInv, TypeOK
    <3>4. Recorded'
      BY <2>1, <2>2, <2>6 DEF SlotInv
    <3> QED
      BY <3>2, <3>3, <3>4
  <2> QED
    BY <2>1, <2>5, <2>6 DEF SlotInv
<1>9. ASSUME NEW r \in Runners, ResetQueue(r) \/ SaveRunTime(r) PROVE SlotInv'
  <2>1. /\ UNCHANGED <<wanted, faults, cur, known, due, batch, mailed, twice, onTime>>
        /\ pc[r] \in {"reset", "save"} /\ pc'[r] \in {"save", "next"}
        /\ \A q \in Runners : q # r => pc'[q] = pc[q]
        /\ served \subseteq served'
        /\ UserOf[cur[r]] \in known[r] => pc'[r] = "save" \/ UserOf[cur[r]] \in served'
    BY <1>9 DEF ResetQueue, SaveRunTime, TypeOK
  <2>2. \A q \in Runners : Ahead(q)' \subseteq Ahead(q)
    BY <2>1 DEF Ahead
  <2>3. DuesOK'
    BY <2>1 DEF SlotInv
  <2>4. ASSUME Clean PROVE Recorded' /\ NotAhead' /\ twice' = {}
    <3>1. Recorded'
      BY <2>1, <2>4 DEF SlotInv
    <3> QED
      BY <2>1, <2>2, <2>4, <3>1 DEF SlotInv, TypeOK
  <2> QED
    BY <2>1, <2>3, <2>4 DEF SlotInv
<1>10. ASSUME NEW w \in Notifiers,
              \/ \E i \in Items : StartTask(w, i)
              \/ NotifierStep(w) \/ LoseTask(w)
       PROVE  Others
  BY <1>10 DEF StartTask, NotifierStep, FindQueue, CreateQueue, UpdateQueue, LoseTask
<1>11. ASSUME NEW u \in Users, OpenForm(u) \/ Disable(u) PROVE Others
  BY <1>11 DEF OpenForm, Disable
<1>12. ASSUME LockExpires \/ UNCHANGED vars PROVE Others
  BY <1>12 DEF LockExpires, vars
<1> HIDE DEF Others
<1> QED
  BY <1>1, <1>2, <1>3, <1>4, <1>5, <1>6, <1>7, <1>8, <1>9, <1>10, <1>11, <1>12 DEF Next, RunStep

\* With one worker that queues and no overrunning runs, nobody is emailed twice
\* for a time, as long as no run fails and nobody takes other times.
THEOREM OneEmailForATime ==
    ASSUME \A v, w \in Notifiers : v = w, "overrun" \notin Faults,
           \A u \in Users : Times[u] \notin Choices
    PROVE  Spec => []OneEmailPerSlot
<1>1. Init => OnceInv
  BY KeptInvInit DEF Init, OnceInv, RunInv, SlotInv, Ahead
<1>2. TypeOK /\ OnceInv /\ [Next]_vars => OnceInv'
  <2> SUFFICES ASSUME TypeOK, OnceInv, [Next]_vars PROVE OnceInv'
    OBVIOUS
  <2>1. RunInv'
    BY RunInvStep DEF OnceInv
  <2>2. KeptInv'
    BY KeptInvStep DEF OnceInv
  <2>3. SlotInv'
    BY SlotInvStep DEF OnceInv, KeptInv
  <2> QED
    BY <2>1, <2>2, <2>3 DEF OnceInv
<1>3. OnceInv => OneEmailPerSlot
  BY DEF OnceInv, SlotInv, OneEmailPerSlot
<1> QED
  BY <1>1, <1>2, <1>3, TypeCorrect, PTL DEF Spec
=============================================================================
