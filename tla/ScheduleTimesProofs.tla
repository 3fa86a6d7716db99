------------------------- MODULE ScheduleTimesProofs -------------------------
(***************************************************************************)
(* Theorems of ScheduleTimes, for every length of the day and every choice *)
(* of the periods and limits.                                              *)
(***************************************************************************)
EXTENDS ScheduleTimes, TLAPS

\* The constants and the present minute are numbers.
LEMMA Constants ==
    /\ {Day, Period, Window, RunLimit, Grain, Horizon} \subseteq Nat \ {0} /\ MaxHands \in Nat
    /\ Period <= Window /\ Window <= Grain /\ Window + RunLimit <= Grain /\ Window <= RunLimit
    /\ Never = -1 /\ Never \notin Workers
  BY MinutesAssumption, RunsFit DEF Never

\* What a run looks at are minutes it is not too early for.
LEMMA WindowBounds ==
    ASSUME NEW m \in Nat, NEW s \in InWindow(m)
    PROVE  s \in Int /\ s <= m /\ m < s + Window
<1>1. s \in Int
  <2>1. m % Day \in Int
    BY MinutesAssumption
  <2>2. \A t \in ChosenTimes : t \in Int
    BY MinutesAssumption
  <2> QED
    BY <2>1, <2>2 DEF InWindow, ScheduleTimes
<1>2. 0 <= m - s /\ m - s < Window
  BY DEF InWindow
<1> QED
  BY <1>1, <1>2, Constants

\* They are not before midnight.
LEMMA WindowIsPast ==
    ASSUME NEW m \in Nat, NEW s \in ScheduleTimes(m), s <= m
    PROVE  s \in 0 .. m
<1>1. m % Day \in 0 .. Day - 1 /\ m % Day <= m
  <2>1. Day \in Nat \ {0}
    BY Constants
  <2> QED
    BY <2>1
<1>2. \A t \in ChosenTimes : t \in Nat
  BY MinutesAssumption
<1> QED
  BY <1>1, <1>2 DEF ScheduleTimes

LEMMA InWindowIsPast ==
    ASSUME NEW m \in Nat
    PROVE  InWindow(m) \subseteq 0 .. m
  BY WindowBounds, WindowIsPast DEF InWindow

\* What a failure leaves of the histories.
LEMMA UndoneTypes ==
    ASSUME TypeOK, NEW p \in Workers, at[p] # "idle", Undone(p)
    PROVE  excused' \cup unsaved' \subseteq 0 .. minute
<1>1. run[p] \in 0 .. minute
  BY DEF TypeOK
<1>2. at[p] \in {"due", "emailed"} => due[p] \in 0 .. minute
  BY DEF TypeOK
<1>3. InWindow(run[p]) \subseteq 0 .. minute
  BY <1>1, InWindowIsPast DEF TypeOK
<1>4. CASE at[p] = "begun"
  BY <1>3, <1>4 DEF Undone, TypeOK
<1>5. CASE at[p] # "begun"
  BY <1>2, <1>5 DEF Undone, TypeOK
<1> QED
  BY <1>4, <1>5

\* Every reachable state is well typed: no run serves a time that is yet to come.
THEOREM TypeCorrect == Spec => []TypeOK
<1>1. Init => TypeOK
  BY Constants DEF Init, TypeOK
<1>2. TypeOK /\ [Next]_vars => TypeOK'
  <2> SUFFICES ASSUME TypeOK, [Next]_vars PROVE TypeOK'
    OBVIOUS
  <2> USE DEF clockVars, runVars, lockVars, userVars, histVars
  <2>1. ASSUME Send PROVE TypeOK'
    BY <2>1 DEF Send, TypeOK
  <2>2. ASSUME Lose PROVE TypeOK'
    BY <2>2 DEF Lose, TypeOK
  <2>3. ASSUME NEW p \in Workers, Begin(p), waiting' \in {waiting, Never}, hands' \in 0 .. MaxHands PROVE TypeOK'
    BY <2>3, Constants DEF Begin, TypeOK
  <2>4. ASSUME NEW p \in Workers, Start(p), ~Begin(p) PROVE TypeOK'
    BY <2>4 DEF Start, TypeOK
  <2>5. ASSUME NEW p \in Workers, Read(p) PROVE TypeOK'
    <3>1. run[p] \in 0 .. minute /\ run[p] # Never
      BY <2>5 DEF Read, TypeOK
    <3>2. InWindow(run[p]) \subseteq 0 .. minute /\ DueTimes(run[p]) \subseteq 0 .. minute
      BY <3>1, InWindowIsPast DEF DueTimes, TypeOK
    <3>3. excused' \subseteq 0 .. minute
      BY <2>5, <3>2 DEF Read, TypeOK
    <3>4. ASSUME NEW s \in DueTimes(run[p]), due' = [due EXCEPT ![p] = s] PROVE TypeOK'
      BY <2>5, <3>2, <3>3, <3>4, Constants DEF Read, TypeOK
    <3>5. CASE UNCHANGED due /\ at' = [at EXCEPT ![p] = "ending"]
      BY <2>5, <3>3, <3>5 DEF Read, TypeOK
    <3> QED
      BY <2>5, <3>4, <3>5 DEF Read
  <2>6. ASSUME NEW p \in Workers, Email(p) PROVE TypeOK'
    BY <2>6 DEF Email, TypeOK
  <2>7. ASSUME NEW p \in Workers, Save(p) PROVE TypeOK'
    BY <2>7, Constants DEF Save, TypeOK
  <2>8. ASSUME NEW p \in Workers, Fail(p) PROVE TypeOK'
    BY <2>8, UndoneTypes DEF Fail, TypeOK
  <2>9. ASSUME NEW p \in Workers, Finish(p) PROVE TypeOK'
    BY <2>9 DEF Finish, TypeOK
  <2>10. ASSUME NEW p \in Workers, Crash(p) PROVE TypeOK'
    BY <2>10, UndoneTypes DEF Crash, TypeOK
  <2>11. ASSUME LockExpires PROVE TypeOK'
    BY <2>11 DEF LockExpires, TypeOK
  <2>12. ASSUME Tick PROVE TypeOK'
    <3>1. minute' \in 0 .. Horizon /\ minute' = minute + 1 /\ minute \in Nat
      BY <2>12, Constants DEF Tick, TypeOK
    <3>2. {minute'} \cap ScheduleTimes(minute') \subseteq 0 .. minute'
      BY <3>1
    <3>3. excused' \subseteq 0 .. minute'
      BY <2>12, <3>1, <3>2 DEF Tick, TypeOK
    <3> QED
      BY <2>12, <3>1, <3>3 DEF Tick, TypeOK
  <2>13. CASE UNCHANGED vars
    BY <2>13 DEF vars, TypeOK
  <2>14. ASSUME NEW p \in Workers, Start(p) \/ StartByHand(p) PROVE TypeOK'
    <3>1. hands' \in 0 .. MaxHands /\ waiting' \in {waiting, Never}
      BY <2>14, Constants DEF Start, StartByHand, TypeOK
    <3> QED
      BY <2>3, <2>4, <2>14, <3>1 DEF StartByHand
  <2> QED
    BY <2>1, <2>2, <2>5, <2>6, <2>7, <2>8, <2>9, <2>10, <2>11, <2>12, <2>13, <2>14 DEF Next
<1> QED
  BY <1>1, <1>2, PTL DEF Spec

-----------------------------------------------------------------------------

-----------------------------------------------------------------------------

(* What the actions leave alone. *)

\* A message that is sent, lost or given up.
LEMMA MessagesOnly ==
    ASSUME NEW p \in Workers, Send \/ Lose \/ (Start(p) /\ ~Begin(p)) \/ UNCHANGED vars
    PROVE  UNCHANGED <<minute, runVars, lockVars, userVars, unsaved>>
  BY DEF Send, Lose, Start, vars, clockVars, runVars, lockVars, userVars, histVars

\* A run that goes on.
LEMMA RunGoesOn ==
    ASSUME TypeOK, NEW p \in Workers, Read(p) \/ Email(p) \/ Save(p) \/ Fail(p)
    PROVE  /\ UNCHANGED <<clockVars, run, lockVars>>
           /\ \A q \in Workers : at'[q] = "idle" <=> at[q] = "idle"
           /\ \A q \in Workers : q # p => at'[q] = at[q] /\ due'[q] = due[q]
<1>1. UNCHANGED <<clockVars, run, lockVars>>
  BY DEF Read, Email, Save, Fail
<1>2. at[p] # "idle" /\ \E a \in {"due", "emailed", "ending"} : at' = [at EXCEPT ![p] = a]
  BY DEF Read, Email, Save, Fail
<1>3. UNCHANGED due \/ \E d : due' = [due EXCEPT ![p] = d]
  BY DEF Read, Email, Save, Fail
<1> QED
  BY <1>1, <1>2, <1>3 DEF TypeOK

\* A run that ends.
LEMMA RunEnds ==
    ASSUME TypeOK, NEW p \in Workers, Finish(p) \/ Crash(p)
    PROVE  /\ UNCHANGED <<clockVars, userVars>>
           /\ at[p] # "idle" /\ at' = [at EXCEPT ![p] = "idle"] /\ run' = [run EXCEPT ![p] = Never]
           /\ due' = [due EXCEPT ![p] = Never]
           /\ UNCHANGED lockVars \/ (lock = p /\ lock' = Never /\ taken' = Never)
<1>1. CASE Finish(p)
  <2>1. due[p] = Never
    BY <1>1 DEF Finish, TypeOK
  <2>2. due' = [due EXCEPT ![p] = Never]
    BY <1>1, <2>1 DEF Finish, TypeOK
  <2> QED
    BY <1>1, <2>2 DEF Finish, lockVars
<1>2. CASE Crash(p)
  BY <1>2 DEF Crash
<1> QED
  BY <1>1, <1>2

LEMMA RunBegins ==
    ASSUME TypeOK, NEW p \in Workers, Begin(p)
    PROVE  /\ UNCHANGED <<minute, beat, due, userVars, histVars>>
           /\ lock = Never /\ lock' = p /\ taken' = minute
           /\ at[p] = "idle" /\ due[p] = Never
           /\ at'[p] = "begun" /\ run'[p] = minute
           /\ \A q \in Workers : q # p => at'[q] = at[q] /\ run'[q] = run[q]
  BY DEF Begin, TypeOK

\* The kinds of steps there are.
LEMMA Steps ==
    ASSUME [Next]_vars
    PROVE  \/ Send \/ Lose \/ UNCHANGED vars
           \/ LockExpires
           \/ Tick
           \/ \E p \in Workers : \/ Start(p) /\ ~Begin(p)
                                 \/ Begin(p)
                                 \/ Read(p) \/ Email(p) \/ Save(p) \/ Fail(p)
                                 \/ Finish(p) \/ Crash(p)
  BY DEF Next, StartByHand

-----------------------------------------------------------------------------

LEMMA LockInvStep ==
    ASSUME TypeOK, LockInv, [Next]_vars
    PROVE  LockInv'
<1> USE DEF LockInv, clockVars, runVars, lockVars
<1>1. CASE Send \/ Lose \/ UNCHANGED vars \/ \E p \in Workers : Start(p) /\ ~Begin(p)
  BY <1>1 DEF Send, Lose, Start, vars
<1>2. ASSUME NEW p \in Workers, Begin(p) PROVE LockInv'
  <2> SUFFICES ASSUME NEW q \in Workers, at'[q] # "idle"
               PROVE  (lock' = q /\ taken' = run'[q]) \/ run'[q] + RunLimit <= minute'
    OBVIOUS
  <2> QED
    BY <1>2, RunBegins, Constants
<1>3. ASSUME NEW p \in Workers, Read(p) \/ Email(p) \/ Save(p) \/ Fail(p) PROVE LockInv'
  BY <1>3, RunGoesOn
<1>4. ASSUME NEW p \in Workers, Finish(p) \/ Crash(p) PROVE LockInv'
  BY <1>4, RunEnds DEF TypeOK
<1>5. CASE LockExpires
  BY <1>5 DEF LockExpires, TypeOK
<1>6. CASE Tick
  <2>1. \A q \in Workers : at[q] # "idle" => run[q] \in Int
    BY Constants DEF TypeOK
  <2> QED
    BY <1>6, <2>1, Constants DEF Tick, TypeOK
<1> QED
  BY <1>1, <1>2, <1>3, <1>4, <1>5, <1>6, Steps

LEMMA ApartInvStep ==
    ASSUME TypeOK, LockInv, ApartInv, [Next]_vars
    PROVE  ApartInv'
<1> USE DEF ApartInv, clockVars, runVars, lockVars
<1>1. CASE Send \/ Lose \/ UNCHANGED vars \/ LockExpires \/ Tick \/ \E p \in Workers : Start(p) /\ ~Begin(p)
  BY <1>1 DEF Send, Lose, Start, vars, LockExpires, Tick
<1>2. ASSUME NEW p \in Workers, Begin(p) PROVE ApartInv'
  <2>1. \A q \in Workers : at[q] # "idle" => run[q] + RunLimit <= minute
    BY <1>2, RunBegins, Constants DEF LockInv
  <2> QED
    BY <1>2, <2>1, RunBegins
<1>3. ASSUME NEW p \in Workers, Read(p) \/ Email(p) \/ Save(p) \/ Fail(p) PROVE ApartInv'
  BY <1>3, RunGoesOn
<1>4. ASSUME NEW p \in Workers, Finish(p) \/ Crash(p) PROVE ApartInv'
  BY <1>4, RunEnds DEF TypeOK
<1> QED
  BY <1>1, <1>2, <1>3, <1>4, Steps

LEMMA DueInvStep ==
    ASSUME TypeOK, DueInv, [Next]_vars
    PROVE  DueInv'
<1> USE DEF DueInv, clockVars, runVars, lockVars
<1>1. CASE Send \/ Lose \/ UNCHANGED vars \/ LockExpires \/ Tick \/ \E p \in Workers : Start(p) /\ ~Begin(p)
  BY <1>1 DEF Send, Lose, Start, vars, LockExpires, Tick
<1>2. ASSUME NEW p \in Workers, Begin(p) PROVE DueInv'
  BY <1>2, RunBegins
<1>3. ASSUME NEW p \in Workers, Read(p) \/ Email(p) \/ Save(p) \/ Fail(p) PROVE DueInv'
  <2>1. UNCHANGED run /\ \A q \in Workers : q # p => due'[q] = due[q]
    BY <1>3, RunGoesOn
  <2>2. due'[p] \in {Never, due[p]} \cup DueTimes(run[p])
    BY <1>3 DEF Read, Email, Save, Fail, TypeOK
  <2>3. DueTimes(run[p]) \subseteq InWindow(run[p])
    BY DEF DueTimes
  <2> QED
    BY <2>1, <2>2, <2>3
<1>4. ASSUME NEW p \in Workers, Finish(p) \/ Crash(p) PROVE DueInv'
  BY <1>4, RunEnds DEF TypeOK
<1> QED
  BY <1>1, <1>2, <1>3, <1>4, Steps

\* Two runs that are under way do not begin in the window of one time.
LEMMA OneInWindow ==
    ASSUME TypeOK, ApartInv, NEW p \in Workers, NEW q \in Workers, at[p] # "idle", at[q] # "idle",
           NEW s \in InWindow(run[p]), s \in InWindow(run[q])
    PROVE  p = q
<1>1. run[p] \in Nat /\ run[q] \in Nat
  BY DEF TypeOK
<1>2. s \in Int /\ s <= run[p] /\ run[p] < s + Window /\ s <= run[q] /\ run[q] < s + Window
  BY <1>1, WindowBounds
<1> QED
  BY <1>1, <1>2, Constants DEF ApartInv

LEMMA ServedInvStep ==
    ASSUME TypeOK, ApartInv, DueInv, ServedInv, ServedOnce, [Next]_vars
    PROVE  ServedInv' /\ ServedOnce'
<1> USE DEF ServedInv, ServedOnce, clockVars, runVars, lockVars, userVars, histVars
<1>1. CASE Send \/ Lose \/ UNCHANGED vars \/ LockExpires \/ Tick \/ \E p \in Workers : Start(p) /\ ~Begin(p)
  BY <1>1 DEF Send, Lose, Start, vars, LockExpires, Tick
<1>2. ASSUME NEW p \in Workers, Begin(p) PROVE ServedInv' /\ ServedOnce'
  BY <1>2, RunBegins
<1>3. ASSUME NEW p \in Workers, Read(p) PROVE ServedInv' /\ ServedOnce'
  <2>1. UNCHANGED <<lastRun, served, twice, unsaved>> /\ at[p] = "begun" /\ at'[p] \in {"due", "ending"}
    BY <1>3 DEF Read, TypeOK
  <2>2. ASSUME at'[p] = "due" PROVE due'[p] \notin served \ unsaved
    <3>1. PICK s \in DueTimes(run[p]) : due'[p] = s
      BY <1>3, <2>2 DEF Read, TypeOK
    <3>2. s \in InWindow(run[p]) /\ lastRun < s
      BY DEF DueTimes
    <3>3. run[p] \in Nat /\ s \in Int
      BY <2>1, <3>2, WindowBounds DEF TypeOK
    <3>4. ASSUME s \in served, s \notin unsaved PROVE FALSE
      <4>1. lastRun \in Int
        BY Constants DEF TypeOK
      <4>2. PICK q \in Workers : at[q] = "emailed" /\ due[q] = s
        BY <3>2, <3>3, <3>4, <4>1
      <4>3. s \in InWindow(run[q])
        BY <4>2 DEF DueInv, TypeOK
      <4> QED
        BY <2>1, <3>2, <4>2, <4>3, OneInWindow
    <3> QED
      BY <3>1, <3>4
  <2>3. \A q \in Workers : q # p => at'[q] = at[q] /\ due'[q] = due[q]
    BY <1>3, RunGoesOn
  <2> QED
    BY <2>1, <2>2, <2>3
<1>4. ASSUME NEW p \in Workers, Email(p) PROVE ServedInv' /\ ServedOnce'
  <2>1. at[p] = "due" /\ at'[p] = "emailed" /\ due' = due /\ due[p] # Never
    BY <1>4 DEF Email, TypeOK
  <2>2. \A q \in Workers : q # p => at'[q] = at[q]
    BY <1>4, RunGoesOn
  <2>3. ASSUME NEW q \in Workers, q # p, at[q] = "due" PROVE due[q] # due[p]
    <3>1. due[q] \in InWindow(run[q]) /\ due[p] \in InWindow(run[p])
      BY <2>1, <2>3 DEF DueInv, TypeOK
    <3> QED
      BY <2>1, <2>3, <3>1, OneInWindow
  <2>4. served' = served \cup {due[p]} /\ UNCHANGED <<lastRun, unsaved>>
        /\ twice' = twice \cup ({due[p]} \cap served)
    BY <1>4 DEF Email
  <2>5. due[p] \notin served \ unsaved
    BY <2>1
  <2>6. ServedOnce'
    BY <2>4, <2>5
  <2> QED
    BY <2>1, <2>2, <2>3, <2>4, <2>6
<1>5. ASSUME NEW p \in Workers, Save(p) PROVE ServedInv' /\ ServedOnce'
  <2>1. lastRun' = minute /\ UNCHANGED <<served, twice, unsaved>> /\ at'[p] = "ending"
    BY <1>5 DEF Save, TypeOK
  <2>2. \A q \in Workers : q # p => at'[q] = at[q] /\ due'[q] = due[q]
    BY <1>5, RunGoesOn
  <2>3. \A s \in served : s <= minute
    BY DEF TypeOK
  <2> QED
    BY <2>1, <2>2, <2>3
<1>6. ASSUME NEW p \in Workers, Fail(p) \/ Crash(p) PROVE ServedInv' /\ ServedOnce'
  <2>1. at'[p] \in {"ending", "idle"} /\ UNCHANGED <<lastRun, served, twice>> /\ Undone(p)
    BY <1>6 DEF Fail, Crash, TypeOK
  <2>2. \A q \in Workers : q # p => at'[q] = at[q] /\ due'[q] = due[q]
    BY <1>6 DEF Fail, Crash, TypeOK
  <2>3. unsaved \subseteq unsaved' /\ (at[p] = "emailed" => due[p] \in unsaved')
    BY <2>1 DEF Undone
  <2> QED
    BY <2>1, <2>2, <2>3
<1>7. ASSUME NEW p \in Workers, Finish(p) PROVE ServedInv' /\ ServedOnce'
  <2>1. at[p] = "ending" /\ at'[p] = "idle" /\ UNCHANGED <<due, lastRun, served, twice, unsaved>>
    BY <1>7 DEF Finish, TypeOK
  <2>2. \A q \in Workers : q # p => at'[q] = at[q]
    BY <1>7 DEF Finish, TypeOK
  <2> QED
    BY <2>1, <2>2
<1> QED
  BY <1>1, <1>2, <1>3, <1>4, <1>5, <1>6, <1>7, Steps

LEMMA OnceInvHolds == Spec => [](TypeOK /\ OnceInv /\ ServedOnce)
<1>1. Init => OnceInv /\ ServedOnce
  BY Constants DEF Init, OnceInv, LockInv, ApartInv, DueInv, ServedInv, ServedOnce
<1>2. TypeOK /\ OnceInv /\ ServedOnce /\ [Next]_vars => (OnceInv /\ ServedOnce)'
  BY LockInvStep, ApartInvStep, DueInvStep, ServedInvStep DEF OnceInv
<1> QED
  BY <1>1, <1>2, TypeCorrect, PTL DEF Spec

\* No user is sent two emails for a time he has chosen, whatever the times, however
\* late the runs are, however long they last and whoever starts them, but where a run
\* has failed or died between his email and his last_run_time.
THEOREM ServedOnlyOnce == Spec => []ServedOnce
  BY OnceInvHolds, PTL

-----------------------------------------------------------------------------

\* Division with remainder.
LEMMA DivMod ==
    ASSUME NEW d \in Nat \ {0}, NEW a \in Int
    PROVE  /\ a \div d \in Int /\ a % d \in 0 .. d - 1
           /\ a = d * (a \div d) + (a % d)
  OBVIOUS

LEMMA ModUnique ==
    ASSUME NEW d \in Nat \ {0}, NEW k \in Int, NEW r \in 0 .. d - 1
    PROVE  (d * k + r) % d = r
  OBVIOUS

LEMMA Multiple ==
    ASSUME NEW d \in Nat \ {0}, NEW a \in Int, a % d = 0
    PROVE  \E k \in Int : a = d * k
<1> DEFINE k == a \div d
<1>1. k \in Int /\ a = d * k + (a % d)
  BY DivMod
<1> HIDE DEF k
<1> QED
  BY <1>1

\* A multiple below another one ends d before it.
LEMMA MultiplesApart ==
    ASSUME NEW d \in Nat \ {0}, NEW j \in Int, NEW k \in Int, d * j < d * k
    PROVE  d * j + d <= d * k
<1>1. j < k
  OBVIOUS
<1>2. d * (k - j - 1) >= 0
  BY <1>1
<1> QED
  BY <1>2

\* The minutes somebody may be due at are Grain apart: from a minute r in the
\* Window of one there are more than RunLimit minutes to the next, s.
LEMMA LateRun ==
    ASSUME NEW r \in Int, NEW s \in Int, Busy(r), s % Grain = 0, r < s
    PROVE  r + RunLimit < s
<1> DEFINE j == r \div Grain
           k == s \div Grain
<1>0. Grain \in Nat \ {0} /\ Window \in Nat /\ RunLimit \in Nat
  BY MinutesAssumption
<1>1. j \in Int /\ k \in Int /\ r % Grain \in 0 .. Grain - 1
  BY <1>0
<1>2. r = Grain * j + (r % Grain)
  BY <1>0, DivMod
<1>3. s = Grain * k
  <2>1. s = Grain * k + (s % Grain)
    BY <1>0, DivMod
  <2> HIDE DEF k
  <2> QED
    BY <1>0, <1>1, <2>1
<1> HIDE DEF j, k
<1>4. Grain * j < Grain * k
  BY <1>0, <1>1, <1>2, <1>3
<1>5. Grain * j + Grain <= Grain * k
  BY <1>0, <1>1, <1>4, MultiplesApart
<1> DEFINE x == Grain * j
           y == Grain * k
<1>6. x \in Int /\ y \in Int
  BY <1>0, <1>1
<1>7. r % Grain < Window
  BY DEF Busy
<1> HIDE DEF x, y
<1>8. x + Grain <= y /\ s = y /\ r = x + (r % Grain)
  BY <1>2, <1>3, <1>5 DEF x, y
<1> QED
  BY <1>0, <1>1, <1>6, <1>7, <1>8, RunsFit

\* Times that are chosen are multiples of Grain, on whichever day.
LEMMA ChosenOnGrain ==
    ASSUME NEW s \in Int, s % Day \in ChosenTimes
    PROVE  s % Grain = 0 /\ s % Period = 0
<1> DEFINE a == s \div Day
           t == s % Day
<1>0. Day \in Nat \ {0} /\ Grain \in Nat \ {0} /\ Period \in Nat \ {0}
  BY MinutesAssumption
<1>1. a \in Int /\ t \in Int /\ s = Day * a + t
  BY <1>0, DivMod
<1>3. \A d \in Nat \ {0}, k \in Int : (d * k) % d = 0
  BY ModUnique
<1>4. t % Grain = 0 /\ Day % Grain = 0 /\ Grain % Period = 0
  BY MinutesAssumption
<1> HIDE DEF a, t
<1>5. PICK m \in Int, n \in Int : t = Grain * m /\ Day = Grain * n
  <2>1. \E m \in Int : t = Grain * m
    BY <1>0, <1>1, <1>4, Multiple
  <2>2. \E n \in Int : Day = Grain * n
    <3>1. Day \in Int
      BY <1>0
    <3> QED
      BY <1>0, <1>4, <3>1, Multiple, Zenon
  <2> QED
    BY <2>1, <2>2
<1>6. s = Grain * (n * a + m)
  <2>1. (Grain * n) * a = Grain * (n * a)
    BY <1>0, <1>1, <1>5
  <2>2. Grain * (n * a) + Grain * m = Grain * (n * a + m)
    BY <1>0, <1>1, <1>5
  <2> QED
    BY <1>1, <1>5, <2>1, <2>2
<1>7. PICK p \in Int : Grain = Period * p
  BY <1>0, <1>4, Multiple
<1>8. n * a + m \in Int
  <2>1. a \in Int /\ n \in Int /\ m \in Int
    BY <1>1, <1>5
  <2> QED
    BY <2>1
<1> DEFINE b == n * a + m
<1> HIDE DEF b
<1>9. s = Period * (p * b) /\ p * b \in Int /\ b \in Int /\ s = Grain * b
  BY <1>0, <1>6, <1>7, <1>8 DEF b
<1> QED
  BY <1>0, <1>3, <1>9

\* No other time is chosen within Grain minutes of a chosen one.
LEMMA ChosenApart ==
    ASSUME NEW s \in Int, NEW u \in Int, s % Day \in ChosenTimes, u % Day \in ChosenTimes,
           s <= u, u < s + Grain
    PROVE  u = s
<1>1. s % Grain = 0 /\ u % Grain = 0
  BY ChosenOnGrain
<1>2. s < u => s + RunLimit < u /\ s + Grain <= u
  <2> SUFFICES ASSUME s < u PROVE s + RunLimit < u /\ s + Grain <= u
    OBVIOUS
  <2>0. Grain \in Nat \ {0} /\ Window \in Nat \ {0}
    BY MinutesAssumption
  <2>1. Busy(s)
    BY <1>1, <2>0 DEF Busy
  <2>2. s = Grain * (s \div Grain) /\ u = Grain * (u \div Grain)
    BY <1>1, <2>0, DivMod
  <2>3. s \div Grain \in Int /\ u \div Grain \in Int
    BY <2>0, DivMod
  <2> QED
    BY <1>1, <2>0, <2>1, <2>2, <2>3, LateRun, MultiplesApart
<1> QED
  BY <1>2, MinutesAssumption

\* A run within Grain minutes after a chosen time looks at the day of that time.
LEMMA SameDay ==
    ASSUME NEW s \in Int, NEW m \in Int, s % Day \in ChosenTimes, s <= m, m < s + Grain
    PROVE  s \in ScheduleTimes(m)
<1> DEFINE a == s \div Day
           t == s % Day
<1>0. Day \in Nat \ {0} /\ Grain \in Nat \ {0} /\ Day % Grain = 0
  BY MinutesAssumption
<1>1. a \in Int /\ t \in 0 .. Day - 1 /\ s = Day * a + t
  BY <1>0, DivMod
<1>2. t % Grain = 0 /\ t \in ChosenTimes
  BY MinutesAssumption
<1> HIDE DEF a, t
<1>3. t + Grain <= Day
  <2>1. Day = Grain * (Day \div Grain) /\ t = Grain * (t \div Grain)
    BY <1>0, <1>1, <1>2, DivMod
  <2>2. Day \div Grain \in Int /\ t \div Grain \in Int
    BY <1>0, <1>1, DivMod
  <2> DEFINE i == Day \div Grain
             j == t \div Grain
  <2>3. i \in Int /\ j \in Int /\ Day = Grain * i /\ t = Grain * j
    BY <2>1, <2>2
  <2> HIDE DEF i, j
  <2>4. Grain * j < Grain * i
    BY <1>0, <1>1, <2>3
  <2>5. Grain * j + Grain <= Grain * i
    BY <1>0, <2>3, <2>4, MultiplesApart
  <2> QED
    BY <2>3, <2>5
<1>4. m = Day * a + (t + (m - s)) /\ t + (m - s) \in 0 .. Day - 1
  BY <1>0, <1>1, <1>3
<1>5. m % Day = t + (m - s)
  <2> DEFINE r == t + (m - s)
  <2>1. m = Day * a + r /\ r \in 0 .. Day - 1
    BY <1>4
  <2> HIDE DEF r
  <2>2. m % Day = r
    BY <1>0, <1>1, <2>1, ModUnique
  <2> QED
    BY <2>2 DEF r
<1>6. s = (m - (m % Day)) + t
  BY <1>1, <1>5
<1> QED
  BY <1>2, <1>6 DEF ScheduleTimes

\* What a run looks at are chosen times.
LEMMA ChosenOnly ==
    ASSUME NEW m \in Int, NEW s \in ScheduleTimes(m)
    PROVE  s \in Int /\ s % Day \in ChosenTimes
<1> DEFINE a == m \div Day
<1>0. Day \in Nat \ {0}
  BY MinutesAssumption
<1>1. PICK t \in ChosenTimes : s = (m - (m % Day)) + t
  BY DEF ScheduleTimes
<1>2. t \in 0 .. Day - 1
  BY MinutesAssumption
<1>3. a \in Int /\ m % Day \in Int /\ m = Day * a + (m % Day)
  BY <1>0, DivMod
<1> HIDE DEF a
<1>4. s = Day * a + t /\ s \in Int
  BY <1>0, <1>1, <1>2, <1>3
<1> QED
  BY <1>0, <1>2, <1>3, <1>4, ModUnique

-----------------------------------------------------------------------------

\* What a run looks at within the window of one of the user's times.
LEMMA ScheduledFacts ==
    ASSUME TypeOK, NEW s \in Scheduled
    PROVE  /\ s \in Nat /\ s <= minute /\ s % Day \in ChosenTimes
           /\ s % Grain = 0 /\ s % Period = 0
  BY ChosenOnGrain DEF TypeOK, Scheduled

LEMMA WindowOfTime ==
    ASSUME TypeOK, NEW s \in Scheduled, NEW m \in Nat, s <= m, m < s + Window
    PROVE  s \in InWindow(m)
<1>1. m < s + Grain /\ 0 <= m - s /\ m - s < Window
  BY ScheduledFacts, Constants
<1>2. s \in ScheduleTimes(m)
  BY <1>1, ScheduledFacts, SameDay
<1> QED
  BY <1>1, <1>2 DEF InWindow

\* It is one time at most.
LEMMA OneTime ==
    ASSUME TypeOK, NEW s \in Scheduled, NEW m \in Nat, NEW u \in InWindow(m), s <= m, m < s + Grain
    PROVE  u = s
<1>1. u \in Int /\ u <= m /\ m < u + Window
  BY WindowBounds
<1>2. u % Day \in ChosenTimes
  BY ChosenOnly DEF InWindow
<1>3. (u <= s /\ s < u + Grain) \/ (s <= u /\ u < s + Grain)
  BY <1>1, ScheduledFacts, Constants
<1> QED
  BY <1>1, <1>2, <1>3, ScheduledFacts, ChosenApart

\* The times that count do not change but with the minute.
LEMMA ScheduledKept ==
    ASSUME UNCHANGED minute
    PROVE  Scheduled' = Scheduled
  BY DEF Scheduled

LEMMA ScheduledNext ==
    ASSUME TypeOK, Tick, NEW s \in Scheduled'
    PROVE  s \in Scheduled \/ s = minute + 1
  BY DEF Tick, Scheduled, TypeOK

\* A time that has its email, or a reason for none, keeps it.
LEMMA AccountedKept ==
    ASSUME TypeOK, [Next]_vars
    PROVE  served \subseteq served' /\ excused \subseteq excused'
<1> USE DEF clockVars, runVars, lockVars, userVars, histVars
<1>1. CASE Send \/ Lose \/ UNCHANGED vars \/ LockExpires \/ Tick \/ \E p \in Workers : Start(p) /\ ~Begin(p)
  BY <1>1 DEF Send, Lose, Start, vars, LockExpires, Tick
<1>2. ASSUME NEW p \in Workers, Begin(p) PROVE served \subseteq served' /\ excused \subseteq excused'
  BY <1>2, RunBegins
<1>3. ASSUME NEW p \in Workers, Read(p) \/ Email(p) \/ Save(p) \/ Finish(p)
      PROVE  served \subseteq served' /\ excused \subseteq excused'
  BY <1>3 DEF Read, Email, Save, Finish
<1>4. ASSUME NEW p \in Workers, Fail(p) \/ Crash(p) PROVE served \subseteq served' /\ excused \subseteq excused'
  BY <1>4 DEF Fail, Crash, Undone
<1> QED
  BY <1>1, <1>2, <1>3, <1>4, Steps

\* Beat's messages.
LEMMA BeatInvStep ==
    ASSUME TypeOK, BeatInv, [Next]_vars
    PROVE  BeatInv'
<1> USE DEF BeatInv, clockVars
<1>0. minute \in Nat /\ beat \in Int
  BY Constants DEF TypeOK
<1>1. CASE Send
  BY <1>0, <1>1, Constants DEF Send
<1>2. CASE Lose
  BY <1>2 DEF Lose
<1>3. CASE Tick
  <2>1. ASSUME beat # Never, minute = beat + Period PROVE FALSE
    <3>1. PICK k \in Int : beat = Period * k
      BY <1>0, <2>1, Constants, Multiple
    <3>2. minute = Period * (k + 1) + 0 /\ k + 1 \in Int /\ 0 \in 0 .. Period - 1
      BY <2>1, <3>1, Constants
    <3>3. minute % Period = 0
      BY <3>2, Constants, ModUnique
    <3> QED
      BY <1>0, <1>3, <2>1, <3>3, Constants DEF Tick
  <2>2. beat # Never
    <3>1. 0 % Period = 0
      BY Constants
    <3> QED
      BY <1>3, <3>1, Constants DEF Tick
  <2> QED
    BY <1>0, <1>3, <2>1, <2>2, Constants DEF Tick
<1>4. CASE UNCHANGED vars \/ LockExpires
  BY <1>4 DEF vars, LockExpires
<1>5. ASSUME NEW p \in Workers, Start(p) \/ StartByHand(p) \/ Finish(p) \/ Crash(p) PROVE BeatInv'
  BY <1>5 DEF Start, StartByHand, Begin, Finish, Crash
<1>6. ASSUME NEW p \in Workers, Read(p) \/ Email(p) \/ Save(p) \/ Fail(p) PROVE BeatInv'
  BY <1>6, RunGoesOn
<1> QED
  BY <1>1, <1>2, <1>3, <1>4, <1>5, <1>6 DEF Next

\* What has begun before a time and is still there has lasted too long, or began when
\* nobody was due.
LEMMA LastsTooLong ==
    ASSUME TypeOK, Tick, NEW r \in Int, r # Never, r <= minute,
           r \in {run[p] : p \in Workers} \cup {taken}, minute + 1 \in Scheduled'
    PROVE  minute + 1 \in excused'
<1>1. minute' = minute + 1 /\ minute \in Nat
  BY DEF Tick, TypeOK
<1>2. (minute + 1) % Day \in ChosenTimes
  BY DEF Scheduled
<1>3. (minute + 1) % Grain = 0
  BY <1>1, <1>2, ChosenOnGrain
<1>4. Busy(r) => r + RunLimit < minute + 1
  BY <1>1, <1>3, LateRun
<1>5. r \in Lasting
  BY <1>4 DEF Lasting, Over
<1>6. minute + 1 \in ScheduleTimes(minute + 1)
  BY <1>1, <1>2, SameDay, Constants
<1> QED
  BY <1>1, <1>5, <1>6 DEF Tick

LEMMA LateInvStep ==
    ASSUME TypeOK, LateInv, [Next]_vars
    PROVE  LateInv'
<1> USE DEF LateInv, clockVars, runVars, lockVars
<1>0. \A s \in Scheduled : s \in excused => s \in excused'
  BY AccountedKept
<1>1. CASE Send \/ Lose \/ UNCHANGED vars \/ \E p \in Workers : Start(p) /\ ~Begin(p)
  <2>1. UNCHANGED <<minute, at, run, lock, taken>>
    BY <1>1, MessagesOnly DEF Send, Lose, Start, vars
  <2> QED
    BY <1>0, <2>1, ScheduledKept
<1>2. ASSUME NEW p \in Workers, Begin(p) PROVE LateInv'
  <2>1. Scheduled' = Scheduled /\ \A s \in Scheduled : s \in Nat /\ s <= minute /\ minute \in Nat
    BY <1>2, RunBegins, ScheduledKept, ScheduledFacts DEF TypeOK
  <2> QED
    BY <1>0, <1>2, <2>1, RunBegins
<1>3. ASSUME NEW p \in Workers, Read(p) \/ Email(p) \/ Save(p) \/ Fail(p) PROVE LateInv'
  <2>1. UNCHANGED <<minute, run, lock, taken>> /\ \A q \in Workers : at'[q] = "idle" <=> at[q] = "idle"
    BY <1>3, RunGoesOn
  <2> QED
    BY <1>0, <2>1, ScheduledKept
<1>4. ASSUME NEW p \in Workers, Finish(p) \/ Crash(p) PROVE LateInv'
  <2>1. Scheduled' = Scheduled
    BY <1>4, RunEnds, ScheduledKept
  <2>2. \A q \in Workers : at'[q] # "idle" => at[q] # "idle" /\ run'[q] = run[q]
    BY <1>4, RunEnds DEF TypeOK
  <2>3. lock' # Never => lock' = lock /\ taken' = taken
    BY <1>4, RunEnds
  <2> QED
    BY <1>0, <2>1, <2>2, <2>3
<1>5. CASE LockExpires
  <2>1. Scheduled' = Scheduled /\ UNCHANGED <<at, run>> /\ lock' = Never
    BY <1>5, ScheduledKept DEF LockExpires
  <2> QED
    BY <1>0, <2>1
<1>6. CASE Tick
  <2> SUFFICES ASSUME NEW s \in Scheduled'
               PROVE  /\ \A p \in Workers : at[p] # "idle" /\ run[p] < s => s \in excused'
                      /\ lock # Never /\ taken < s => s \in excused'
    BY <1>6 DEF Tick
  <2>1. CASE s \in Scheduled
    BY <1>0, <2>1
  <2>2. CASE s = minute + 1
    <3>1. ASSUME NEW p \in Workers, at[p] # "idle" PROVE s \in excused'
      <4>1. run[p] \in Int /\ run[p] # Never /\ run[p] <= minute
        BY <3>1, Constants DEF TypeOK
      <4> QED
        BY <1>6, <2>2, <4>1, LastsTooLong
    <3>2. ASSUME lock # Never PROVE s \in excused'
      <4>1. taken \in Int /\ taken # Never /\ taken <= minute
        BY <3>2, Constants DEF TypeOK
      <4> QED
        BY <1>6, <2>2, <4>1, LastsTooLong
    <3> QED
      BY <3>1, <3>2
  <2> QED
    BY <1>6, <2>1, <2>2, ScheduledNext
<1> QED
  BY <1>1, <1>2, <1>3, <1>4, <1>5, <1>6, Steps

LEMMA LastInvStep ==
    ASSUME TypeOK, DueInv, ServedInv, LateInv, LastInv, [Next]_vars
    PROVE  LastInv'
<1> USE DEF LastInv, clockVars, runVars, lockVars, userVars
<1>0. served \subseteq served' /\ excused \subseteq excused'
  BY AccountedKept
<1>1. ASSUME UNCHANGED <<minute, lastRun>> PROVE LastInv'
  BY <1>0, <1>1, ScheduledKept
<1>2. ASSUME NEW p \in Workers, Begin(p) \/ Read(p) \/ Email(p) \/ Fail(p) \/ Finish(p) \/ Crash(p)
                                 \/ (Start(p) /\ ~Begin(p))
      PROVE  UNCHANGED <<minute, lastRun>>
  BY <1>2 DEF Begin, Read, Email, Fail, Finish, Crash, Start
<1>3. CASE Send \/ Lose \/ UNCHANGED vars \/ LockExpires
  BY <1>1, <1>3 DEF Send, Lose, vars, LockExpires
<1>4. ASSUME NEW p \in Workers, Save(p) PROVE LastInv'
  <2> SUFFICES ASSUME NEW s \in Scheduled, minute < s + Grain PROVE s \in served \cup excused
    BY <1>0, <1>4, ScheduledKept DEF Save
  <2>1. at[p] = "emailed" /\ due[p] \in served /\ due[p] \in InWindow(run[p]) /\ run[p] \in 0 .. minute
    BY <1>4 DEF Save, ServedInv, DueInv, TypeOK
  <2>2. CASE s <= run[p]
    <3>1. run[p] < s + Grain
      <4>1. run[p] \in Nat /\ run[p] <= minute /\ minute \in Nat /\ s \in Nat
        BY <2>1, ScheduledFacts DEF TypeOK
      <4> QED
        BY <4>1, Constants
    <3>2. due[p] = s
      BY <2>1, <2>2, <3>1, OneTime
    <3> QED
      BY <2>1, <3>2
  <2>3. CASE run[p] < s
    BY <2>1, <2>3 DEF LateInv
  <2> QED
    BY <2>1, <2>2, <2>3, ScheduledFacts
<1>5. CASE Tick
  <2>1. UNCHANGED lastRun /\ \A s \in Scheduled' : s \in Scheduled \/ s = minute + 1
    BY <1>5, ScheduledNext DEF Tick
  <2>2. ~(minute + 1 <= lastRun)
    BY Constants DEF TypeOK
  <2> QED
    BY <1>0, <2>1, <2>2
<1> QED
  BY <1>1, <1>2, <1>3, <1>4, <1>5, Steps

\* A run that is to serve a time does so, or there is a reason that it does not.
LEMMA WayKept ==
    ASSUME TypeOK, ServedInv, LastInv, [Next]_vars, NEW s \in Scheduled, Accounted(s) \/ OnItsWay(s)
    PROVE  (Accounted(s) \/ OnItsWay(s))'
<1> USE DEF clockVars, runVars, lockVars, userVars, histVars
<1>0. s \in served \cup excused => s \in served' \cup excused'
  BY AccountedKept
<1>1. CASE s \in served' \cup excused'
  BY <1>1 DEF Accounted
<1>2. ASSUME s \notin served' \cup excused' PROVE OnItsWay(s)'
  <2>1. PICK p \in Workers : \/ at[p] = "begun" /\ s <= run[p] /\ run[p] < s + Window
                            \/ due[p] = s
    BY <1>0, <1>2 DEF Accounted, OnItsWay
  <2>2. ASSUME at'[p] = at[p], run'[p] = run[p], due'[p] = due[p] PROVE OnItsWay(s)'
    BY <2>1, <2>2 DEF OnItsWay
  <2>3. s \in Nat /\ s <= minute /\ minute \in Nat /\ s # Never
    BY ScheduledFacts, Constants DEF TypeOK
  <2>4. at[p] # "idle" /\ at[p] # "ending" /\ run[p] \in 0 .. minute
    BY <2>1, <2>3 DEF TypeOK
  <2>5. CASE Send \/ Lose \/ UNCHANGED vars \/ LockExpires \/ Tick \/ \E q \in Workers : Start(q) /\ ~Begin(q)
    BY <2>2, <2>5 DEF Send, Lose, Start, vars, LockExpires, Tick
  <2>6. ASSUME NEW q \in Workers, Begin(q) PROVE OnItsWay(s)'
    BY <2>2, <2>4, <2>6, RunBegins
  <2>7. ASSUME NEW q \in Workers, q # p, Read(q) \/ Email(q) \/ Save(q) \/ Fail(q) PROVE OnItsWay(s)'
    BY <2>2, <2>7, RunGoesOn
  <2>8. ASSUME NEW q \in Workers, q # p, Finish(q) \/ Crash(q) PROVE OnItsWay(s)'
    BY <2>2, <2>8, RunEnds DEF TypeOK
  <2>9. CASE Read(p)
    <3>1. at[p] = "begun" /\ due[p] = Never
      BY <2>9 DEF Read, TypeOK
    <3>2. s <= run[p] /\ run[p] < s + Window /\ s \in InWindow(run[p])
      BY <2>1, <2>3, <2>4, <3>1, WindowOfTime
    <3>3. run[p] + RunLimit >= minute
      <4>1. ~Over(run[p], minute)
        BY <1>2, <2>9, <3>2 DEF Read
      <4>2. run[p] \in Nat /\ RunLimit \in Nat /\ minute \in Nat
        BY <2>3, <2>4, Constants
      <4> QED
        BY <4>1, <4>2 DEF Over
    <3>4. lastRun < s
      <4>1. lastRun \in Int /\ lastRun <= minute
        BY Constants DEF TypeOK
      <4>2. s \notin served \cup excused
        BY <1>0, <1>2
      <4>3. lastRun < s + Grain
        BY <2>3, <2>4, <3>2, <3>3, <4>1, Constants
      <4> QED
        BY <2>3, <4>1, <4>2, <4>3 DEF LastInv
    <3>5. s \in DueTimes(run[p])
      BY <3>2, <3>4 DEF DueTimes
    <3>6. PICK u \in DueTimes(run[p]) : due' = [due EXCEPT ![p] = u]
      BY <2>9, <3>5 DEF Read
    <3>7. u = s
      <4>1. u \in InWindow(run[p]) /\ run[p] < s + Grain /\ run[p] \in Nat
        BY <2>3, <2>4, <3>2, Constants DEF DueTimes
      <4> QED
        BY <3>2, <4>1, OneTime
    <3> QED
      BY <3>6, <3>7 DEF OnItsWay, TypeOK
  <2>10. CASE Email(p)
    BY <1>2, <2>1, <2>10 DEF Email
  <2>11. CASE Save(p)
    <3>1. due[p] = s /\ s \in served
      BY <2>1, <2>11 DEF Save, ServedInv
    <3> QED
      BY <1>0, <1>2, <3>1
  <2>12. CASE Fail(p) \/ Crash(p)
    <3>1. Undone(p)
      BY <2>12 DEF Fail, Crash
    <3>2. CASE at[p] = "begun"
      <4>1. due[p] = Never
        BY <3>2 DEF TypeOK
      <4>2. s \in InWindow(run[p])
        BY <2>1, <2>3, <2>4, <4>1, WindowOfTime
      <4> QED
        BY <1>2, <3>1, <3>2, <4>2 DEF Undone
    <3>3. CASE at[p] = "due"
      BY <1>2, <2>1, <3>1, <3>3 DEF Undone
    <3>4. CASE at[p] = "emailed"
      BY <1>0, <1>2, <2>1, <3>4 DEF ServedInv
    <3> QED
      BY <2>4, <3>2, <3>3, <3>4 DEF TypeOK
  <2>13. ~Finish(p)
    BY <2>4 DEF Finish
  <2> QED
    BY <2>5, <2>6, <2>7, <2>8, <2>9, <2>10, <2>11, <2>12, <2>13, Steps
<1> QED
  BY <1>1, <1>2

LEMMA HeldInvStep ==
    ASSUME TypeOK, ServedInv, LastInv, HeldInv, [Next]_vars
    PROVE  HeldInv'
<1> USE DEF HeldInv, clockVars, runVars, lockVars
<1>1. ASSUME lock' # Never => lock' = lock /\ taken' = taken, Scheduled' = Scheduled PROVE HeldInv'
  BY <1>1, WayKept
<1>2. CASE Send \/ Lose \/ UNCHANGED vars \/ LockExpires \/ \E p \in Workers : Start(p) /\ ~Begin(p)
  BY <1>1, <1>2, ScheduledKept DEF Send, Lose, Start, vars, LockExpires
<1>3. ASSUME NEW p \in Workers, Begin(p) PROVE HeldInv'
  BY <1>3, RunBegins, ScheduledKept DEF OnItsWay
<1>4. ASSUME NEW p \in Workers, Read(p) \/ Email(p) \/ Save(p) \/ Fail(p) PROVE HeldInv'
  BY <1>1, <1>4, RunGoesOn, ScheduledKept
<1>5. ASSUME NEW p \in Workers, Finish(p) \/ Crash(p) PROVE HeldInv'
  BY <1>1, <1>5, RunEnds, ScheduledKept
<1>6. CASE Tick
  <2>1. UNCHANGED <<lock, taken>> /\ \A s \in Scheduled' : s \in Scheduled \/ s = minute + 1
    BY <1>6, ScheduledNext DEF Tick
  <2>2. ~(minute + 1 <= taken)
    BY Constants DEF TypeOK
  <2> QED
    BY <2>1, <2>2, WayKept
<1> QED
  BY <1>2, <1>3, <1>4, <1>5, <1>6, Steps

LEMMA PendingInvStep ==
    ASSUME TypeOK, ServedInv, BeatInv, LateInv, LastInv, HeldInv, PendingInv, [Next]_vars
    PROVE  PendingInv'
<1> USE DEF PendingInv, clockVars, runVars, lockVars
<1>0. minute \in Nat /\ beat \in Int
  BY Constants DEF TypeOK
<1>1. ASSUME UNCHANGED clockVars PROVE PendingInv'
  BY <1>1, WayKept, ScheduledKept
<1>2. CASE Send
  <2> SUFFICES ASSUME NEW s \in Scheduled, ~(Accounted(s) \/ OnItsWay(s))', s # minute PROVE FALSE
    BY <1>2, ScheduledKept DEF Send
  <2>1. s = waiting
    BY WayKept
  <2>2. s \in ScheduleTimes(waiting) /\ s # Never
    BY <2>1, SameDay, ScheduledFacts, Constants
  <2>3. s \in excused'
    BY <1>2, <2>1, <2>2 DEF Send
  <2> QED
    BY <2>3 DEF Accounted
<1>3. CASE Lose
  <2> SUFFICES ASSUME NEW s \in Scheduled, ~(Accounted(s) \/ OnItsWay(s))', s = waiting PROVE FALSE
    BY <1>3, ScheduledKept, WayKept DEF Lose
  <2>1. s \in ScheduleTimes(waiting)
    BY SameDay, ScheduledFacts, Constants
  <2>2. s \in excused'
    BY <1>3, <2>1 DEF Lose
  <2> QED
    BY <2>2 DEF Accounted
<1>4. ASSUME NEW p \in Workers, Start(p) PROVE PendingInv'
  <2>1. UNCHANGED <<minute, beat>>
    BY <1>4 DEF Start, Begin
  <2> SUFFICES ASSUME NEW s \in Scheduled, s = waiting PROVE (Accounted(s) \/ OnItsWay(s))'
    BY <2>1, ScheduledKept, WayKept
  <2>2. s <= minute /\ minute < s + Window
    BY <1>0, <1>4, ScheduledFacts, Constants DEF Start
  <2>3. CASE Begin(p)
    BY <2>2, <2>3, RunBegins DEF OnItsWay
  <2>4. CASE lock # Never
    <3>1. taken \in Int /\ taken <= minute
      BY Constants DEF TypeOK
    <3>2. CASE taken < s
      <4>1. Accounted(s)
        BY <2>4, <3>2 DEF LateInv, Accounted
      <4> QED
        BY <4>1, WayKept
    <3>3. CASE s <= taken
      <4>1. taken < s + Window
        <5>1. s \in Nat /\ Window \in Nat
          BY ScheduledFacts, Constants
        <5> QED
          BY <1>0, <2>2, <3>1, <5>1
      <4>2. Accounted(s) \/ OnItsWay(s)
        BY <2>4, <3>3, <4>1 DEF HeldInv
      <4> QED
        BY <4>2, WayKept
    <3> QED
      <4>1. s \in Nat
        BY ScheduledFacts
      <4> QED
        BY <3>1, <3>2, <3>3, <4>1
  <2> QED
    BY <1>4, <2>3, <2>4 DEF Start
<1>5. CASE Tick
  <2> SUFFICES ASSUME NEW s \in Scheduled'
               PROVE  (Accounted(s) \/ OnItsWay(s))' \/ (s = minute + 1 /\ beat # s) \/ s = waiting
    BY <1>5 DEF Tick
  <2>1. CASE s \in Scheduled
    <3>1. ~(s = minute /\ beat # s)
      BY <1>5, <2>1, ScheduledFacts DEF Tick
    <3> QED
      BY <2>1, <3>1, WayKept
  <2>2. CASE s = minute + 1
    BY <1>0, <2>2, Constants DEF TypeOK
  <2> QED
    BY <1>5, <2>1, <2>2, ScheduledNext
<1>6. CASE UNCHANGED vars \/ LockExpires
  BY <1>1, <1>6 DEF vars, LockExpires
<1>7. ASSUME NEW p \in Workers, StartByHand(p) \/ Finish(p) \/ Crash(p) PROVE PendingInv'
  <2>1. UNCHANGED clockVars
    BY <1>7 DEF StartByHand, Begin, Finish, Crash
  <2> QED
    BY <1>1, <2>1
<1>8. ASSUME NEW p \in Workers, Read(p) \/ Email(p) \/ Save(p) \/ Fail(p) PROVE PendingInv'
  <2>1. UNCHANGED clockVars
    BY <1>8, RunGoesOn
  <2> QED
    BY <1>1, <2>1
<1> QED
  BY <1>2, <1>3, <1>4, <1>5, <1>6, <1>7, <1>8 DEF Next

\* No time a user has chosen is left without its email because a message has waited, a
\* run was slow within the limit or was given up for another: where there is none, beat's
\* message was lost, the run failed or died, or one of an earlier time lasted too long.
THEOREM NoTimeMissed == Spec => []NoneMissed
<1>1. Init => OnTimeInv
  <2> SUFFICES ASSUME Init PROVE OnTimeInv
    OBVIOUS
  <2>1. Scheduled \subseteq {0}
    BY DEF Init, Scheduled
  <2>2. \A s \in Scheduled : s = minute /\ beat # s
    BY <2>1, Constants DEF Init
  <2>3. BeatInv /\ LateInv /\ HeldInv
    BY Constants DEF Init, BeatInv, LateInv, HeldInv
  <2>4. LastInv
    BY <2>1, Constants DEF Init, LastInv
  <2> QED
    BY <2>2, <2>3, <2>4 DEF OnTimeInv, PendingInv
<1>2. TypeOK /\ OnceInv /\ OnTimeInv /\ [Next]_vars => OnTimeInv'
  BY BeatInvStep, LateInvStep, LastInvStep, HeldInvStep, PendingInvStep DEF OnceInv, OnTimeInv
<1>3. TypeOK /\ OnTimeInv => NoneMissed
  <2> SUFFICES ASSUME TypeOK, OnTimeInv, NEW s \in Scheduled, s + Window < minute, ~Accounted(s)
               PROVE  \E p \in Workers : s = due[p] \/ (at[p] = "begun" /\ s \in InWindow(run[p]))
    BY DEF NoneMissed
  <2>1. s \in Nat /\ minute \in Nat
    BY ScheduledFacts DEF TypeOK
  <2>2. s # minute
    BY <2>1, Constants
  <2>3. s # waiting
    BY <2>1, Constants DEF OnTimeInv, BeatInv
  <2>4. PICK p \in Workers : \/ at[p] = "begun" /\ s <= run[p] /\ run[p] < s + Window
                            \/ due[p] = s
    BY <2>2, <2>3 DEF OnTimeInv, PendingInv, OnItsWay
  <2>5. CASE due[p] = s
    BY <2>5
  <2>6. CASE at[p] = "begun" /\ s <= run[p] /\ run[p] < s + Window
    <3>1. run[p] \in Nat
      BY <2>6 DEF TypeOK
    <3> QED
      BY <2>6, <3>1, WindowOfTime
  <2> QED
    BY <2>4, <2>5, <2>6
<1> QED
  BY <1>1, <1>2, <1>3, OnceInvHolds, PTL DEF Spec
=============================================================================
