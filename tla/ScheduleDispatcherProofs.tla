---------------------- MODULE ScheduleDispatcherProofs ----------------------
(***************************************************************************)
(* The safety properties of the schedule dispatcher, for any workflows,    *)
(* schedules, cron times and pool, and any window, timeout and lifetime of *)
(* the markers that satisfy MarkersOutliveTicks.                           *)
(***************************************************************************)
EXTENDS ScheduleDispatcher, TLAPS

(***************************************************************************)
(* The inductive invariant                                                 *)
(***************************************************************************)

\* A tick is not older than its timeout.
TicksAreYoung ==
    \A m \in TickTimes : tick[m] \in Active => now[m] <= clock /\ clock <= now[m] + JobTimeout

\* The marker of slot s outlives every tick that finds s due.
Outlives(w, s) == marker[w][s] > s + Window + JobTimeout

\* The slot that a tick has claimed is one it has still to see to; it has the
\* marker, nobody else claimed it, and no run was enqueued for it.
HoldsFit ==
    \A m \in TickTimes, w \in Workflows, s \in Time : <<w, s>> \in holds[m] =>
        /\ tick[m] = "looping" /\ IsDue(cron[m][w], s, now[m])
        /\ Outlives(w, s) /\ fired[w][s] = 0
        /\ \A k \in TickTimes : <<w, s>> \in holds[k] => k = m

FiredFit ==
    \A w \in Workflows, s \in Time : fired[w][s] # 0 => fired[w][s] = 1 /\ Outlives(w, s)

\* What a tick has done with has a marker.
LoopFits ==
    \A m \in TickTimes, w \in Workflows, s \in Time :
        tick[m] = "looping" /\ w \notin todo[m] /\ cron[m][w] # 0 /\ IsDue(cron[m][w], s, now[m])
        => marker[w][s] # 0

Inv == TypeOK /\ TicksAreYoung /\ HoldsFit /\ FiredFit /\ LoopFits

(***************************************************************************)
(* Lemmas                                                                  *)
(***************************************************************************)

LEMMA TimeIsNat == Time \subseteq Nat /\ 0 \in Time /\ TickTimes \subseteq Time
  BY ScheduleAssumption DEF Time

LEMMA Numbers ==
    ASSUME TypeOK
    PROVE  /\ clock \in Nat /\ clock \in Time
           /\ \A m \in TickTimes : now[m] \in Nat /\ now[m] \in Time
           /\ \A w \in Workflows, s \in Time : marker[w][s] \in Nat /\ fired[w][s] \in Nat
           /\ \A s \in Time : s \in Nat
<1>1. clock \in Time /\ \A m \in TickTimes : now[m] \in Time
  BY DEF TypeOK
<1>2. \A w \in Workflows, s \in Time : marker[w][s] \in Nat /\ fired[w][s] \in Nat
  BY DEF TypeOK
<1>3. \A s \in Time : s \in Nat
  BY TimeIsNat
<1>. QED  BY <1>1, <1>2, <1>3

\* A slot that is due is past, and not older than the window.
LEMMA DueIsRecent ==
    ASSUME NEW v, NEW s \in Time, NEW t \in Time, IsDue(v, s, t)
    PROVE  s <= t /\ t <= s + Window
  BY ScheduleAssumption DEF IsDue, Passed, Time

\* There is one slot due at a time.
LEMMA OneIsDue ==
    ASSUME NEW v, NEW s \in Time, NEW r \in Time, NEW t \in Time, IsDue(v, s, t), IsDue(v, r, t)
    PROVE  s = r
  BY ScheduleAssumption DEF IsDue, Passed, Time

\* A marker that outlives the ticks has not expired for a tick that finds the
\* slot due.
LEMMA MarkerIsAlive ==
    ASSUME Inv, NEW m \in TickTimes, NEW w \in Workflows, NEW s \in Time,
           tick[m] \in Active, IsDue(cron[m][w], s, now[m]), Outlives(w, s)
    PROVE  marker[w][s] > clock
<1>1. now[m] \in Nat /\ s \in Nat /\ clock \in Nat /\ marker[w][s] \in Nat /\ now[m] \in Time
  BY Numbers DEF Inv
<1>2. now[m] <= s + Window
  BY <1>1, DueIsRecent
<1>3. clock <= now[m] + JobTimeout
  BY DEF Inv, TicksAreYoung
<1>. QED  BY <1>1, <1>2, <1>3, ScheduleAssumption DEF Outlives

(***************************************************************************)
(* Types                                                                   *)
(***************************************************************************)

LEMMA TypeInit == Init => TypeOK
  BY ScheduleAssumption, TimeIsNat DEF Init, TypeOK, JobState

LEMMA ForgetTypes ==
    ASSUME TypeOK, NEW M, Forget(M)
    PROVE  /\ now' \in [TickTimes -> Time]
           /\ todo' \in [TickTimes -> SUBSET Workflows]
           /\ cron' \in [TickTimes -> [Workflows -> Versions \cup {0}]]
           /\ holds' \in [TickTimes -> SUBSET (Workflows \X Time)]
  BY TimeIsNat DEF TypeOK, Forget

LEMMA TickTypes ==
    ASSUME TypeOK, NEW m \in TickTimes, Tick(m)  PROVE TypeOK'
<1>1. CASE TickBegins(m)
  BY <1>1 DEF TypeOK, TickBegins, Active, runVars
<1>2. CASE Select(m)
  BY <1>2 DEF TypeOK, Select, Active, runVars
<1>3. CASE TickEnds(m)
  BY <1>3, ForgetTypes DEF TypeOK, TickEnds, runVars
<1>4. CASE TickFails(m)
  <2>1. upsets' \in 0..MaxUpsets
    BY <1>4, ScheduleAssumption DEF TypeOK, TickFails, Upset
  <2>. QED  BY <1>4, <2>1, ForgetTypes DEF TypeOK, TickFails, runVars
<1>5. ASSUME NEW w \in Workflows, NEW s \in Time, Taken(m, w, s)  PROVE TypeOK'
  BY <1>5 DEF TypeOK, Taken, Passes, runVars
<1>6. ASSUME NEW w \in Workflows, NEW s \in Time, Claim(m, w, s)  PROVE TypeOK'
  <2>1. clock + KeyTTL \in Nat
    BY TimeIsNat, ScheduleAssumption DEF TypeOK
  <2>2. marker' \in [Workflows -> [Time -> Nat]]
    BY <1>6, <2>1 DEF TypeOK, Claim
  <2>3. holds' = [holds EXCEPT ![m] = {<<w, s>>}]
    BY <1>6 DEF TypeOK, Claim, Looks
  <2>4. holds' \in [TickTimes -> SUBSET (Workflows \X Time)]
    BY <2>3 DEF TypeOK
  <2>. QED  BY <1>6, <2>2, <2>4 DEF TypeOK, Claim, runVars
<1>7. ASSUME NEW w \in Workflows, NEW s \in Time, Enqueue(m, w, s)  PROVE TypeOK'
  <2>1. /\ fired' \in [Workflows -> [Time -> Nat]]
        /\ run' \in [Workflows -> [Time -> JobState]]
    BY <1>7 DEF TypeOK, Enqueue, JobState
  <2>2. /\ holds' \in [TickTimes -> SUBSET (Workflows \X Time)]
        /\ todo' \in [TickTimes -> SUBSET Workflows]
    BY <1>7 DEF TypeOK, Enqueue, Passes
  <2>. QED  BY <1>7, <2>1, <2>2 DEF TypeOK, Enqueue
<1>. QED  BY <1>1, <1>2, <1>3, <1>4, <1>5, <1>6, <1>7 DEF Tick

LEMMA TypeStep == TypeOK /\ [Next]_vars => TypeOK'
<1> SUFFICES ASSUME TypeOK, [Next]_vars PROVE TypeOK'
  OBVIOUS
<1>1. CASE Advance
  <2>1. clock' \in Time
    BY <1>1, ScheduleAssumption DEF TypeOK, Advance, Time
  <2>. QED  BY <1>1, <2>1 DEF TypeOK, Advance, tickVars, runVars
<1>2. CASE CronDue
  BY <1>2 DEF TypeOK, CronDue, runVars
<1>3. CASE Shutdown
  <2>1. upsets' \in 0..MaxUpsets
    BY <1>3, ScheduleAssumption DEF TypeOK, Shutdown, Upset
  <2>2. tick' \in [TickTimes -> Active \cup {"none", "queued", "ended", "failed"}]
    BY <1>3 DEF TypeOK, Shutdown
  <2>3. run' \in [Workflows -> [Time -> JobState]]
    BY <1>3 DEF TypeOK, Shutdown, JobState
  <2>. QED  BY <1>3, <2>1, <2>2, <2>3, ForgetTypes DEF TypeOK, Shutdown
<1>4. CASE \E m \in TickTimes : Tick(m)
  BY <1>4, TickTypes
<1>5. CASE \E w \in Workflows, s \in Time : RunBegins(w, s) \/ RunEnds(w, s)
  <2>1. PICK w \in Workflows, s \in Time : RunBegins(w, s) \/ RunEnds(w, s)
    BY <1>5
  <2>2. run' \in [Workflows -> [Time -> JobState]]
    <3>1. PICK st \in JobState : run' = [run EXCEPT ![w][s] = st]
      BY <2>1 DEF RunBegins, RunEnds, JobState
    <3>. QED  BY <3>1 DEF TypeOK
  <2>. QED  BY <2>1, <2>2 DEF TypeOK, RunBegins, RunEnds, tickVars
<1>6. CASE \E w \in Workflows, v \in Versions \cup {0} : Change(w, v)
  <2>1. PICK w \in Workflows, v \in Versions \cup {0} : Change(w, v)
    BY <1>6
  <2>2. upsets' \in 0..MaxUpsets
    BY <2>1, ScheduleAssumption DEF TypeOK, Change, Upset
  <2>. QED  BY <2>1, <2>2 DEF TypeOK, Change, tickVars, runVars
<1>7. CASE UNCHANGED vars
  BY <1>7 DEF TypeOK, vars, tickVars, runVars
<1>. QED  BY <1>1, <1>2, <1>3, <1>4, <1>5, <1>6, <1>7 DEF Next

(***************************************************************************)
(* The invariant                                                           *)
(***************************************************************************)

LEMMA InvInit == Init => Inv
  BY TypeInit, TimeIsNat
     DEF Init, Inv, TicksAreYoung, HoldsFit, FiredFit, LoopFits, Active

\* Steps that leave the ticks, the markers and the runs' history alone.
LEMMA AsideInv ==
    ASSUME Inv, TypeOK', UNCHANGED <<tickVars, marker, fired>>, TicksAreYoung'
    PROVE  Inv'
  BY DEF Inv, HoldsFit, FiredFit, LoopFits, Outlives, tickVars

LEMMA AdvanceInv == ASSUME Inv, TypeOK', Advance  PROVE Inv'
<1>1. TicksAreYoung'
  <2>1. \A m \in TickTimes : tick[m] \in Active => now[m] <= clock /\ clock < now[m] + JobTimeout
    BY DEF Inv, TicksAreYoung, Advance, ActiveTicks
  <2>2. tick' = tick /\ now' = now /\ clock' = clock + 1
    BY DEF Advance, tickVars
  <2>3. clock \in Nat /\ JobTimeout \in Nat /\ \A m \in TickTimes : now[m] \in Nat
    BY Numbers, ScheduleAssumption DEF Inv
  <2>. QED  BY <2>1, <2>2, <2>3 DEF TicksAreYoung
<1>. QED  BY <1>1, AsideInv DEF Advance, runVars

LEMMA CronDueInv == ASSUME Inv, TypeOK', CronDue  PROVE Inv'
  BY DEF Inv, TypeOK, TicksAreYoung, HoldsFit, FiredFit, LoopFits, Outlives, CronDue, Active, runVars

\* Ticks that keep nothing constrain nothing; the markers and the history stay.
LEMMA ForgetInv ==
    ASSUME Inv, TypeOK', NEW M \in SUBSET TickTimes, Forget(M),
           \A m \in TickTimes : IF m \in M THEN tick'[m] \notin Active ELSE tick'[m] = tick[m],
           UNCHANGED <<clock, marker, fired>>
    PROVE  Inv'
<1>1. \A m \in TickTimes :
        \/ holds'[m] = {} /\ tick'[m] \notin Active
        \/ /\ tick'[m] = tick[m] /\ now'[m] = now[m] /\ todo'[m] = todo[m]
           /\ cron'[m] = cron[m] /\ holds'[m] = holds[m]
  BY DEF Forget
<1>2. TicksAreYoung'
  BY <1>1 DEF Inv, TicksAreYoung
<1>3. HoldsFit'
  <2> SUFFICES ASSUME NEW m \in TickTimes, NEW w \in Workflows, NEW s \in Time,
                      <<w, s>> \in holds'[m]
               PROVE  /\ tick'[m] = "looping" /\ IsDue(cron'[m][w], s, now'[m])
                      /\ marker'[w][s] > s + Window + JobTimeout /\ fired'[w][s] = 0
                      /\ \A k \in TickTimes : <<w, s>> \in holds'[k] => k = m
    BY DEF HoldsFit, Outlives
  <2>. QED  BY <1>1 DEF Inv, HoldsFit, Outlives
<1>4. FiredFit'
  BY DEF Inv, FiredFit, Outlives
<1>5. LoopFits'
  BY <1>1 DEF Inv, LoopFits, Active
<1>. QED  BY <1>2, <1>3, <1>4, <1>5 DEF Inv

LEMMA TickBeginsInv ==
    ASSUME Inv, TypeOK', NEW m \in TickTimes, TickBegins(m)  PROVE Inv'
<1>1. TicksAreYoung'
  BY TimeIsNat, ScheduleAssumption DEF Inv, TypeOK, TicksAreYoung, TickBegins, Active
<1>2. HoldsFit' /\ FiredFit' /\ LoopFits'
  BY DEF Inv, TypeOK, HoldsFit, FiredFit, LoopFits, Outlives, TickBegins, runVars
<1>. QED  BY <1>1, <1>2 DEF Inv

LEMMA SelectInv ==
    ASSUME Inv, TypeOK', NEW m \in TickTimes, Select(m)  PROVE Inv'
<1>1. TicksAreYoung'
  BY DEF Inv, TypeOK, TicksAreYoung, Select, Active
<1>2. HoldsFit' /\ FiredFit'
  BY DEF Inv, TypeOK, HoldsFit, FiredFit, Outlives, Select, runVars
<1>3. LoopFits'
  BY DEF Inv, TypeOK, LoopFits, Select
<1>. QED  BY <1>1, <1>2, <1>3 DEF Inv

LEMMA TakenInv ==
    ASSUME Inv, TypeOK', NEW m \in TickTimes, NEW w \in Workflows, NEW s \in Time, Taken(m, w, s)
    PROVE  Inv'
<1>1. TicksAreYoung'
  BY DEF Inv, TicksAreYoung, Taken
<1>2. HoldsFit' /\ FiredFit'
  BY DEF Inv, HoldsFit, FiredFit, Outlives, Taken, runVars
<1>3. marker[w][s] # 0
  BY TimeIsNat DEF Inv, TypeOK, Taken
<1>4. \A r \in Time : IsDue(cron[m][w], r, now[m]) => r = s
  BY OneIsDue DEF Inv, TypeOK, Taken, Looks
<1>5. LoopFits'
  <2>1. \A k \in TickTimes : todo'[k] = IF k = m THEN todo[m] \ {w} ELSE todo[k]
    BY DEF Inv, TypeOK, Taken, Passes
  <2>2. UNCHANGED <<tick, now, cron, marker>>
    BY DEF Taken
  <2>. QED  BY <1>3, <1>4, <2>1, <2>2 DEF Inv, LoopFits
<1>. QED  BY <1>1, <1>2, <1>5 DEF Inv

\* The heart of the matter: a slot that was claimed before has a marker that is
\* still alive, so that it is not claimed again.
LEMMA ClaimInv ==
    ASSUME Inv, TypeOK', NEW m \in TickTimes, NEW w \in Workflows, NEW s \in Time, Claim(m, w, s)
    PROVE  Inv'
<1>0. /\ tick[m] = "looping" /\ tick[m] \in Active /\ IsDue(cron[m][w], s, now[m])
      /\ s \in Nat /\ clock \in Nat /\ now[m] \in Time /\ now[m] \in Nat /\ marker[w][s] \in Nat
  BY Numbers DEF Inv, Claim, Looks, Active
<1>1. ~Outlives(w, s)
  BY <1>0, MarkerIsAlive DEF Claim
<1>2. fired[w][s] = 0 /\ \A k \in TickTimes : <<w, s>> \notin holds[k]
  BY <1>1 DEF Inv, FiredFit, HoldsFit
<1>3. clock + KeyTTL > s + Window + JobTimeout
  <2>1. s <= now[m] /\ now[m] <= clock
    BY <1>0, DueIsRecent DEF Inv, TicksAreYoung
  <2>. QED  BY <2>1, <1>0, MarkersOutliveTicks, ScheduleAssumption
<1>4. \A x \in Workflows, r \in Time :
         marker'[x][r] = IF x = w /\ r = s THEN clock + KeyTTL ELSE marker[x][r]
  BY DEF Inv, TypeOK, Claim
<1>5. holds' = [holds EXCEPT ![m] = {<<w, s>>}]
  BY DEF Inv, TypeOK, Claim, Looks
<1>6. \A x \in Workflows, r \in Time :
         Outlives(x, r) \/ (x = w /\ r = s) => marker'[x][r] > r + Window + JobTimeout
  BY <1>3, <1>4 DEF Outlives
<1>7. TicksAreYoung'
  BY DEF Inv, TicksAreYoung, Claim
<1>8. HoldsFit'
  <2> SUFFICES ASSUME NEW k \in TickTimes, NEW x \in Workflows, NEW r \in Time,
                      <<x, r>> \in holds'[k]
               PROVE  /\ tick'[k] = "looping" /\ IsDue(cron'[k][x], r, now'[k])
                      /\ marker'[x][r] > r + Window + JobTimeout /\ fired'[x][r] = 0
                      /\ \A l \in TickTimes : <<x, r>> \in holds'[l] => l = k
    BY DEF HoldsFit, Outlives
  <2>. USE DEF Claim, runVars
  <2>1. CASE x = w /\ r = s
    <3>0. \A l \in TickTimes : holds'[l] = IF l = m THEN {<<w, s>>} ELSE holds[l]
      BY <1>5 DEF Inv, TypeOK
    <3>1. \A l \in TickTimes : <<w, s>> \in holds'[l] <=> l = m
      BY <1>2, <3>0
    <3>. QED  BY <2>1, <3>1, <1>0, <1>2, <1>6
  <2>2. CASE ~(x = w /\ r = s)
    <3>1. \A l \in TickTimes : <<x, r>> \in holds'[l] => <<x, r>> \in holds[l]
      BY <1>5, <2>2 DEF Inv, TypeOK
    <3>. QED  BY <3>1, <1>6 DEF Inv, HoldsFit
  <2>. QED  BY <2>1, <2>2
<1>9. FiredFit'
  BY <1>6 DEF Inv, FiredFit, Outlives, Claim, runVars
<1>10. clock + KeyTTL # 0
  BY <1>0, <1>3, ScheduleAssumption
<1>11. LoopFits'
  BY <1>4, <1>10 DEF Inv, LoopFits, Claim
<1>. QED  BY <1>7, <1>8, <1>9, <1>11 DEF Inv

LEMMA EnqueueInv ==
    ASSUME Inv, TypeOK', NEW m \in TickTimes, NEW w \in Workflows, NEW s \in Time, Enqueue(m, w, s)
    PROVE  Inv'
<1>0. /\ IsDue(cron[m][w], s, now[m]) /\ Outlives(w, s) /\ fired[w][s] = 0
      /\ \A k \in TickTimes : <<w, s>> \in holds[k] => k = m
  BY DEF Inv, HoldsFit, Enqueue
<1>1. TicksAreYoung'
  BY DEF Inv, TicksAreYoung, Enqueue
<1>2. \A x \in Workflows, r \in Time : fired'[x][r] = IF x = w /\ r = s THEN 1 ELSE fired[x][r]
  BY <1>0 DEF Inv, TypeOK, Enqueue
<1>3. \A k \in TickTimes : holds'[k] = IF k = m THEN {} ELSE holds[k]
  BY DEF Inv, TypeOK, Enqueue
<1>5. HoldsFit'
  <2> SUFFICES ASSUME NEW k \in TickTimes, NEW x \in Workflows, NEW r \in Time,
                      <<x, r>> \in holds'[k]
               PROVE  /\ tick'[k] = "looping" /\ IsDue(cron'[k][x], r, now'[k])
                      /\ marker'[x][r] > r + Window + JobTimeout /\ fired'[x][r] = 0
                      /\ \A l \in TickTimes : <<x, r>> \in holds'[l] => l = k
    BY DEF HoldsFit, Outlives
  <2>1. k # m /\ <<x, r>> \in holds[k] /\ <<w, s>> \in holds[m]
    BY <1>3 DEF Enqueue
  <2>2. ~(x = w /\ r = s)
    BY <2>1, <1>0
  <2>. QED  BY <1>2, <1>3, <2>1, <2>2 DEF Inv, HoldsFit, Outlives, Enqueue
<1>6. FiredFit'
  BY <1>0, <1>2 DEF Inv, FiredFit, Outlives, Enqueue
<1>7. marker[w][s] # 0
  BY <1>0, TimeIsNat, ScheduleAssumption DEF Inv, TypeOK, Outlives
<1>8. \A r \in Time : IsDue(cron[m][w], r, now[m]) => r = s
  BY <1>0, OneIsDue DEF Inv, TypeOK
<1>9. LoopFits'
  <2>1. \A k \in TickTimes : todo'[k] = IF k = m THEN todo[m] \ {w} ELSE todo[k]
    BY DEF Inv, TypeOK, Enqueue, Passes
  <2>2. UNCHANGED <<tick, now, cron, marker>>
    BY DEF Enqueue
  <2>. QED  BY <1>7, <1>8, <2>1, <2>2 DEF Inv, LoopFits
<1>. QED  BY <1>1, <1>5, <1>6, <1>9 DEF Inv

LEMMA InvStep == Inv /\ [Next]_vars => Inv'
<1> SUFFICES ASSUME Inv, [Next]_vars PROVE Inv'
  OBVIOUS
<1>0. TypeOK'
  BY TypeStep DEF Inv
<1>1. CASE Advance
  BY <1>0, <1>1, AdvanceInv
<1>2. CASE CronDue
  BY <1>0, <1>2, CronDueInv
<1>3. CASE Shutdown
  <2>1. \A m \in TickTimes : IF m \in ActiveTicks THEN tick'[m] \notin Active ELSE tick'[m] = tick[m]
    <3>1. tick' = [m \in TickTimes |-> IF m \in ActiveTicks THEN "queued" ELSE tick[m]]
      BY <1>3 DEF Shutdown
    <3>. QED  BY <3>1 DEF Active
  <2>2. ActiveTicks \in SUBSET TickTimes
    BY DEF ActiveTicks
  <2>. QED  BY <1>0, <1>3, <2>1, <2>2, ForgetInv DEF Shutdown
<1>4. ASSUME NEW m \in TickTimes, Tick(m)  PROVE Inv'
  <2>1. CASE TickEnds(m)
    <3>1. \A k \in TickTimes : IF k \in {m} THEN tick'[k] \notin Active ELSE tick'[k] = tick[k]
      BY <2>1 DEF TickEnds, Inv, TypeOK, Active
    <3>2. {m} \in SUBSET TickTimes /\ Forget({m}) /\ UNCHANGED <<clock, marker, fired>>
      BY <2>1 DEF TickEnds, runVars
    <3>. QED  BY <1>0, <3>1, <3>2, ForgetInv
  <2>2. CASE TickFails(m)
    <3>1. \A k \in TickTimes : IF k \in {m} THEN tick'[k] \notin Active ELSE tick'[k] = tick[k]
      BY <2>2 DEF TickFails, Inv, TypeOK, Active
    <3>2. {m} \in SUBSET TickTimes /\ Forget({m}) /\ UNCHANGED <<clock, marker, fired>>
      BY <2>2 DEF TickFails, runVars
    <3>. QED  BY <1>0, <3>1, <3>2, ForgetInv
  <2>. QED  BY <1>0, <1>4, <2>1, <2>2, TickBeginsInv, SelectInv, TakenInv, ClaimInv, EnqueueInv
            DEF Tick
<1>5. CASE \E w \in Workflows, s \in Time : RunBegins(w, s) \/ RunEnds(w, s)
  BY <1>0, <1>5, AsideInv DEF RunBegins, RunEnds, Inv, TicksAreYoung, tickVars
<1>6. CASE \E w \in Workflows, v \in Versions \cup {0} : Change(w, v)
  BY <1>0, <1>6, AsideInv DEF Change, Inv, TicksAreYoung, tickVars, runVars
<1>7. CASE UNCHANGED vars
  BY <1>0, <1>7, AsideInv DEF vars, Inv, TicksAreYoung, tickVars, runVars
<1>. QED  BY <1>1, <1>2, <1>3, <1>4, <1>5, <1>6, <1>7 DEF Next

(***************************************************************************)
(* The theorems                                                            *)
(***************************************************************************)

\* The variables keep their types (tasks/schedule_dispatcher.py).
THEOREM TypeCorrect == Spec => []TypeOK
<1>. QED  BY TypeInit, TypeStep, PTL DEF Spec

\* The inductive invariant of ticks, markers and runs.
THEOREM InvHolds == Spec => []Inv
<1>. QED  BY InvInit, InvStep, PTL DEF Spec

\* dispatch_due_schedules enqueues at most one run for a slot, however ticks
\* overlap, are repeated or are slow.
THEOREM AtMostOnceHolds == Spec => []AtMostOnce
<1>1. Inv => AtMostOnce
  <2> SUFFICES ASSUME Inv, NEW w \in Workflows, NEW s \in Time PROVE fired[w][s] <= 1
    BY DEF AtMostOnce
  <2>1. fired[w][s] = 0 \/ fired[w][s] = 1
    BY DEF Inv, FiredFit
  <2>. QED  BY <2>1
<1>. QED  BY <1>1, InvHolds, PTL

\* A run is enqueued when its slot is due, and not later than a window and a
\* timeout after.
THEOREM FiredInTimeHolds == Spec => FiredInTime
<1>1. ASSUME Inv, [Next]_vars, NEW w \in Workflows, NEW s \in Time, fired'[w][s] > fired[w][s]
      PROVE  s <= clock /\ clock <= s + Window + JobTimeout
  <2>1. PICK m \in TickTimes, x \in Workflows, r \in Time : Enqueue(m, x, r)
    <3>1. fired' # fired
      <4>1. fired[w][s] \in Nat
        BY <1>1 DEF Inv, TypeOK
      <4>. QED  BY <1>1, <4>1
    <3>. QED  BY <1>1, <3>1 DEF Next, Tick, vars, runVars, Advance, CronDue, Shutdown, TickBegins,
                  Select, TickEnds, TickFails, Taken, Claim, RunBegins, RunEnds, Change
  <2>2. x = w /\ r = s
    <3>1. fired[w][s] \in Nat /\ fired \in [Workflows -> [Time -> Nat]]
      BY <1>1 DEF Inv, TypeOK
    <3>2. ~(x = w /\ r = s) => fired'[w][s] = fired[w][s]
      BY <2>1, <3>1 DEF Enqueue
    <3>. QED  BY <1>1, <3>1, <3>2
  <2>3. tick[m] \in Active /\ IsDue(cron[m][w], s, now[m])
    BY <1>1, <2>1, <2>2 DEF Inv, HoldsFit, Enqueue, Active
  <2>4. now[m] <= clock /\ clock <= now[m] + JobTimeout
    BY <1>1, <2>3 DEF Inv, TicksAreYoung
  <2>5. now[m] \in Time /\ clock \in Time
    BY <1>1 DEF Inv, TypeOK
  <2>6. s <= now[m] /\ now[m] <= s + Window
    BY <2>3, <2>5, DueIsRecent
  <2>7. s \in Nat /\ now[m] \in Nat /\ clock \in Nat
    BY <1>1, Numbers DEF Inv
  <2>. QED  BY <2>4, <2>6, <2>7, ScheduleAssumption
<1>2. Inv /\ [Next]_vars =>
         [\A w \in Workflows, s \in Time : fired'[w][s] > fired[w][s] =>
             s <= clock /\ clock <= s + Window + JobTimeout]_vars
  BY <1>1
<1>. QED  BY <1>2, InvHolds, PTL DEF Spec, FiredInTime

\* A tick that ends has seen to every workflow it found due.
THEOREM TickIsThoroughHolds == Spec => TickIsThorough
<1>1. ASSUME Inv, [Next]_vars, NEW m \in TickTimes, tick[m] = "looping", tick'[m] = "ended",
             NEW w \in Workflows, NEW s \in Time, cron[m][w] # 0, IsDue(cron[m][w], s, now[m])
      PROVE  marker[w][s] # 0
  <2>0. TypeOK /\ tick'[m] # tick[m]
    BY <1>1 DEF Inv
  <2>1. TickEnds(m)
    <3>1. CASE \E k \in TickTimes : Tick(k)
      <4>1. PICK k \in TickTimes : Tick(k)
        BY <3>1
      <4>2. CASE TickBegins(k)
        BY <1>1, <2>0, <4>2 DEF TypeOK, TickBegins
      <4>3. CASE Select(k)
        BY <1>1, <2>0, <4>3 DEF TypeOK, Select
      <4>4. CASE TickEnds(k)
        BY <1>1, <2>0, <4>4 DEF TypeOK, TickEnds
      <4>5. CASE TickFails(k)
        BY <1>1, <2>0, <4>5 DEF TypeOK, TickFails
      <4>6. CASE \E v \in Workflows, z \in Time : Taken(k, v, z) \/ Claim(k, v, z) \/ Enqueue(k, v, z)
        BY <2>0, <4>6 DEF Taken, Claim, Enqueue
      <4>. QED  BY <4>1, <4>2, <4>3, <4>4, <4>5, <4>6 DEF Tick
    <3>2. CASE CronDue
      BY <1>1, <2>0, <3>2 DEF TypeOK, CronDue
    <3>3. CASE Shutdown
      BY <1>1, <2>0, <3>3 DEF Shutdown
    <3>4. CASE Advance \/ UNCHANGED vars
      BY <2>0, <3>4 DEF Advance, vars, tickVars
    <3>5. CASE \E v \in Workflows, z \in Time : RunBegins(v, z) \/ RunEnds(v, z)
      BY <2>0, <3>5 DEF RunBegins, RunEnds, tickVars
    <3>6. CASE \E v \in Workflows, x \in Versions \cup {0} : Change(v, x)
      BY <2>0, <3>6 DEF Change, tickVars
    <3>. QED  BY <1>1, <3>1, <3>2, <3>3, <3>4, <3>5, <3>6 DEF Next
  <2>. QED  BY <1>1, <2>1 DEF TickEnds, Inv, LoopFits
<1>2. Inv /\ [Next]_vars =>
         [\A m \in TickTimes : tick[m] = "looping" /\ tick'[m] = "ended" =>
             \A w \in Workflows, s \in Time :
                 cron[m][w] # 0 /\ IsDue(cron[m][w], s, now[m]) => marker[w][s] # 0]_vars
  BY <1>1
<1>. QED  BY <1>2, InvHolds, PTL DEF Spec, TickIsThorough
=============================================================================
