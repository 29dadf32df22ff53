------------------------- MODULE ScheduleDispatcher -------------------------
(***************************************************************************)
(* The worker's cron tick that fires scheduled workflows                   *)
(* (tasks/schedule_dispatcher.py), the runs it enqueues                    *)
(* (tasks/workflow_runner.py), and the pool of the worker that both share  *)
(* (tasks/worker.py).                                                      *)
(*                                                                         *)
(* Replicas of the worker are one pool here: they share the queue, and a   *)
(* tick is handed to one of them.  Ticks overlap when the pool was busy.   *)
(***************************************************************************)
EXTENDS Integers, FiniteSets

CONSTANTS
    Workflows,
    Versions,
    Slots(_),       \* the times at which the schedule of a version is due
    TickTimes,      \* when the cron is due
    Window,         \* _DUE_WINDOW_SECONDS
    KeyTTL,         \* of the marker of a slot, 3600 s in the code
    JobTimeout,     \* 600 s in the code
    MaxJobs,        \* 4 in the code
    MaxTime,        \* bound on the clock
    MaxUpsets       \* bound on changes of the workflows' status, failed ticks
                    \* and shutdowns of the worker, together

Time == 0..MaxTime

ASSUME ScheduleAssumption ==
    /\ Window \in Nat /\ KeyTTL \in Nat /\ JobTimeout \in Nat /\ MaxTime \in Nat
    /\ MaxJobs \in Nat \ {0} /\ MaxUpsets \in Nat
    /\ TickTimes \subseteq Time
    /\ \A v \in Versions : Slots(v) \subseteq Time
    /\ 0 \notin Versions

\* A marker lives longer than anybody may still ask for its slot.
ASSUME MarkersOutliveTicks == Window + JobTimeout < KeyTTL

VARIABLES
    clock,
    live,       \* the published version of a workflow, 0 when there is none
    tick,       \* the job of a tick
    now,        \* the time it took when it began
    todo,       \* the workflows it has found due and not looked at yet
    cron,       \* the version it selected of each
    holds,      \* the slot whose marker it has set and that it has not enqueued
    marker,     \* when the marker of a slot expires, 0 before it is set
    fired,      \* history: how often a run was enqueued for a slot
    run,        \* the job of that run
    upsets      \* how many there were

tickVars == <<tick, now, todo, cron, holds>>
runVars == <<fired, run>>
vars == <<clock, live, tickVars, marker, runVars, upsets>>

Active == {"begun", "looping"}
JobState == {"none", "queued", "running", "ended"}

TypeOK ==
    /\ clock \in Time
    /\ live \in [Workflows -> Versions \cup {0}]
    /\ tick \in [TickTimes -> Active \cup {"none", "queued", "ended", "failed"}]
    /\ now \in [TickTimes -> Time]
    /\ todo \in [TickTimes -> SUBSET Workflows]
    /\ cron \in [TickTimes -> [Workflows -> Versions \cup {0}]]
    /\ holds \in [TickTimes -> SUBSET (Workflows \X Time)]
    /\ marker \in [Workflows -> [Time -> Nat]]
    /\ fired \in [Workflows -> [Time -> Nat]]
    /\ run \in [Workflows -> [Time -> JobState]]
    /\ upsets \in 0..MaxUpsets

(***************************************************************************)
(* The pool                                                                *)
(***************************************************************************)

ActiveTicks == {m \in TickTimes : tick[m] \in Active}
ActiveRuns == {j \in Workflows \X Time : run[j[1]][j[2]] = "running"}
QueuedTicks == {m \in TickTimes : tick[m] = "queued"}
QueuedRuns == {j \in Workflows \X Time : run[j[1]][j[2]] = "queued"}
PoolHasRoom == Cardinality(ActiveTicks) + Cardinality(ActiveRuns) < MaxJobs

\* Time goes on when the cron has had its turn, nobody waits for a free place,
\* and no tick is older than its timeout.
Advance ==
    /\ clock < MaxTime
    /\ clock \in TickTimes => tick[clock] # "none"
    /\ PoolHasRoom => QueuedTicks = {} /\ QueuedRuns = {}
    /\ \A m \in ActiveTicks : clock < now[m] + JobTimeout
    /\ clock' = clock + 1
    /\ UNCHANGED <<live, tickVars, marker, runVars, upsets>>

\* A tick that is over keeps nothing.
Forget(M) ==
    /\ now' = [m \in TickTimes |-> IF m \in M THEN 0 ELSE now[m]]
    /\ todo' = [m \in TickTimes |-> IF m \in M THEN {} ELSE todo[m]]
    /\ holds' = [m \in TickTimes |-> IF m \in M THEN {} ELSE holds[m]]
    /\ cron' = [m \in TickTimes |-> IF m \in M THEN [w \in Workflows |-> 0] ELSE cron[m]]

Upset == upsets < MaxUpsets /\ upsets' = upsets + 1

\* The cron enqueues one job for a minute, whatever the number of replicas.
CronDue ==
    /\ clock \in TickTimes /\ tick[clock] = "none"
    /\ tick' = [tick EXCEPT ![clock] = "queued"]
    /\ UNCHANGED <<clock, live, now, todo, cron, holds, marker, runVars, upsets>>

\* The worker shuts down: jobs that run are canceled and run again later.
Shutdown ==
    /\ Upset
    /\ tick' = [m \in TickTimes |-> IF m \in ActiveTicks THEN "queued" ELSE tick[m]]
    /\ Forget(ActiveTicks)
    /\ run' = [w \in Workflows |-> [s \in Time |->
                  IF <<w, s>> \in ActiveRuns THEN "queued" ELSE run[w][s]]]
    /\ UNCHANGED <<clock, live, marker, fired>>

(***************************************************************************)
(* dispatch_due_schedules                                                  *)
(***************************************************************************)

TickBegins(m) ==
    /\ tick[m] = "queued" /\ PoolHasRoom
    /\ tick' = [tick EXCEPT ![m] = "begun"]
    /\ now' = [now EXCEPT ![m] = clock]
    /\ UNCHANGED <<clock, live, todo, cron, holds, marker, runVars, upsets>>

\* _due_slot: the last slot before the time of the tick, unless it is too old.
Passed(v, t) == {s \in Slots(v) : s <= t}
\* (Definitions with a suffix after the underscore, here and below, are broken
\* variants of the definition that follows; nothing uses them.)
IsDue_anyAge(v, s, t) ==
    s \in Passed(v, t) /\ \A r \in Passed(v, t) : r <= s
IsDue(v, s, t) ==
    s \in Passed(v, t) /\ (\A r \in Passed(v, t) : r <= s) /\ t - s <= Window

\* The published workflows, with the version that is published now.  Those that
\* are not due are passed over in the loop, and change nothing.
Select(m) ==
    /\ tick[m] = "begun"
    /\ tick' = [tick EXCEPT ![m] = "looping"]
    /\ todo' = [todo EXCEPT ![m] =
          {w \in Workflows : live[w] # 0 /\ \E s \in Time : IsDue(live[w], s, now[m])}]
    /\ cron' = [cron EXCEPT ![m] = live]
    /\ UNCHANGED <<clock, live, now, holds, marker, runVars, upsets>>

Looks(m, w, s) ==
    /\ tick[m] = "looping" /\ w \in todo[m] /\ holds[m] = {}
    /\ IsDue(cron[m][w], s, now[m])
Passes(m, w) == todo' = [todo EXCEPT ![m] = @ \ {w}]

\* SET NX of the marker: somebody else has the slot, or it is this tick's.
Taken_stops(m, w, s) ==
    /\ Looks(m, w, s) /\ marker[w][s] > clock
    /\ todo' = [todo EXCEPT ![m] = {}]
    /\ UNCHANGED <<clock, live, tick, now, cron, holds, marker, runVars, upsets>>
Taken(m, w, s) ==
    /\ Looks(m, w, s) /\ marker[w][s] > clock
    /\ Passes(m, w)
    /\ UNCHANGED <<clock, live, tick, now, cron, holds, marker, runVars, upsets>>

Claim_always(m, w, s) ==
    /\ Looks(m, w, s)
    /\ marker' = [marker EXCEPT ![w][s] = clock + KeyTTL]
    /\ holds' = [holds EXCEPT ![m] = @ \cup {<<w, s>>}]
    /\ UNCHANGED <<clock, live, tick, now, todo, cron, runVars, upsets>>
Claim(m, w, s) ==
    /\ Looks(m, w, s) /\ marker[w][s] <= clock
    /\ marker' = [marker EXCEPT ![w][s] = clock + KeyTTL]
    /\ holds' = [holds EXCEPT ![m] = @ \cup {<<w, s>>}]
    /\ UNCHANGED <<clock, live, tick, now, todo, cron, runVars, upsets>>

Enqueue(m, w, s) ==
    /\ tick[m] = "looping" /\ <<w, s>> \in holds[m]
    /\ fired' = [fired EXCEPT ![w][s] = @ + 1]
    /\ run' = [run EXCEPT ![w][s] = "queued"]
    /\ holds' = [holds EXCEPT ![m] = {}] /\ Passes(m, w)
    /\ UNCHANGED <<clock, live, tick, now, cron, marker, upsets>>

TickEnds(m) ==
    /\ tick[m] = "looping" /\ todo[m] = {}
    /\ tick' = [tick EXCEPT ![m] = "ended"] /\ Forget({m})
    /\ UNCHANGED <<clock, live, marker, runVars, upsets>>

\* The database or Redis fails, or the timeout cancels the tick: it is not tried
\* again.
TickFails(m) ==
    /\ tick[m] \in Active /\ Upset
    /\ tick' = [tick EXCEPT ![m] = "failed"] /\ Forget({m})
    /\ UNCHANGED <<clock, live, marker, runVars>>

(***************************************************************************)
(* run_workflow_execution                                                  *)
(***************************************************************************)

RunBegins(w, s) ==
    /\ run[w][s] = "queued" /\ PoolHasRoom
    /\ run' = [run EXCEPT ![w][s] = "running"]
    /\ UNCHANGED <<clock, live, tickVars, marker, fired, upsets>>

\* The stream of events ends, the run parks and is left, something raises, or
\* the timeout cancels it: all of that is an end of the job.
RunEnds(w, s) ==
    /\ run[w][s] = "running"
    /\ run' = [run EXCEPT ![w][s] = "ended"]
    /\ UNCHANGED <<clock, live, tickVars, marker, fired, upsets>>

(***************************************************************************)
(* Specification                                                           *)
(***************************************************************************)

\* Publish, unpublish and delete (services/workflow_service.py).
Change(w, v) ==
    /\ Upset
    /\ live[w] # v /\ live' = [live EXCEPT ![w] = v]
    /\ UNCHANGED <<clock, tickVars, marker, runVars>>

Init ==
    /\ clock = 0 /\ live \in [Workflows -> Versions]
    /\ tick = [m \in TickTimes |-> "none"]
    /\ now = [m \in TickTimes |-> 0]
    /\ todo = [m \in TickTimes |-> {}] /\ holds = [m \in TickTimes |-> {}]
    /\ cron = [m \in TickTimes |-> [w \in Workflows |-> 0]]
    /\ marker = [w \in Workflows |-> [s \in Time |-> 0]]
    /\ fired = [w \in Workflows |-> [s \in Time |-> 0]]
    /\ run = [w \in Workflows |-> [s \in Time |-> "none"]]
    /\ upsets = 0

Tick(m) ==
    \/ TickBegins(m) \/ Select(m) \/ TickEnds(m) \/ TickFails(m)
    \/ \E w \in Workflows, s \in Time : Taken(m, w, s) \/ Claim(m, w, s) \/ Enqueue(m, w, s)

Next ==
    \/ Advance \/ CronDue \/ Shutdown
    \/ \E m \in TickTimes : Tick(m)
    \/ \E w \in Workflows, s \in Time : RunBegins(w, s) \/ RunEnds(w, s)
    \/ \E w \in Workflows, v \in Versions \cup {0} : Change(w, v)

Spec == Init /\ [][Next]_vars

(***************************************************************************)
(* Properties                                                              *)
(***************************************************************************)

\* Hazard: ticks overlap, take their time from different moments, are repeated
\* after a shutdown, and their markers expire.  No slot is fired twice.
AtMostOnce == \A w \in Workflows, s \in Time : fired[w][s] <= 1

\* Hazard: the time is taken before the rows are read, and the enqueue comes
\* later still.  A slot is fired when it is due and not long after.
FiredInTime ==
    [][\A w \in Workflows, s \in Time : fired'[w][s] > fired[w][s] =>
           s <= clock /\ clock <= s + Window + JobTimeout]_vars

\* Hazard: one workflow that was fired already, or is not due, must not keep the
\* others from being fired.  A tick that ends has seen to every workflow that was
\* published when it looked: the slot has a run, or a tick that claimed it first.
TickIsThorough ==
    [][\A m \in TickTimes : tick[m] = "looping" /\ tick'[m] = "ended" =>
          \A w \in Workflows, s \in Time :
              cron[m][w] # 0 /\ IsDue(cron[m][w], s, now[m]) => marker[w][s] # 0]_vars
=============================================================================
