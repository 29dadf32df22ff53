---------------------------- MODULE DynamiqFlow ----------------------------
(***************************************************************************)
(* A Flow of the dynamiq library (flows/flow.py): its main loop, the node  *)
(* threads it waits for (nodes/node.py, executors/pool.py), and the        *)
(* checkpoints both of them write (checkpoints/checkpoint.py).             *)
(*                                                                         *)
(* The main loop takes what the topological sorter hands out, submits it,  *)
(* and collects results: run_sync as soon as one is there, run_async when  *)
(* all are.  A node may ask a person for approval, retry, time out and     *)
(* leave the attempt behind, or be an agent that works in iterations and   *)
(* saves after each.  The process may crash, the run may be canceled, a    *)
(* save may fail; a later run resumes from the latest snapshot, or starts  *)
(* afresh on the same Flow object.                                         *)
(***************************************************************************)
EXTENDS Integers, FiniteSets

CONSTANTS
    Nodes,
    Flows,        \* the flows that may run, see Flow
    Workers,      \* max_node_workers
    MaxLoops,     \* max_loops of the agents
    MaxRuns,      \* bound on runs, fresh and resumed
    MaxCrashes,   \* bound on crashes of the process
    MaxLost       \* bound on saves that fail

Results == {"success", "failure", "skip"}

\* What the node objects and the configuration say.  Excluded nodes are left out
\* of checkpoints; agents are the nodes whose iterations are saved.
Flow == [async : BOOLEAN,                  \* run_async rather than run_sync
         deps : [Nodes -> SUBSET Nodes],
         raises : SUBSET Nodes,            \* error_handling.behavior is RAISE
         choice : SUBSET Nodes,            \* waits for a condition or an option
         approval : SUBSET Nodes,
         agents : SUBSET Nodes,
         excluded : SUBSET Nodes,
         tries : [Nodes -> Nat \ {0}],     \* max_retries + 1
         timeout : SUBSET Nodes]           \* timeout_seconds is set

\* The sorter refuses a cycle.
Acyclic(f) ==
    \A S \in SUBSET Nodes : S # {} => \E n \in S : f.deps[n] \cap S = {}

ASSUME FlowAssumption ==
    /\ IsFiniteSet(Nodes)
    /\ \A f \in Flows : f \in Flow /\ Acyclic(f)
    /\ Workers \in Nat \ {0} /\ MaxLoops \in Nat
    /\ MaxRuns \in Nat /\ MaxCrashes \in Nat /\ MaxLost \in Nat

VARIABLES
    flow,      \* the definition
    pc,        \* the main loop
    outcome,   \* how the run ended
    canceled,  \* the cancellation token
    dropped,   \* the task of run_async was canceled while it waited
    result,    \* self._results
    handed,    \* what the sorter has handed out
    done,      \* what it was told is done
    work,      \* what the thread of a node is doing, or its uncollected result
    tries,     \* attempts that began
    at,        \* iterations the attempt has behind it
    late,      \* the same of an attempt that timed out and runs on, or -1
    former,    \* nodes whose late attempt is of an earlier run
    answer,    \* node._pending_approval_response
    resumed,   \* node._is_resumed
    restored,  \* node._iteration_state, 0 when there is none to consume
    loops,     \* node._completed_loops
    cp,        \* self._checkpoint
    store,     \* the latest snapshot in the backend
    said,      \* history: the person's last answer, in each chain of snapshots
    fresh,     \* history: the run did not resume
    runs, crashes, lost   \* how often each happened

loopVars == <<pc, outcome, canceled, dropped, result, handed, done>>
threadVars == <<work, tries, at, late, former>>
nodeVars == <<answer, resumed, restored, loops>>
saveVars == <<cp, store, lost>>
history == <<said, fresh, runs, crashes>>
vars == <<flow, loopVars, threadVars, nodeVars, saveVars, history>>

Answers == {"none", "approved", "rejected"}
OnThread == {"asking", "ready", "running", "acted"}
Ended == Results \cup {"canceled"}

\* FlowCheckpoint; chain counts the fresh runs, 0 stands for no checkpoint.
Snapshot == [chain : 0..MaxRuns,
             status : {"active", "pending_input", "completed", "failed", "canceled"},
             st : [Nodes -> Results \cup {"absent", "active"}],
             ans : [Nodes -> Answers],
             loops : [Nodes -> 0..MaxLoops],
             pending : SUBSET Nodes]

NoSnapshot(c) ==
    [chain |-> c, status |-> "active", st |-> [n \in Nodes |-> "absent"],
     ans |-> [n \in Nodes |-> "none"], loops |-> [n \in Nodes |-> 0], pending |-> {}]

TypeOK ==
    /\ flow \in Flows
    /\ pc \in {"off", "loop", "wait", "closing", "over"}
    /\ outcome \in {"none", "success", "failure", "canceled"}
    /\ canceled \in BOOLEAN /\ dropped \in BOOLEAN /\ fresh \in BOOLEAN
    /\ result \in [Nodes -> Ended \cup {"undefined"}]
    /\ handed \in SUBSET Nodes /\ done \in SUBSET Nodes /\ resumed \in SUBSET Nodes
    /\ former \in SUBSET Nodes
    /\ work \in [Nodes -> OnThread \cup Ended \cup {"none", "queued"}]
    /\ tries \in [Nodes -> Nat]
    /\ at \in [Nodes -> 0..MaxLoops] /\ restored \in [Nodes -> 0..MaxLoops]
    /\ loops \in [Nodes -> 0..MaxLoops]
    /\ late \in [Nodes -> {-1} \cup 0..MaxLoops]
    /\ answer \in [Nodes -> Answers] /\ said \in [1..MaxRuns -> [Nodes -> Answers]]
    /\ cp \in Snapshot /\ store \in Snapshot
    /\ runs \in 0..MaxRuns /\ crashes \in 0..MaxCrashes /\ lost \in 0..MaxLost

Set(f, S, v) == [n \in Nodes |-> IF n \in S THEN v ELSE f[n]]

(***************************************************************************)
(* Saving                                                                  *)
(***************************************************************************)

\* _save_checkpoint_unlocked: a save that fails is logged, no more.
Save(c) ==
    /\ cp' = c
    /\ \/ store' = c /\ UNCHANGED lost
       \/ lost < MaxLost /\ lost' = lost + 1 /\ UNCHANGED store

Completed(c) == {n \in Nodes : c.st[n] \in Results}

\* _update_checkpoint with the results of a batch.  (Definitions with a suffix
\* after the underscore, here and below, are broken variants of the definition
\* that follows; nothing uses them.)
Update_failed(c, B) ==
    LET R == {n \in B \ flow.excluded : work[n] # "skip"}
    IN  [c EXCEPT !.status = "active",
                  !.st = [n \in Nodes |-> IF n \in R THEN work[n] ELSE @[n]],
                  !.ans = [n \in Nodes |-> IF n \in R THEN answer[n] ELSE @[n]],
                  !.loops = [n \in Nodes |-> IF n \in R THEN loops[n] ELSE @[n]]]
Update(c, B) ==
    LET R == B \ flow.excluded
    IN  [c EXCEPT !.status = "active",
                  !.st = [n \in Nodes |-> IF n \in R THEN work[n] ELSE @[n]],
                  !.ans = [n \in Nodes |-> IF n \in R THEN answer[n] ELSE @[n]],
                  !.loops = [n \in Nodes |-> IF n \in R THEN loops[n] ELSE @[n]]]

\* on_pending_input and on_input_received.
MarkPending(c, n) == [c EXCEPT !.pending = @ \cup {n}, !.status = "pending_input"]
ClearPending_all(c, n) == [c EXCEPT !.pending = {}, !.status = "active"]
ClearPending(c, n) ==
    LET left == c.pending \ {n}
    IN  [c EXCEPT !.pending = left, !.status = IF left = {} THEN "active" ELSE @]

\* on_save_mid_run, after k iterations of n.
MidRun(c, n, k) ==
    [c EXCEPT !.st[n] = IF @ = "absent" THEN "active" ELSE @,
              !.ans[n] = answer[n], !.loops[n] = k]

(***************************************************************************)
(* Runs                                                                    *)
(***************************************************************************)

\* A new run of either kind: the sorter is new, and so is the token.  A late
\* attempt of a canceled run sees the old token and saves no more.
Enter(c) ==
    /\ pc \in {"off", "over"} /\ runs < MaxRuns /\ runs' = runs + 1
    /\ pc' = "loop" /\ outcome' = "none"
    /\ canceled' = FALSE /\ dropped' = FALSE
    /\ handed' = {} /\ done' = {}
    /\ late' = [n \in Nodes |-> IF canceled THEN -1 ELSE late[n]]
    /\ former' = {n \in Nodes : late'[n] # -1}
    /\ Save(c)
    /\ UNCHANGED <<flow, work, tries, at, loops, crashes>>

\* run_sync and run_async without resume_from: reset_run_state.
Start ==
    /\ Enter(NoSnapshot(store.chain + 1))
    /\ result' = [n \in Nodes |-> "undefined"]
    /\ resumed' = {}
    /\ said' = [said EXCEPT ![store.chain + 1] = [n \in Nodes |-> "none"]] /\ fresh' = TRUE
    /\ UNCHANGED <<answer, restored>>

\* With resume_from the latest snapshot: _restore_from_checkpoint.
Resume_allResults ==
    /\ store.chain > 0
    /\ Enter([store EXCEPT !.pending = {}, !.status = "active"])
    /\ result' = [n \in Nodes |-> IF store.st[n] = "success" THEN store.st[n] ELSE "undefined"]
    /\ resumed' = resumed \cup {n \in Nodes : store.st[n] # "absent"}
    /\ answer' = [n \in Nodes |-> IF store.ans[n] # "none" THEN store.ans[n] ELSE answer[n]]
    /\ restored' = [n \in Nodes |-> IF n \in flow.agents /\ store.st[n] # "absent"
                                     THEN store.loops[n] ELSE restored[n]]
    /\ fresh' = FALSE
    /\ UNCHANGED said
Resume ==
    /\ store.chain > 0
    /\ Enter([store EXCEPT !.pending = {}, !.status = "active"])
    /\ result' = [n \in Nodes |-> IF store.st[n] \in Results THEN store.st[n] ELSE "undefined"]
    /\ resumed' = resumed \cup {n \in Nodes : store.st[n] # "absent"}
    /\ answer' = [n \in Nodes |-> IF store.ans[n] # "none" THEN store.ans[n] ELSE answer[n]]
    /\ restored' = [n \in Nodes |-> IF n \in flow.agents /\ store.st[n] # "absent"
                                     THEN store.loops[n] ELSE restored[n]]
    /\ fresh' = FALSE
    /\ UNCHANGED said

\* The process dies, and with it all but the backend.
Crash ==
    /\ pc # "off" /\ crashes < MaxCrashes /\ crashes' = crashes + 1
    /\ pc' = "off" /\ outcome' = "none" /\ canceled' = FALSE /\ dropped' = FALSE
    /\ result' = [n \in Nodes |-> "undefined"] /\ handed' = {} /\ done' = {}
    /\ work' = [n \in Nodes |-> "none"] /\ late' = [n \in Nodes |-> -1] /\ former' = {}
    /\ tries' = [n \in Nodes |-> 0] /\ at' = [n \in Nodes |-> 0]
    /\ answer' = [n \in Nodes |-> "none"] /\ resumed' = {}
    /\ restored' = [n \in Nodes |-> 0] /\ loops' = [n \in Nodes |-> 0]
    /\ cp' = NoSnapshot(0)
    /\ UNCHANGED <<flow, store, lost, said, fresh, runs>>

(***************************************************************************)
(* The main loop                                                           *)
(***************************************************************************)

InFlight == {n \in Nodes : work[n] # "none"}
Uncollected == {n \in Nodes : work[n] \in Ended}

\* The executor's shutdown: run_sync waits for its threads, run_async has
\* awaited them.
Finish(how) ==
    /\ outcome' = how
    /\ pc' = IF flow.async THEN "over" ELSE "closing"

\* _get_nodes_ready_to_run, and the submission of what is not completed yet.
HandOut_all ==
    /\ pc = "loop" /\ done # Nodes /\ ~canceled
    /\ LET ready == {n \in Nodes \ handed : flow.deps[n] \subseteq done}
       IN  /\ handed' = handed \cup ready
           /\ work' = Set(work, ready, "queued")
           /\ pc' = IF InFlight \cup ready = {} THEN "loop" ELSE "wait"
    /\ UNCHANGED <<flow, outcome, canceled, dropped, result, done, tries, at, late, former,
                   nodeVars, saveVars, history>>
HandOut_noDone ==
    /\ pc = "loop" /\ done # Nodes /\ ~canceled
    /\ LET ready == {n \in Nodes \ handed : flow.deps[n] \subseteq done}
           todo == {n \in ready \ Completed(cp) :
                       \A d \in flow.deps[n] : result[d] # "undefined"}
       IN  /\ handed' = handed \cup ready
           /\ work' = Set(work, todo, "queued")
           /\ pc' = IF InFlight \cup todo = {} THEN "loop" ELSE "wait"
    /\ UNCHANGED <<flow, outcome, canceled, dropped, result, done, tries, at, late, former,
                   nodeVars, saveVars, history>>
HandOut ==
    /\ pc = "loop" /\ done # Nodes /\ ~canceled
    /\ LET ready == {n \in Nodes \ handed : flow.deps[n] \subseteq done}
           todo == {n \in ready \ Completed(cp) :
                       \A d \in flow.deps[n] : result[d] # "undefined"}
       IN  /\ handed' = handed \cup ready
           /\ done' = done \cup (ready \cap Completed(cp))
           /\ work' = Set(work, todo, "queued")
           /\ pc' = IF InFlight \cup todo = {} THEN "loop" ELSE "wait"
    /\ UNCHANGED <<flow, outcome, canceled, dropped, result, tries, at, late, former,
                   nodeVars, saveVars, history>>

\* The first results of execute, or all of gather.  A canceled node ends the
\* run before the results that came with it are recorded.
Collect ==
    /\ pc = "wait" /\ Uncollected # {} /\ ~dropped
    /\ flow.async => InFlight = Uncollected
    /\ result' = [n \in Nodes |-> IF n \in Uncollected THEN work[n] ELSE result[n]]
    /\ done' = done \cup Uncollected
    /\ work' = Set(work, Uncollected, "none")
    /\ IF \E n \in Uncollected : work[n] = "canceled"
       THEN Save([cp EXCEPT !.status = "canceled"]) /\ Finish("canceled")
       ELSE Save(Update(cp, Uncollected)) /\ pc' = "loop" /\ UNCHANGED outcome
    /\ UNCHANGED <<flow, canceled, dropped, handed, tries, at, late, former,
                   nodeVars, history>>

\* All nodes are done.
End ==
    /\ pc = "loop" /\ done = Nodes
    /\ IF \E n \in flow.raises : result[n] = "failure"
       THEN Save([cp EXCEPT !.status = "failed"]) /\ Finish("failure")
       ELSE Save([cp EXCEPT !.status = "completed"]) /\ Finish("success")
    /\ UNCHANGED <<flow, canceled, dropped, result, handed, done, threadVars,
                   nodeVars, history>>

\* check_cancellation at the top of the loop.
StopCanceled ==
    /\ pc = "loop" /\ done # Nodes /\ canceled
    /\ Save([cp EXCEPT !.status = "canceled"]) /\ Finish("canceled")
    /\ UNCHANGED <<flow, canceled, dropped, result, handed, done, threadVars,
                   nodeVars, history>>

\* The finally of run_sync: what is in flight runs to its end, unrecorded.
Close ==
    /\ pc = "closing" /\ InFlight = Uncollected
    /\ pc' = "over" /\ work' = [n \in Nodes |-> "none"]
    /\ UNCHANGED <<flow, outcome, canceled, dropped, result, handed, done, tries, at,
                   late, former, nodeVars, saveVars, history>>

\* Somebody signals the token.
Cancel ==
    /\ pc \in {"loop", "wait"} /\ ~canceled
    /\ canceled' = TRUE
    /\ UNCHANGED <<flow, pc, outcome, dropped, result, handed, done, threadVars,
                   nodeVars, saveVars, history>>

\* Somebody cancels the task of run_async.  Between batches that is the end of
\* it; in gather the nodes are canceled first, and their results are lost.
CancelTask ==
    /\ flow.async /\ ~dropped
    /\ canceled' = TRUE
    /\ \/ /\ pc = "loop" /\ Save([cp EXCEPT !.status = "canceled"]) /\ Finish("canceled")
          /\ UNCHANGED dropped
       \/ pc = "wait" /\ dropped' = TRUE /\ UNCHANGED <<pc, outcome, saveVars>>
    /\ UNCHANGED <<flow, result, handed, done, threadVars, nodeVars, history>>

StopDropped ==
    /\ pc = "wait" /\ dropped /\ InFlight = Uncollected
    /\ work' = [n \in Nodes |-> "none"]
    /\ Save([cp EXCEPT !.status = "canceled"]) /\ Finish("canceled")
    /\ UNCHANGED <<flow, canceled, dropped, result, handed, done, tries, at, late,
                   former, nodeVars, history>>

(***************************************************************************)
(* The threads of the nodes                                                *)
(***************************************************************************)

Becomes(n, w) == work' = [work EXCEPT ![n] = w]

\* validate_depends.
Blocked_byFailure(n) == \E d \in flow.deps[n] \cap flow.raises : result[d] = "failure"
Blocked(n) == \E d \in flow.deps[n] \cap flow.raises : result[d] \in {"failure", "skip"}

\* _prepare_execution: an answer is kept only by a node that was resumed.
Kept_always(n) == answer[n]
Kept(n) == IF n \in resumed THEN answer[n] ELSE "none"

HasThread == Cardinality({n \in Nodes : work[n] \in OnThread}) < Workers

\* run_sync up to the first attempt.
Begin(n) ==
    /\ work[n] = "queued" /\ HasThread
    /\ answer' = [answer EXCEPT ![n] = Kept(n)]
    /\ tries' = [tries EXCEPT ![n] = 0]
    /\ \/ /\ Blocked(n) \/ n \in flow.choice
          /\ Becomes(n, "skip") /\ UNCHANGED saveVars
       \/ /\ ~Blocked(n) /\ n \notin flow.approval
          /\ Becomes(n, "ready") /\ UNCHANGED saveVars
       \/ /\ ~Blocked(n) /\ n \in flow.approval /\ canceled
          /\ Becomes(n, "canceled") /\ UNCHANGED saveVars
       \/ /\ ~Blocked(n) /\ n \in flow.approval /\ ~canceled /\ Kept(n) # "none"
          /\ Becomes(n, IF Kept(n) = "approved" THEN "ready" ELSE "skip")
          /\ UNCHANGED saveVars
       \/ /\ ~Blocked(n) /\ n \in flow.approval /\ ~canceled /\ Kept(n) = "none"
          /\ Becomes(n, "asking") /\ Save(MarkPending(cp, n))
    /\ UNCHANGED <<flow, loopVars, at, late, former, resumed, restored, loops, history>>

\* send_approval_message returns.
Answer(n, a) ==
    /\ work[n] = "asking"
    /\ answer' = [answer EXCEPT ![n] = a] /\ said' = [said EXCEPT ![cp.chain][n] = a]
    /\ Save(ClearPending(cp, n))
    /\ Becomes(n, IF a = "approved" THEN "ready" ELSE "skip")
    /\ UNCHANGED <<flow, loopVars, tries, at, late, former, resumed, restored, loops,
                   fresh, runs, crashes>>

\* Or it does not: nobody answers in time, or the run is canceled.
GiveUp(n) ==
    /\ work[n] = "asking"
    /\ Becomes(n, "failure")
    /\ UNCHANGED <<flow, loopVars, tries, at, late, former, nodeVars, saveVars, history>>

\* The thread sees the token: while it asks, before an attempt, and wherever an
\* agent checks.
SeeCancel(n) ==
    /\ canceled /\ work[n] \in OnThread
    /\ Becomes(n, "canceled")
    /\ UNCHANGED <<flow, loopVars, tries, at, late, former, nodeVars, saveVars, history>>

\* transform_input or validate_input_schema raises.
Invalid(n) ==
    /\ work[n] = "ready" /\ tries[n] = 0
    /\ Becomes(n, "failure")
    /\ UNCHANGED <<flow, loopVars, tries, at, late, former, nodeVars, saveVars, history>>

Again(n, k) == IF k < flow.tries[n] THEN "ready" ELSE "failure"

\* execute_with_retry: the next attempt, which an agent starts with the
\* iterations that were restored, and restores only once.
Attempt_forgets(n) ==
    /\ work[n] = "ready" /\ ~canceled
    /\ tries' = [tries EXCEPT ![n] = @ + 1]
    /\ Becomes(n, "running")
    /\ at' = [at EXCEPT ![n] = 0]
    /\ IF n \in flow.agents
       THEN /\ restored' = [restored EXCEPT ![n] = 0] /\ loops' = [loops EXCEPT ![n] = 0]
            /\ resumed' = resumed \ {n}
       ELSE UNCHANGED <<restored, loops, resumed>>
    /\ UNCHANGED <<flow, loopVars, late, former, answer, saveVars, history>>
Attempt(n) ==
    /\ work[n] = "ready" /\ ~canceled
    /\ tries' = [tries EXCEPT ![n] = @ + 1]
    /\ Becomes(n, "running")
    /\ at' = [at EXCEPT ![n] = restored[n]]
    /\ IF n \in flow.agents
       THEN /\ restored' = [restored EXCEPT ![n] = 0] /\ loops' = [loops EXCEPT ![n] = 0]
            /\ resumed' = resumed \ {n}
       ELSE UNCHANGED <<restored, loops, resumed>>
    /\ UNCHANGED <<flow, loopVars, late, former, answer, saveVars, history>>

\* ensure_client fails.
NoClient(n) ==
    /\ work[n] = "ready" /\ ~canceled
    /\ tries' = [tries EXCEPT ![n] = @ + 1]
    /\ Becomes(n, Again(n, tries[n] + 1))
    /\ UNCHANGED <<flow, loopVars, at, late, former, nodeVars, saveVars, history>>

\* An iteration of an agent: its tools run, then it is saved.
Act(n) ==
    /\ work[n] = "running" /\ n \in flow.agents /\ at[n] < MaxLoops
    /\ Becomes(n, "acted")
    /\ UNCHANGED <<flow, loopVars, tries, at, late, former, nodeVars, saveVars, history>>

\* An iteration whose reply cannot be parsed has no tools and is not saved.
Recover(n) ==
    /\ work[n] = "running" /\ n \in flow.agents /\ at[n] < MaxLoops
    /\ at' = [at EXCEPT ![n] = @ + 1]
    /\ UNCHANGED <<flow, loopVars, work, tries, late, former, nodeVars, saveVars, history>>

Iterated(n) ==
    /\ work[n] = "acted" /\ ~canceled
    /\ Becomes(n, "running")
    /\ at' = [at EXCEPT ![n] = @ + 1] /\ loops' = [loops EXCEPT ![n] = at[n] + 1]
    /\ Save(MidRun(cp, n, at[n] + 1))
    /\ UNCHANGED <<flow, loopVars, tries, late, former, answer, resumed, restored, history>>

Succeed(n) ==
    /\ work[n] = "running"
    /\ Becomes(n, "success")
    /\ answer' = [answer EXCEPT ![n] = "none"]
    /\ UNCHANGED <<flow, loopVars, tries, at, late, former, resumed, restored, loops,
                   saveVars, history>>

Fail(n) ==
    /\ work[n] \in {"running", "acted"}
    /\ Becomes(n, Again(n, tries[n]))
    /\ UNCHANGED <<flow, loopVars, tries, at, late, former, nodeVars, saveVars, history>>

\* execute_with_timeout gives up on the attempt, which runs on.  (One attempt
\* per node is followed once it is late.)
TimeOut(n) ==
    /\ work[n] \in {"running", "acted"} /\ n \in flow.timeout /\ late[n] = -1
    /\ late' = [late EXCEPT ![n] = at[n]]
    /\ Becomes(n, Again(n, tries[n]))
    /\ UNCHANGED <<flow, loopVars, tries, at, former, nodeVars, saveVars, history>>

\* The late attempt works on the same node object, and saves as well, into
\* whatever checkpoint the flow then has.
LateIterated(n) ==
    /\ late[n] \in 0..(MaxLoops - 1) /\ n \in flow.agents
    /\ n \in former \/ ~canceled
    /\ late' = [late EXCEPT ![n] = @ + 1]
    /\ loops' = [loops EXCEPT ![n] = late[n] + 1]
    /\ Save(MidRun(cp, n, late[n] + 1))
    /\ UNCHANGED <<flow, loopVars, work, tries, at, former, answer, resumed, restored,
                   history>>

LateEnds(n) ==
    /\ late[n] # -1
    /\ late' = [late EXCEPT ![n] = -1] /\ former' = former \ {n}
    /\ UNCHANGED <<flow, loopVars, work, tries, at, nodeVars, saveVars, history>>

(***************************************************************************)
(* Specification                                                           *)
(***************************************************************************)

Init ==
    /\ flow \in Flows
    /\ pc = "off" /\ outcome = "none" /\ canceled = FALSE /\ dropped = FALSE
    /\ result = [n \in Nodes |-> "undefined"] /\ handed = {} /\ done = {}
    /\ work = [n \in Nodes |-> "none"] /\ late = [n \in Nodes |-> -1] /\ former = {}
    /\ tries = [n \in Nodes |-> 0] /\ at = [n \in Nodes |-> 0]
    /\ answer = [n \in Nodes |-> "none"] /\ resumed = {}
    /\ restored = [n \in Nodes |-> 0] /\ loops = [n \in Nodes |-> 0]
    /\ cp = NoSnapshot(0) /\ store = NoSnapshot(0)
    /\ said = [c \in 1..MaxRuns |-> [n \in Nodes |-> "none"]] /\ fresh = TRUE
    /\ runs = 0 /\ crashes = 0 /\ lost = 0

Thread(n) ==
    \/ Begin(n) \/ SeeCancel(n) \/ Invalid(n) \/ Attempt(n) \/ NoClient(n)
    \/ Act(n) \/ Recover(n) \/ Iterated(n) \/ Succeed(n) \/ Fail(n) \/ TimeOut(n)

Person(n) == (\E a \in {"approved", "rejected"} : Answer(n, a)) \/ GiveUp(n)

MainLoop == HandOut \/ Collect \/ End \/ StopCanceled \/ Close \/ StopDropped

Next ==
    \/ Start \/ Resume \/ Crash \/ Cancel \/ CancelTask
    \/ MainLoop
    \/ \E n \in Nodes : Thread(n) \/ Person(n) \/ LateIterated(n) \/ LateEnds(n)

\* The main loop and the threads go on, and what a node executes ends.
\* Whether a person ever answers is left open.
Fairness == WF_vars(MainLoop) /\ \A n \in Nodes : WF_vars(Thread(n))

Spec == Init /\ [][Next]_vars /\ Fairness

(***************************************************************************)
(* Properties                                                              *)
(***************************************************************************)

\* Hazard: a node that the sorter has handed out is handed out only once, so if
\* it is neither submitted nor done the loop waits for it for ever.  While a run
\* goes on, what was handed out is done or in flight, and nothing else is.
NoneForgotten ==
    pc \in {"loop", "wait"} => InFlight = handed \ done /\ done \subseteq handed

\* Hazard: results of several runs and of failed saves come together in a flow
\* that ends well.  No node of it failed where failing matters, every node has a
\* result, and the latest snapshot, unless a save failed, says all of that.
SuccessIsWhole ==
    outcome = "success" =>
        /\ \A n \in Nodes : result[n] \in Results
        /\ \A n \in flow.raises : result[n] # "failure"
        /\ Nodes \ flow.excluded \subseteq Completed(cp)
        /\ lost = 0 => store.st = cp.st /\ store.chain = cp.chain

\* Hazard: an operator reads from a snapshot who is being asked, also after a
\* crash.  A node that waits for a person is pending in the checkpoint, and in
\* the latest snapshot unless a save failed.
AskedIsPending ==
    \A n \in Nodes : work[n] = "asking" =>
        n \in cp.pending /\ (lost = 0 => n \in store.pending)

\* Hazard: node objects outlive a run, and an approval given for one run is
\* found on them by the next.  Nothing that needs an approval is attempted
\* unless the last answer for this chain of runs was an approval.  (A node whose
\* late attempt saves into the next run's checkpoint carries its answer there.)
ApprovedFirst ==
    [][\A n \in flow.approval \ flow.timeout :
           tries'[n] > tries[n] => said[cp.chain][n] = "approved"]_vars

\* Hazard: a resumed flow must not repeat what the crashed one had finished.  A
\* node whose result is in the latest snapshot is not attempted again, by any
\* run of that chain.
RecordedNeverRepeats ==
    [][\A n \in Nodes : tries'[n] > tries[n] /\ cp.chain = store.chain
                            => n \notin Completed(store)]_vars

\* Hazard: the same of the iterations of an agent, whose tools have effects: an
\* iteration that is in the latest snapshot is repeated only by a retry, or by a
\* node whose attempts may time out: both start again at the first iteration.
SavedIterationNeverRepeats ==
    [][\A n \in Nodes \ flow.timeout :
           work[n] = "running" /\ work'[n] = "acted" /\ cp.chain = store.chain
               => at[n] >= store.loops[n] \/ tries[n] > 1]_vars

\* Hazard: the sorter, the pool and the checkpoint may disagree on what is left to
\* do, and a person may never answer.  A run ends unless it waits for a person,
\* and a run that is canceled ends all the same.
RunEnds ==
    /\ pc = "loop" ~> pc \in {"off", "over"} \/ \E n \in Nodes : work[n] = "asking"
    /\ canceled ~> pc \in {"off", "over"}

\* The same without fairness: a loop that waits has something in flight, one that
\* does not has something to hand out, or would turn for ever; and of what is in
\* flight a thread is at work, or the pool has room for one that is queued.
NeverStuck ==
    /\ pc = "wait" => InFlight # {}
    /\ pc = "loop" /\ done # Nodes =>
          InFlight # {} \/ \E n \in Nodes \ handed : flow.deps[n] \subseteq done
    /\ InFlight # Uncollected =>
          \E n \in Nodes : \/ work[n] \in OnThread
                           \/ work[n] = "queued" /\ HasThread

\* The snapshots implement the log of results.
Log == INSTANCE ResultLog WITH
           shape <- [deps |-> flow.deps, raises |-> flow.raises, unlogged |-> flow.excluded,
                     whim |-> flow.choice \cup flow.approval],
           chain <- store.chain,
           log <- [n \in Nodes |-> IF store.st[n] \in Results THEN store.st[n] ELSE "none"]
LogSpec == Log!Spec

\* What the code is said to do, and does not.
\*
\* tests/integration/checkpoints/test_iterative_checkpoint.py: runs on the same
\* Flow object leak no checkpoint state into one another.  Then a fresh run
\* starts its agents at their first iteration.
FreshRunStartsOver ==
    [][\A n \in Nodes :
           work[n] = "ready" /\ work'[n] = "running" /\ fresh => at'[n] = 0]_vars
=============================================================================
