----------------------------- MODULE HumanGate -----------------------------
(***************************************************************************)
(* An execution with human checkpoints, from the graph that interrupts     *)
(* itself (agents/langgraph/hitl_graph.py) through the service that polls  *)
(* for a decision and writes the execution's row to the client that reads  *)
(* the event stream, beside the people who send decisions.                 *)
(*                                                                         *)
(* Graph, service and producer of the stream are one coroutine, which the  *)
(* pump of the stream runs.  A decision is one value in Redis, read and    *)
(* deleted in two commands.  Of the events between two stages one is kept. *)
(***************************************************************************)
EXTENDS EventStream

CONSTANTS
    Stages,          \* bound on the number of agents of a workflow
    Checkpoints,     \* the stages that wait for a person
    MaxIterations,   \* 10 in the code
    MaxDecisions     \* bound on the decisions sent

ASSUME GateAssumption ==
    /\ Stages \in Nat /\ Checkpoints \subseteq 1..Stages
    /\ MaxIterations \in Nat /\ MaxDecisions \in Nat

VARIABLES
    agents,    \* how many the workflow has: its stages, in topological order
    pc,        \* where the coroutine is
    stage,     \* __next_execution_index__, from 1
    opened,    \* the decision that approved a stage, 0 for none
    verdict,   \* the decision that was read, 0 for none
    error,     \* the error in the graph's state
    row,       \* the committed status of the execution
    key,       \* the decision in Redis, 0 for none
    decided,   \* history: the decisions recorded
    ran,       \* history: the stages that were started
    told       \* history: the events yielded

gateVars == <<agents, pc, stage, opened, verdict, error, row, key, decided, ran, told>>
vars == <<streamVars, gateVars>>

Terminal == {"completed", "failed", "cancelled"}
Decision == [approved : BOOLEAN]

TypeOK ==
    /\ StreamTypeOK
    /\ pc \in {"route", "asking", "polling", "read", "decided", "execute", "executed",
               "over", "told", "failing", "done", "raised", "dead"}
    /\ agents \in 1..Stages /\ stage \in 1..(agents + 1)
    /\ decided \in Seq(Decision) /\ Len(decided) <= MaxDecisions
    /\ opened \in [1..Stages -> 0..MaxDecisions]
    /\ verdict \in 0..MaxDecisions /\ key \in 0..MaxDecisions
    /\ error \in {"none", "rejected", "failed"}
    /\ row \in Terminal \cup {"running", "hitl_waiting"}
    /\ ran \subseteq 1..Stages
    /\ told \in Seq({"required", "agent", "complete", "error"}) /\ Len(told) = sent

(***************************************************************************)
(* The coroutine: a step that yields hands the event to the pump           *)
(***************************************************************************)

Silent == pump = "pulling" /\ UNCHANGED <<streamVars, agents, told>>
Yield(e) == Produce /\ told' = Append(told, e) /\ UNCHANGED agents

\* A commit of the row.  One that raises may have taken effect all the same.  The
\* handler then commits once more, on a session that nobody has rolled back: that
\* raises too, out of the generator, and no event tells of it.
Commit(status, next) ==
    \/ row' = status /\ pc' = next
    \/ row' \in {row, status} /\ pc' = "raised"

Reviewable == stage <= agents /\ stage \in Checkpoints

\* route_next at a checkpoint: hitl_prep, human_review, and the autosave.
Ask ==
    /\ pc = "route" /\ Reviewable /\ opened[stage] = 0
    /\ Commit("hitl_waiting", "asking")
    /\ Silent /\ UNCHANGED <<stage, opened, verdict, error, key, decided, ran>>

TellAsked ==
    /\ pc = "asking" /\ pc' = "polling"
    /\ Yield("required")
    /\ UNCHANGED <<stage, opened, verdict, error, row, key, decided, ran>>

\* _poll_approval finds a decision, and consume_approval deletes it.
Poll ==
    /\ pc = "polling" /\ key # 0
    /\ verdict' = key /\ pc' = "read"
    /\ Silent /\ UNCHANGED <<stage, opened, error, row, key, decided, ran>>

Consume_keeps ==
    /\ pc = "read" /\ pc' = "decided"
    /\ Silent /\ UNCHANGED <<stage, opened, verdict, error, row, key, decided, ran>>
Consume ==
    /\ pc = "read" /\ pc' = "decided" /\ key' = 0
    /\ Silent /\ UNCHANGED <<stage, opened, verdict, error, row, decided, ran>>

\* The window expires: TimeoutError.
Expire ==
    /\ pc = "polling" /\ Commit("failed", "failing")
    /\ Silent /\ UNCHANGED <<stage, opened, verdict, error, key, decided, ran>>

\* The graph resumes with the verdict.
Resume ==
    /\ pc = "decided" /\ verdict' = 0
    /\ IF decided[verdict].approved
       THEN pc' = "execute" /\ opened' = [opened EXCEPT ![stage] = verdict] /\ UNCHANGED error
       ELSE pc' = "over" /\ error' = "rejected" /\ UNCHANGED opened
    /\ Silent /\ UNCHANGED <<stage, row, key, decided, ran>>

\* route_next: no review is due.
Route ==
    /\ pc = "route" /\ (Reviewable => opened[stage] # 0)
    /\ pc' = IF stage > agents THEN "over" ELSE "execute"
    /\ Silent /\ UNCHANGED <<stage, opened, verdict, error, row, key, decided, ran>>

\* execute_agent: too many iterations, or the stage runs and fails or not.
Execute ==
    /\ pc = "execute"
    /\ \/ /\ stage > MaxIterations
          /\ pc' = "over" /\ error' = "failed" /\ UNCHANGED ran
       \/ /\ stage <= MaxIterations /\ ran' = ran \cup {stage}
          /\ \/ pc' = "over" /\ error' = "failed"
             \/ pc' = "executed" /\ UNCHANGED error
    /\ Silent /\ UNCHANGED <<stage, opened, verdict, row, key, decided>>

TellAgent ==
    /\ pc = "executed" /\ pc' = "route" /\ stage' = stage + 1
    /\ Yield("agent")
    /\ UNCHANGED <<opened, verdict, error, row, key, decided, ran>>

\* The last snapshot has an error: the row is committed, and then it is told.
Refuse ==
    /\ pc = "over" /\ error # "none"
    /\ Commit(IF error = "rejected" THEN "cancelled" ELSE "failed", "failing")
    /\ Silent /\ UNCHANGED <<stage, opened, verdict, error, key, decided, ran>>

TellError ==
    /\ pc = "failing" /\ pc' = "done"
    /\ Yield("error")
    /\ UNCHANGED <<stage, opened, verdict, error, row, key, decided, ran>>

\* It has none: it is told, and then the row is committed.
TellComplete ==
    /\ pc = "over" /\ error = "none" /\ pc' = "told"
    /\ Yield("complete")
    /\ UNCHANGED <<stage, opened, verdict, error, row, key, decided, ran>>

Store_unchecked ==
    /\ pc = "told" /\ pc' = "done"
    /\ row' \in {"completed", row}
    /\ Silent /\ UNCHANGED <<stage, opened, verdict, error, key, decided, ran>>
Store ==
    /\ pc = "told" /\ Commit("completed", "done")
    /\ Silent /\ UNCHANGED <<stage, opened, verdict, error, key, decided, ran>>

\* except Exception: the graph or Redis raises.
Raise ==
    /\ pc \in {"route", "polling", "read", "execute"} /\ Commit("failed", "failing")
    /\ Silent /\ UNCHANGED <<stage, opened, verdict, error, key, decided, ran>>

Return == pc \in {"done", "raised"} /\ ProducerEnds /\ UNCHANGED gateVars

(***************************************************************************)
(* The rest of the world                                                   *)
(***************************************************************************)

\* approve_hitl: any member, at any time, for whatever is asked, if anything.
Decide(a) ==
    /\ Len(decided) < MaxDecisions
    /\ decided' = Append(decided, [approved |-> a])
    /\ key' = Len(decided')
    /\ UNCHANGED <<streamVars, agents, pc, stage, opened, verdict, error, row, ran, told>>

\* Its time to live is over before it is read.
Forget ==
    /\ key # 0 /\ pc # "polling" /\ key' = 0
    /\ UNCHANGED <<streamVars, agents, pc, stage, opened, verdict, error, row, decided, ran, told>>

\* The pump is canceled after the client left.  CancelledError is no Exception:
\* the row stays as it is.
Cancel ==
    /\ CancelPump
    /\ pc' = IF pump = "closing" THEN pc ELSE "dead"
    /\ UNCHANGED <<agents, stage, opened, verdict, error, row, key, decided, ran, told>>

\* The process dies.  Nothing resumes the execution afterwards.
Crash ==
    /\ pc # "dead" /\ pc' = "dead"
    /\ reader' = "gone" /\ pump' = "done" /\ pulse' = FALSE /\ queue' = <<>>
    /\ UNCHANGED <<sent, seen, agents, stage, opened, verdict, error, row, key, decided, ran, told>>

Init ==
    /\ StreamInit
    /\ agents \in 1..Stages /\ pc = "route" /\ stage = 1 /\ opened = [s \in 1..Stages |-> 0]
    /\ verdict = 0 /\ error = "none" /\ row = "running" /\ key = 0
    /\ decided = <<>> /\ ran = {} /\ told = <<>>

Work ==
    \/ Ask \/ TellAsked \/ Poll \/ Consume \/ Expire \/ Resume \/ Route \/ Execute
    \/ TellAgent \/ Refuse \/ TellError \/ TellComplete \/ Store \/ Return

Stream == (Pulse \/ Reading \/ Leaving \/ Pumping) /\ UNCHANGED gateVars

Next ==
    \/ Work \/ Raise \/ Stream \/ Cancel \/ Crash \/ Forget
    \/ \E a \in BOOLEAN : Decide(a)

\* The coroutine and the pump go on, and a client that stays reads.  Puts that
\* wait are served in turn, so heartbeats, which are rare, do not keep the pump
\* out for ever.  Nobody has to decide.
Fairness ==
    /\ WF_vars(Work)
    /\ SF_vars(Pumping /\ UNCHANGED gateVars)
    /\ WF_vars(Reading /\ UNCHANGED gateVars)

Spec == Init /\ [][Next]_vars /\ Fairness

(***************************************************************************)
(* Properties                                                              *)
(***************************************************************************)

\* Hazard: decisions may come at any time and in any number, and there is one
\* key for all checkpoints.  A stage that waits for a person runs only after an
\* approval, and no decision opens two checkpoints.
ReviewedFirst ==
    /\ \A s \in ran \cap Checkpoints : opened[s] # 0
    /\ \A s \in 1..Stages : opened[s] # 0 => decided[opened[s]].approved
    /\ \A s, t \in 1..Stages : opened[s] # 0 /\ opened[s] = opened[t] => s = t

\* Hazard: the row and the events are written by the same coroutine but not
\* together, a commit may raise, and completion is told before it is stored.
\* Whoever is told that approval is required finds the execution in the list of
\* waiting ones, which reads the rows; whoever is told of an error finds it failed
\* or cancelled; and a client whose stream ended, and did not break off with what
\* the coroutine raised, finds the outcome it was told last.
ToldIsStored ==
    /\ \A i \in 1..seen :
          /\ told[i] = "required" => row # "running"
          /\ told[i] = "error" => row \in {"failed", "cancelled"}
    /\ reader = "closed" /\ pc = "done" =>
          /\ row \in Terminal
          /\ row = "completed" <=> told[seen] = "complete"

\* Not so: whoever is told that the workflow is complete, and stays for the end of
\* the stream, finds it completed.  The commit that follows may raise
\* (MCGateStored.cfg).
CompleteIsStored ==
    reader = "closed" /\ seen > 0 /\ told[seen] = "complete" => row = "completed"

\* Hazard: stages fail, are rejected and run out of iterations.  A completed
\* execution ran all of them.
CompletedRanAll == row = "completed" => ran = 1..agents

\* Hazard: the reader waits for a sentinel that only the finally of the pump puts,
\* and the coroutine may be canceled.  A reader that finds the queue empty has a
\* pump that still puts something, and if it pulls, a coroutine that goes on.
NeverStuck == reader = "reading" /\ queue = <<>> => pump # "done" /\ pc # "dead"

\* Hazard: the coroutine waits for people, and for room in a queue that fills
\* with heartbeats.  While the client stays, the stream comes to an end, and with
\* it (ToldIsStored) the execution, unless a commit raised.
Ends == <>(reader \in {"closed", "left", "draining", "gone"})
=============================================================================
