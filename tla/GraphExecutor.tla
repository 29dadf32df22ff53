--------------------------- MODULE GraphExecutor ---------------------------
(***************************************************************************)
(* One execution of a workflow graph: the walk of                          *)
(* agents/extended_executor.py over the nodes of a definition that         *)
(* schemas/workflow.py has validated, and the execution row that           *)
(* services/workflow_service.py keeps of it.                               *)
(*                                                                         *)
(* The walk takes one node after the other, dependencies first.  A node    *)
(* runs or is skipped on what the walk has decided and skipped so far; a   *)
(* loop runs its body once per item, the items concurrently; a webhook     *)
(* node parks the walk.  What nodes compute is left out: the model keeps   *)
(* whether a node has an output, which branch a decision took, what        *)
(* failed, and what the row says.                                          *)
(***************************************************************************)
EXTENDS Integers, FiniteSets, Sequences

CONSTANTS
    Nodes,        \* node ids, as numbers in their alphabetical order
    Branches,     \* branch labels, the "ok" and "failed" of actions included
    Graphs,       \* the definitions that may run
    MaxItems,     \* bound on the items of a loop
    Concurrency   \* max_concurrency of a loop

Kinds == {"agent", "condition", "if", "for_each", "merge", "webhook", "action",
          "data_store", "trigger"}

\* on_error
Policies == {"fail", "continue", "route"}

\* activate_on: no condition on a node, any branch of it, or one branch.
Gates == Branches \cup {"none", "*"}

Graph == [kind : [Nodes -> Kinds],
          deps : [Nodes -> SUBSET Nodes],          \* depends_on
          gate : [Nodes -> [Nodes -> Gates]],      \* activate_on
          body : [Nodes -> Seq(Nodes)],            \* body of a for_each
          on_error : [Nodes -> Policies]]

\* The validator refuses a cycle of depends_on: in every set of nodes one can
\* go first.
Acyclic(g) ==
    \A S \in SUBSET Nodes : S # {} => \E n \in S : g.deps[n] \cap S = {}

ASSUME GraphAssumption ==
    /\ Nodes \subseteq Nat /\ IsFiniteSet(Nodes)
    /\ {"ok", "failed"} \subseteq Branches /\ Branches \cap {"none", "*"} = {}
    /\ \A g \in Graphs : g \in Graph /\ Acyclic(g)
    /\ MaxItems \in Nat
    /\ Concurrency \in Nat \ {0}

VARIABLES
    graph,      \* the definition of this execution
    pc,         \* the walk: between nodes, in a loop, parked, or over
    now,        \* the loop or webhook node the walk is at
    walked,     \* the nodes the walk is done with
    skipped,    \* the executor's `skipped`
    decision,   \* the executor's `decisions`, "none" where there is none
    output,     \* nodes that have an output
    items,      \* what each item of the loop is doing
    error,      \* graph_error is set
    status,     \* status of the execution row
    ran,        \* history: the nodes that were started by the walk
    broken      \* history: agents whose run ended without success

walk == <<pc, now, walked, skipped, decision, output>>
vars == <<graph, walk, items, error, status, ran, broken>>

\* at: the place in the body, 0 while the item waits for the semaphore.
Item == [at : Nat, skipped : SUBSET Nodes, error : BOOLEAN]

Kind(n) == graph.kind[n]
Body(n) == {graph.body[n][i] : i \in DOMAIN graph.body[n]}

TypeOK ==
    /\ graph \in Graph
    /\ pc \in {"walk", "loop", "parked", "over"}
    /\ now \in Nodes \cup {-1}
    /\ walked \subseteq Nodes
    /\ skipped \subseteq Nodes
    /\ decision \in [Nodes -> Branches \cup {"none"}]
    /\ output \subseteq Nodes
    /\ \E k \in 0..MaxItems : items \in [1..k -> Item]
    /\ error \in BOOLEAN
    /\ status \in {"running", "hitl_waiting", "completed", "failed"}
    /\ ran \subseteq Nodes
    /\ broken \subseteq Nodes

(***************************************************************************)
(* Which node is next, and whether it runs                                 *)
(***************************************************************************)

\* workflow_execution_order: dependencies first, and the smallest id of those
\* that are ready.  (Definitions with a suffix after the underscore, here and
\* below, are broken variants of the definition that follows; nothing uses them.)
Ready_any(n) == n \in Nodes \ walked
Ready(n) == n \in Nodes \ walked /\ graph.deps[n] \subseteq walked
IsNext(n) == Ready(n) /\ \A m \in Nodes : Ready(m) => n <= m

\* _activated: a reference that has not decided does not stop the node.
Activated(n, skip) ==
    \A m \in Nodes : graph.gate[n][m] # "none" =>
        /\ m \notin skip
        /\ graph.gate[n][m] = "*" \/ decision[m] \in {"none", graph.gate[n][m]}

\* A merge is pruned with all of its inputs, any other node with one of them.
Pruned(n, skip) ==
    IF Kind(n) = "merge" THEN graph.deps[n] # {} /\ graph.deps[n] \subseteq skip
                         ELSE graph.deps[n] \cap skip # {}

Runs(n) == n \notin skipped /\ Activated(n, skipped) /\ ~Pruned(n, skipped)

\* The walk gets to n and runs it.
Starts(n) == pc = "walk" /\ IsNext(n) /\ Runs(n) /\ ran' = ran \cup {n}

\* It is done with n.
Finishes(n) == walked' = walked \cup {n} /\ UNCHANGED <<graph, pc, now, items, status>>

(***************************************************************************)
(* The nodes                                                               *)
(***************************************************************************)

Skip(n) ==
    /\ pc = "walk" /\ IsNext(n) /\ ~Runs(n)
    /\ skipped' = skipped \cup {n}
    /\ Finishes(n)
    /\ UNCHANGED <<decision, output, error, ran, broken>>

\* An agent's run answers; or ends without success, which the walk takes for an
\* empty answer; or raises inside the stream, which is an error event.
RunAgent(n) ==
    /\ Kind(n) = "agent" /\ Starts(n)
    /\ \/ output' = output \cup {n} /\ broken' \in {broken, broken \cup {n}} /\ UNCHANGED error
       \/ error' = TRUE /\ broken' = broken \cup {n} /\ UNCHANGED output
    /\ Finishes(n)
    /\ UNCHANGED <<skipped, decision>>

\* A condition asks the language model, an if evaluates its expression.
Decide(n) ==
    /\ Kind(n) \in {"condition", "if"} /\ Starts(n)
    /\ \E branch \in Branches : decision' = [decision EXCEPT ![n] = branch]
    /\ output' = output \cup {n}
    /\ Finishes(n)
    /\ UNCHANGED <<skipped, error, broken>>

\* A trigger, a merge and a data_store operation have an output whatever
\* happens; a failed write is a result too.
RunPlain(n) ==
    /\ Kind(n) \in {"trigger", "merge", "data_store"} /\ Starts(n)
    /\ output' = output \cup {n}
    /\ Finishes(n)
    /\ UNCHANGED <<skipped, decision, error, broken>>

ActionSucceeds(n) ==
    /\ Kind(n) = "action" /\ Starts(n)
    /\ output' = output \cup {n}
    /\ decision' = IF graph.on_error[n] = "route" THEN [decision EXCEPT ![n] = "ok"]
                                                  ELSE decision
    /\ Finishes(n)
    /\ UNCHANGED <<skipped, error, broken>>

\* After its retries an action has failed; on_error says what that means.
ActionFails(n) ==
    /\ Kind(n) = "action" /\ Starts(n)
    /\ CASE graph.on_error[n] = "continue" ->
              skipped' = skipped \cup {n} /\ UNCHANGED <<decision, output, error>>
         [] graph.on_error[n] = "route" ->
              /\ decision' = [decision EXCEPT ![n] = "failed"]
              /\ output' = output \cup {n}
              /\ UNCHANGED <<skipped, error>>
         [] OTHER ->
              error' = TRUE /\ UNCHANGED <<skipped, decision, output>>
    /\ Finishes(n)
    /\ UNCHANGED broken

(***************************************************************************)
(* Loops                                                                   *)
(***************************************************************************)

\* One task per item, each with its own copy of `skipped`; output that is no
\* list counts as no items.
LoopStart(n) ==
    /\ Kind(n) = "for_each" /\ Starts(n)
    /\ pc' = "loop" /\ now' = n
    /\ \E k \in 0..MaxItems :
         items' = [i \in 1..k |-> [at |-> 0, skipped |-> skipped, error |-> FALSE]]
    /\ UNCHANGED <<graph, walked, skipped, decision, output, error, status, broken>>

Length == Len(graph.body[now])
Active(i) == items[i].at \in 1..Length
Over(i) == items[i].at > Length

\* Who holds the semaphore.
Busy_forever == {i \in DOMAIN items : items[i].at # 0}
Busy == {i \in DOMAIN items : Active(i)}

\* The semaphore has room, and goes to the items in order.
MayStart(i) ==
    /\ items[i].at = 0
    /\ \A j \in 1..(i - 1) : items[j].at # 0
    /\ Cardinality(Busy) < Concurrency

\* An item gets the semaphore; asyncio.gather goes on with the others when one
\* of them has raised and the execution is over.
ItemStarts(i) ==
    /\ MayStart(i)
    /\ items' = [items EXCEPT ![i].at = 1]
    /\ UNCHANGED <<graph, walk, error, status, ran, broken>>

\* The item is done with the body node it is at.
Advances(i, skip, err) ==
    items' = [items EXCEPT ![i] = [at |-> @.at + 1, skipped |-> skip, error |-> @.error \/ err]]

\* An item skips or runs its next body node; of the nodes that are neither
\* agents nor actions nothing is run.
ItemGoesOn(i) ==
    LET b    == graph.body[now][items[i].at]
        skip == items[i].skipped
    IN  /\ Active(i)
        /\ \/ /\ ~Activated(b, skip) \/ graph.deps[b] \cap skip # {}
              /\ Advances(i, skip \cup {b}, FALSE)
              /\ UNCHANGED broken
           \/ /\ Activated(b, skip) /\ graph.deps[b] \cap skip = {}
              /\ \/ Advances(i, skip, FALSE) /\ UNCHANGED broken
                 \/ /\ Kind(b) = "agent"
                    /\ broken' = broken \cup {b}
                    /\ \E err \in BOOLEAN : Advances(i, skip, err)
                 \/ /\ Kind(b) = "action"
                    /\ IF graph.on_error[b] = "fail" THEN Advances(i, skip, TRUE)
                       ELSE Advances(i, skip \cup {b}, FALSE)
                    /\ UNCHANGED broken
        /\ UNCHANGED <<graph, walk, error, status, ran>>

\* An agent that cannot be built raises; the first to do so ends the execution.
ItemRaises(i) ==
    /\ Active(i)
    /\ Kind(graph.body[now][items[i].at]) = "agent"
    /\ items' = [items EXCEPT ![i].at = Length + 1]
    /\ pc' = "over"
    /\ status' = IF pc = "over" THEN status ELSE "failed"
    /\ UNCHANGED <<graph, now, walked, skipped, decision, output, error, ran, broken>>

\* All items are over: their events follow, and the walk will skip the body.
SkipsBody_not == skipped
SkipsBody == skipped \cup Body(now)

LoopEnd ==
    /\ pc = "loop"
    /\ \A i \in DOMAIN items : Over(i)
    /\ pc' = "walk" /\ now' = -1
    /\ walked' = walked \cup {now}
    /\ skipped' = SkipsBody
    /\ output' = output \cup {now}
    /\ error' = (error \/ \E i \in DOMAIN items : items[i].error)
    /\ items' = <<>>
    /\ UNCHANGED <<graph, decision, status, ran, broken>>

(***************************************************************************)
(* Webhooks                                                                *)
(***************************************************************************)

Park(n) ==
    /\ Kind(n) = "webhook" /\ Starts(n)
    /\ pc' = "parked" /\ now' = n
    /\ status' = "hitl_waiting"
    /\ UNCHANGED <<graph, walked, skipped, decision, output, items, error, broken>>

\* A payload is found, or the wait times out; the walk goes on after both.
Unpark ==
    /\ pc = "parked"
    /\ pc' = "walk" /\ now' = -1
    /\ walked' = walked \cup {now}
    /\ \/ output' = output \cup {now} /\ status' = "running" /\ UNCHANGED error
       \/ error' = TRUE /\ UNCHANGED <<output, status>>
    /\ UNCHANGED <<graph, skipped, decision, items, ran, broken>>

(***************************************************************************)
(* The end                                                                 *)
(***************************************************************************)

\* The stream is drained: the row says whether an error event was in it.
Outcome_good == "completed"
Outcome == IF error THEN "failed" ELSE "completed"

End ==
    /\ pc = "walk" /\ walked = Nodes
    /\ pc' = "over"
    /\ status' = Outcome
    /\ UNCHANGED <<graph, now, walked, skipped, decision, output, items, error, ran, broken>>

\* The model, the database or Redis fails under a node, and the stream raises.
Raise(n) ==
    /\ \/ Kind(n) \in {"agent", "condition", "data_store", "webhook"} /\ Starts(n)
       \/ pc = "parked" /\ n = now /\ UNCHANGED ran
    /\ pc' = "over"
    /\ status' = "failed"
    /\ UNCHANGED <<graph, now, walked, skipped, decision, output, items, error, broken>>

\* The client goes away or the runner leaves the stream: the row stays as it is.
Abandon ==
    /\ pc # "over"
    /\ pc' = "over"
    /\ items' = <<>>
    /\ UNCHANGED <<graph, now, walked, skipped, decision, output, error, status, ran, broken>>

(***************************************************************************)
(* The specification                                                       *)
(***************************************************************************)

Init ==
    /\ graph \in Graphs
    /\ pc = "walk" /\ now = -1
    /\ walked = {} /\ skipped = {} /\ output = {}
    /\ decision = [n \in Nodes |-> "none"]
    /\ items = <<>>
    /\ error = FALSE /\ status = "running"
    /\ ran = {} /\ broken = {}

Visit(n) == \/ Skip(n) \/ RunAgent(n) \/ Decide(n) \/ RunPlain(n)
            \/ ActionSucceeds(n) \/ ActionFails(n) \/ LoopStart(n) \/ Park(n) \/ Raise(n)

Step == \/ \E n \in Nodes : Visit(n)
        \/ \E i \in DOMAIN items : ItemStarts(i) \/ ItemGoesOn(i) \/ ItemRaises(i)
        \/ LoopEnd \/ Unpark \/ End

Next == Step \/ Abandon

\* The event loop runs the walk and its items on, and a wait times out.
Spec == Init /\ [][Next]_vars /\ WF_vars(Step)

(***************************************************************************)
(* Properties                                                              *)
(***************************************************************************)

\* m comes before n in every order that respects depends_on.
Before(m, n) ==
    \A S \in SUBSET Nodes :
        graph.deps[n] \subseteq S /\ (\A x \in S : graph.deps[x] \subseteq S) => m \in S

\* The graph waits for what it refers to: branches depend on the decision they
\* are gated by, bodies on their loop.
Wired ==
    /\ \A m, n \in Nodes : graph.gate[n][m] # "none" => Before(m, n)
    /\ \A n \in Nodes : Kind(n) = "for_each" => \A b \in Body(n) : Before(n, b)

\* The bodies of the loops the walk is done with.
Looped == {b \in Nodes : \E n \in ran \cap walked : Kind(n) = "for_each" /\ b \in Body(n)}

\* A validated graph never leaves the walk without a next node, whatever was
\* skipped, failed or looped over; nor a loop with items that all wait for the
\* semaphore, whatever became of those before them.
NeverStuck ==
    /\ pc = "walk" /\ walked # Nodes => \E n \in Nodes : IsNext(n)
    /\ pc = "loop" /\ (\E i \in DOMAIN items : ~Over(i)) =>
           \E i \in DOMAIN items : MayStart(i) \/ Active(i)

\* What the walk decided about a node when it got there is still right at the
\* end: a wired node ran exactly when the final decisions and skips ask for it,
\* and was not in the body of a loop.
ChoicesHold ==
    Wired => \A n \in walked :
        n \in ran <=> n \notin Looped /\ Activated(n, skipped) /\ ~Pruned(n, skipped)

\* Branches of one decision exclude each other, also far downstream of it.
BranchesExclude ==
    Wired => \A m, n \in ran \cap walked, d \in Nodes :
        /\ Kind(d) \in {"condition", "if"}
        /\ graph.gate[m][d] \in Branches /\ graph.gate[n][d] \in Branches
        => graph.gate[m][d] = graph.gate[n][d]

\* An execution that completed has no gap: every node was skipped or has its
\* output, although errors inside loops and waits do not stop the walk.
CompletedIsWhole ==
    status = "completed" => ~error /\ Nodes \subseteq skipped \cup output

\* Every execution comes to its end.
Ends == <>(pc = "over")

(***************************************************************************)
(* What the code's comments say and the walk refutes                       *)
(***************************************************************************)

\* schemas/workflow.py, on_error: "fail" -- "node error aborts the execution".
FailAborts == [][error => ran' = ran]_vars

\* _run_agent: "surface errors so callers can fail-fast".
AgentFailureFails == status = "completed" => broken = {}
=============================================================================
