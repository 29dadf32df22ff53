------------------------ MODULE GraphExecutorProofs ------------------------
(***************************************************************************)
(* Theorems about every execution of every validated graph: types, that    *)
(* the walk is never stuck, and that what it decided about a node stays    *)
(* right.                                                                  *)
(***************************************************************************)
EXTENDS GraphExecutor, FiniteSetTheorems, WellFoundedInduction, TLAPS

(***************************************************************************)
(* Types                                                                   *)
(***************************************************************************)

\* The items belong to the loop at hand.
ItemsOfLoop ==
    /\ pc \in {"walk", "parked"} => items = <<>>
    /\ pc \in {"loop", "parked"} \/ DOMAIN items # {} => now \in Nodes

TypeInv == TypeOK /\ graph \in Graphs /\ ItemsOfLoop

ItemFuns == UNION {[1..k -> Item] : k \in 0..MaxItems}

LEMMA NoItems == <<>> \in ItemFuns /\ DOMAIN <<>> = {}
<1>1. <<>> \in [1..0 -> Item] /\ 0 \in 0..MaxItems
  BY GraphAssumption
<1>. QED  BY <1>1 DEF ItemFuns

\* What TypeOK says of the items, and a graph's parts.
LEMMA ItemsAreFuns ==
    ASSUME TypeOK, NEW i \in DOMAIN items
    PROVE  items[i].at \in Nat /\ items[i].skipped \subseteq Nodes /\ items[i] \in Item
BY DEF TypeOK, Item

LEMMA GraphIsTyped ==
    ASSUME graph \in Graph, NEW n \in Nodes
    PROVE  /\ Kind(n) \in Kinds
           /\ graph.deps[n] \subseteq Nodes
           /\ graph.body[n] \in Seq(Nodes)
           /\ Body(n) \subseteq Nodes
           /\ graph.gate[n] \in [Nodes -> Gates]
           /\ graph.on_error[n] \in Policies
<1>1. /\ graph.kind \in [Nodes -> Kinds] /\ graph.deps \in [Nodes -> SUBSET Nodes]
      /\ graph.gate \in [Nodes -> [Nodes -> Gates]] /\ graph.body \in [Nodes -> Seq(Nodes)]
      /\ graph.on_error \in [Nodes -> Policies]
  BY DEF Graph
<1>2. graph.body[n] \in Seq(Nodes)
  BY <1>1
<1>3. \A i \in DOMAIN graph.body[n] : graph.body[n][i] \in Nodes
  BY <1>2
<1>. QED  BY <1>1, <1>2, <1>3 DEF Kind, Body

\* An item's change keeps the items typed.
LEMMA ItemChangeIsTyped ==
    ASSUME TypeOK, NEW i \in DOMAIN items, NEW new \in Item,
           items' = [items EXCEPT ![i] = new]
    PROVE  (\E k \in 0..MaxItems : items' \in [1..k -> Item]) /\ DOMAIN items' = DOMAIN items
BY DEF TypeOK

LEMMA TypeInit == Init => TypeInv
<1> SUFFICES ASSUME Init PROVE TypeInv
  OBVIOUS
<1>1. graph \in Graph
  BY GraphAssumption DEF Init
<1>2. \E k \in 0..MaxItems : items \in [1..k -> Item]
  BY NoItems DEF Init, ItemFuns
<1>3. decision \in [Nodes -> Branches \cup {"none"}]
  BY DEF Init
<1>. QED  BY <1>1, <1>2, <1>3, NoItems DEF Init, TypeInv, TypeOK, ItemsOfLoop

\* One node of the walk.
LEMMA VisitIsTyped ==
    ASSUME TypeInv, NEW n \in Nodes, Visit(n)
    PROVE  TypeInv'
<1>. TypeOK /\ graph \in Graphs /\ ItemsOfLoop /\ decision \in [Nodes -> Branches \cup {"none"}]
  BY DEF TypeInv, TypeOK
<1>. {"ok", "failed"} \subseteq Branches
  BY GraphAssumption
<1>d. ASSUME NEW b \in Branches
      PROVE  [decision EXCEPT ![n] = b] \in [Nodes -> Branches \cup {"none"}]
  OBVIOUS
<1>1. CASE Skip(n)
  BY <1>1 DEF Skip, Finishes, TypeInv, TypeOK, ItemsOfLoop
<1>2. CASE RunAgent(n)
  BY <1>2 DEF RunAgent, Starts, Finishes, TypeInv, TypeOK, ItemsOfLoop
<1>3. CASE Decide(n)
  BY <1>3, <1>d DEF Decide, Starts, Finishes, TypeInv, TypeOK, ItemsOfLoop
<1>4. CASE RunPlain(n)
  BY <1>4 DEF RunPlain, Starts, Finishes, TypeInv, TypeOK, ItemsOfLoop
<1>5. CASE ActionSucceeds(n)
  BY <1>5, <1>d DEF ActionSucceeds, Starts, Finishes, TypeInv, TypeOK, ItemsOfLoop
<1>6. CASE ActionFails(n)
  BY <1>6, <1>d DEF ActionFails, Starts, Finishes, TypeInv, TypeOK, ItemsOfLoop
<1>7. CASE LoopStart(n)
  <2>1. PICK k \in 0..MaxItems :
          items' = [i \in 1..k |-> [at |-> 0, skipped |-> skipped, error |-> FALSE]]
    BY <1>7 DEF LoopStart
  <2>2. [at |-> 0, skipped |-> skipped, error |-> FALSE] \in Item
    BY DEF TypeOK, Item
  <2>3. items' \in [1..k -> Item]
    BY <2>1, <2>2
  <2>. QED  BY <1>7, <2>3 DEF LoopStart, Starts, TypeInv, TypeOK, ItemsOfLoop
<1>8. CASE Park(n)
  BY <1>8 DEF Park, Starts, TypeInv, TypeOK, ItemsOfLoop
<1>9. CASE Raise(n)
  BY <1>9 DEF Raise, Starts, TypeInv, TypeOK, ItemsOfLoop
<1>. QED  BY <1>1, <1>2, <1>3, <1>4, <1>5, <1>6, <1>7, <1>8, <1>9 DEF Visit

\* One step of an item.
LEMMA ItemIsTyped ==
    ASSUME TypeInv, NEW i \in DOMAIN items, ItemStarts(i) \/ ItemGoesOn(i) \/ ItemRaises(i)
    PROVE  TypeInv'
<1>. TypeOK /\ graph \in Graphs /\ ItemsOfLoop /\ now \in Nodes /\ graph \in Graph
  BY DEF TypeInv, TypeOK, ItemsOfLoop
<1>. items[i] \in Item /\ items[i].at \in Nat /\ items[i].skipped \subseteq Nodes
     /\ items[i].error \in BOOLEAN
  BY ItemsAreFuns DEF Item
<1>. graph.body[now] \in Seq(Nodes) /\ Length \in Nat
  BY GraphIsTyped DEF Length
<1>p. pc \in {"loop", "over"}
  BY DEF ItemsOfLoop, TypeOK
<1>1. CASE ItemStarts(i)
  <2>1. [items[i] EXCEPT !.at = 1] \in Item
    BY DEF Item
  <2>2. items' = [items EXCEPT ![i] = [items[i] EXCEPT !.at = 1]]
    BY <1>1 DEF ItemStarts
  <2>. QED  BY <1>1, <1>p, <2>1, <2>2, ItemChangeIsTyped
            DEF ItemStarts, walk, TypeInv, TypeOK, ItemsOfLoop
<1>2. CASE ItemGoesOn(i)
  <2> DEFINE b == graph.body[now][items[i].at]
             skip == items[i].skipped
  <2>1. b \in Nodes
    <3>1. items[i].at \in 1..Len(graph.body[now])
      BY <1>2 DEF ItemGoesOn, Active, Length
    <3>2. graph.body[now] \in Seq(Nodes)
      OBVIOUS
    <3>. QED  BY ONLY <3>1, <3>2
  <2>2. ASSUME NEW s \in {skip, skip \cup {b}}, NEW err \in BOOLEAN, Advances(i, s, err)
        PROVE  (\E k \in 0..MaxItems : items' \in [1..k -> Item]) /\ DOMAIN items' = DOMAIN items
    <3>1. [at |-> items[i].at + 1, skipped |-> s, error |-> items[i].error \/ err] \in Item
      BY <2>1 DEF Item
    <3>2. items' = [items EXCEPT ![i] =
                      [at |-> items[i].at + 1, skipped |-> s, error |-> items[i].error \/ err]]
      BY <2>2 DEF Advances
    <3>. QED  BY <3>1, <3>2, ItemChangeIsTyped
  <2>3. \E s \in {skip, skip \cup {b}}, err \in BOOLEAN : Advances(i, s, err)
    BY <1>2 DEF ItemGoesOn
  <2>4. broken' \subseteq Nodes
    BY <1>2, <2>1 DEF ItemGoesOn, TypeOK
  <2>. QED  BY <1>2, <1>p, <2>2, <2>3, <2>4
            DEF ItemGoesOn, walk, TypeInv, TypeOK, ItemsOfLoop
<1>3. CASE ItemRaises(i)
  <2>1. [items[i] EXCEPT !.at = Length + 1] \in Item
    BY DEF Item
  <2>2. items' = [items EXCEPT ![i] = [items[i] EXCEPT !.at = Length + 1]]
    BY <1>3 DEF ItemRaises
  <2>. QED  BY <1>3, <2>1, <2>2, ItemChangeIsTyped
            DEF ItemRaises, TypeInv, TypeOK, ItemsOfLoop
<1>. QED  BY <1>1, <1>2, <1>3

LEMMA TypeStep == TypeInv /\ [Next]_vars => TypeInv'
<1> SUFFICES ASSUME TypeInv, [Next]_vars PROVE TypeInv'
  OBVIOUS
<1>. TypeOK /\ graph \in Graphs /\ ItemsOfLoop
  BY DEF TypeInv
<1>1. CASE UNCHANGED vars
  BY <1>1 DEF vars, walk, TypeInv, TypeOK, ItemsOfLoop
<1>2. CASE \E n \in Nodes : Visit(n)
  BY <1>2, VisitIsTyped
<1>3. CASE \E i \in DOMAIN items : ItemStarts(i) \/ ItemGoesOn(i) \/ ItemRaises(i)
  BY <1>3, ItemIsTyped
<1>4. CASE LoopEnd
  <2>1. CASE now \in Nodes
    <3>1. Body(now) \subseteq Nodes
      BY <2>1, GraphIsTyped DEF TypeOK
    <3>2. error' \in BOOLEAN
      BY <1>4 DEF LoopEnd
    <3>3. \E k \in 0..MaxItems : items' \in [1..k -> Item]
      BY <1>4, NoItems DEF LoopEnd, ItemFuns
    <3>. QED  BY <1>4, <2>1, <3>1, <3>2, <3>3, NoItems
              DEF LoopEnd, SkipsBody, TypeInv, TypeOK, ItemsOfLoop
  <2>. QED  BY <1>4, <2>1 DEF LoopEnd, ItemsOfLoop
<1>5. CASE Unpark
  <2>1. now \in Nodes /\ items' = <<>>
    BY <1>5 DEF Unpark, ItemsOfLoop
  <2>2. \E k \in 0..MaxItems : items' \in [1..k -> Item]
    BY <2>1, NoItems DEF ItemFuns
  <2>. QED  BY <1>5, <2>1, <2>2, NoItems DEF Unpark, TypeInv, TypeOK, ItemsOfLoop
<1>6. CASE End
  BY <1>6 DEF End, Outcome, TypeInv, TypeOK, ItemsOfLoop
<1>7. CASE Abandon
  <2>1. \E k \in 0..MaxItems : items' \in [1..k -> Item]
    BY <1>7, NoItems DEF Abandon, ItemFuns
  <2>. QED  BY <1>7, <2>1, NoItems DEF Abandon, TypeInv, TypeOK, ItemsOfLoop
<1>. QED  BY <1>1, <1>2, <1>3, <1>4, <1>5, <1>6, <1>7 DEF Next, Step

\* What the variables of an execution hold: the walk, its row and its items.
THEOREM ExecTypeCorrect == Spec => []TypeOK
<1>1. TypeInv => TypeOK
  BY DEF TypeInv
<1>. QED  BY <1>1, TypeInit, TypeStep, PTL DEF Spec

(***************************************************************************)
(* The invariant of the walk                                               *)
(***************************************************************************)

\* The walk has been everywhere a node it is done with depends on.
Closed == \A n \in walked : graph.deps[n] \subseteq walked

\* A loop or webhook node at hand is the next one, and runs.
AtNode ==
    pc \in {"loop", "parked"} =>
        /\ now \in ran \ walked /\ graph.deps[now] \subseteq walked /\ Runs(now)
        /\ Kind(now) = (IF pc = "loop" THEN "for_each" ELSE "webhook")

\* No other node was started and not finished.
RanIsWalked == pc # "over" => ran \subseteq walked \cup (IF pc = "walk" THEN {} ELSE {now})

\* What is skipped ahead of the walk is in the body of a finished loop.
SkippedAhead == Looped \subseteq skipped /\ skipped \subseteq walked \cup Looped

\* A decision was made where one is expected.
Decided == \A d \in walked : Kind(d) \in {"condition", "if"} => d \in skipped \/ decision[d] \in Branches

\* Without an error there is no gap; and a completed row is an ended walk.
NoGap == error \/ walked \subseteq skipped \cup output
CompletedIsOver == status = "completed" => pc = "over" /\ ~error /\ walked = Nodes

WalkInv == /\ Closed /\ AtNode /\ RanIsWalked /\ SkippedAhead /\ Decided /\ NoGap
           /\ CompletedIsOver /\ ChoicesHold

\* How the walk leaves a node behind, whatever kind it is.
Leaves(n) ==
    /\ n \in Nodes \ walked /\ graph.deps[n] \subseteq walked
    /\ walked' = walked \cup {n} /\ pc' = "walk" /\ UNCHANGED graph
    /\ ran \subseteq walked \cup {n}
    /\ IF Runs(n) THEN ran' = ran \cup {n} ELSE ran' = ran /\ n \notin ran
    /\ IF Runs(n) /\ Kind(n) = "for_each" THEN skipped' = skipped \cup Body(n)
                                         ELSE skipped' \in {skipped, skipped \cup {n}}
    /\ \A m \in Nodes \ {n} : decision'[m] = decision[m]
    /\ n \in skipped' \/ (Kind(n) \in {"condition", "if"} => decision'[n] \in Branches)
    /\ output \subseteq output'
    /\ error' \/ (~error /\ n \in skipped' \cup output')
    /\ status' # "completed"

\* Between nodes no row says completed and all that was started is finished.
LEMMA VisitLeaves ==
    ASSUME TypeInv, WalkInv, NEW n \in Nodes,
           Skip(n) \/ RunAgent(n) \/ Decide(n) \/ RunPlain(n) \/ ActionSucceeds(n) \/ ActionFails(n)
    PROVE  Leaves(n)
<1>. TypeOK /\ decision \in [Nodes -> Branches \cup {"none"}] /\ skipped \subseteq Nodes
  BY DEF TypeInv, TypeOK
<1>. {"ok", "failed"} \subseteq Branches
  BY GraphAssumption
<1>1. pc = "walk" /\ n \in Nodes \ walked /\ graph.deps[n] \subseteq walked
  BY DEF Skip, RunAgent, Decide, RunPlain, ActionSucceeds, ActionFails, Starts, IsNext, Ready
<1>2. ran \subseteq walked /\ status # "completed"
  BY <1>1 DEF WalkInv, RanIsWalked, CompletedIsOver
<1>3. Finishes(n) => walked' = walked \cup {n} /\ pc' = "walk" /\ UNCHANGED <<graph, status>>
  BY <1>1 DEF Finishes
<1>. USE <1>1, <1>2, <1>3
<1>4. CASE Skip(n)
  BY <1>4 DEF Skip, Leaves
<1>5. CASE RunAgent(n)
  BY <1>5 DEF RunAgent, Starts, Leaves, TypeOK
<1>6. CASE Decide(n)
  BY <1>6 DEF Decide, Starts, Leaves, TypeOK
<1>7. CASE RunPlain(n)
  BY <1>7 DEF RunPlain, Starts, Leaves, TypeOK
<1>8. CASE ActionSucceeds(n)
  BY <1>8 DEF ActionSucceeds, Starts, Leaves, TypeOK
<1>9. CASE ActionFails(n)
  BY <1>9 DEF ActionFails, Starts, Leaves, TypeOK
<1>. QED  BY <1>4, <1>5, <1>6, <1>7, <1>8, <1>9

LEMMA LoopOrWaitLeaves ==
    ASSUME TypeInv, WalkInv, LoopEnd \/ Unpark
    PROVE  now \in Nodes /\ Leaves(now)
<1>. TypeOK /\ ItemsOfLoop /\ decision \in [Nodes -> Branches \cup {"none"}]
  BY DEF TypeInv, TypeOK
<1>1. pc \in {"loop", "parked"} /\ now \in Nodes
  BY DEF LoopEnd, Unpark, ItemsOfLoop
<1>2. /\ now \in ran \ walked /\ graph.deps[now] \subseteq walked /\ Runs(now)
      /\ Kind(now) = (IF pc = "loop" THEN "for_each" ELSE "webhook")
      /\ ran \subseteq walked \cup {now} /\ status # "completed"
  BY <1>1 DEF WalkInv, AtNode, RanIsWalked, CompletedIsOver
<1>3. ran = ran \cup {now}
  BY <1>2
<1>4. CASE LoopEnd
  <2>1. skipped' = skipped \cup Body(now) /\ Kind(now) = "for_each"
    BY <1>4, <1>2 DEF LoopEnd, SkipsBody
  <2>2. error' \/ (~error /\ now \in output')
    BY <1>4 DEF LoopEnd, TypeOK
  <2>. QED  BY <1>1, <1>2, <1>3, <1>4, <2>1, <2>2 DEF LoopEnd, Leaves
<1>5. CASE Unpark
  <2>1. Kind(now) = "webhook"
    BY <1>5, <1>2 DEF Unpark
  <2>2. error' \/ (~error /\ now \in output')
    BY <1>5 DEF Unpark, TypeOK
  <2>3. skipped' = skipped /\ decision' = decision /\ output \subseteq output'
    BY <1>5 DEF Unpark
  <2>4. walked' = walked \cup {now} /\ pc' = "walk" /\ UNCHANGED <<graph, ran>> /\ status' # "completed"
    BY <1>5, <1>2 DEF Unpark
  <2>. QED  BY <1>1, <1>2, <1>3, <2>1, <2>2, <2>3, <2>4 DEF Leaves
<1>. QED  BY <1>4, <1>5

(***************************************************************************)
(* What was decided stays right                                            *)
(***************************************************************************)

\* What comes before a node whose dependencies are walked is walked.
LEMMA BeforeIsWalked ==
    ASSUME walked \subseteq Nodes, Closed, NEW m \in Nodes, NEW n \in Nodes,
           graph.deps[n] \subseteq walked, Before(m, n)
    PROVE  m \in walked
BY DEF Closed, Before

\* A choice rests on nothing but what the walk is done with.
LEMMA ChoiceIsStable ==
    ASSUME TypeOK, Closed, Wired, NEW n \in Nodes, graph.deps[n] \subseteq walked,
           UNCHANGED graph,
           skipped' \cap walked = skipped \cap walked,
           \A m \in walked : decision'[m] = decision[m]
    PROVE  /\ Activated(n, skipped)' <=> Activated(n, skipped)
           /\ Pruned(n, skipped)' <=> Pruned(n, skipped)
<1>1. \A m \in Nodes : graph.gate[n][m] # "none" => m \in walked
  <2>. SUFFICES ASSUME NEW m \in Nodes, graph.gate[n][m] # "none" PROVE m \in walked
    OBVIOUS
  <2>1. Before(m, n) /\ walked \subseteq Nodes
    BY DEF Wired, TypeOK
  <2>. QED  BY <2>1, BeforeIsWalked
<1>2. Activated(n, skipped)' <=> Activated(n, skipped)
  BY <1>1 DEF Activated
<1>3. Pruned(n, skipped)' <=> Pruned(n, skipped)
  BY DEF Pruned, Kind
<1>. QED  BY <1>2, <1>3

\* The bodies of finished loops when the walk leaves n behind.
LEMMA LoopedGrows ==
    ASSUME TypeInv, WalkInv, NEW n \in Nodes, Leaves(n)
    PROVE  Looped' = Looped \cup (IF Runs(n) /\ Kind(n) = "for_each" THEN Body(n) ELSE {})
<1>. UNCHANGED graph /\ Body(n) \subseteq Nodes
  BY GraphIsTyped DEF Leaves, TypeInv, TypeOK
<1>1. \A m \in Nodes : (Kind(m))' = Kind(m) /\ (Body(m))' = Body(m)
  BY DEF Kind, Body
<1>2. walked \subseteq Nodes /\ n \notin walked
  BY DEF TypeInv, TypeOK, Leaves
<1>3. CASE Runs(n)
  <2>1. (ran \cap walked)' = (ran \cap walked) \cup {n}
    BY <1>3 DEF Leaves
  <2>. QED  BY <1>1, <1>2, <1>3, <2>1 DEF Looped
<1>4. CASE ~Runs(n)
  <2>1. (ran \cap walked)' = ran \cap walked
    BY <1>4 DEF Leaves
  <2>. QED  BY <1>1, <1>2, <1>4, <2>1 DEF Looped
<1>. QED  BY <1>3, <1>4

LEMMA LeavesChoices ==
    ASSUME TypeInv, WalkInv, NEW n \in Nodes, Leaves(n)
    PROVE  ChoicesHold'
<1>. TypeOK /\ walked \subseteq Nodes /\ skipped \subseteq Nodes /\ UNCHANGED graph
  BY DEF TypeInv, TypeOK, Leaves
<1>. Closed /\ SkippedAhead /\ ChoicesHold
  BY DEF WalkInv
<1>1. Wired' <=> Wired
  BY DEF Wired, Before, Kind, Body
<1>. SUFFICES ASSUME Wired
              PROVE  \A x \in walked' :
                       x \in ran' <=> x \notin Looped' /\ Activated(x, skipped)' /\ ~Pruned(x, skipped)'
  BY <1>1 DEF ChoicesHold
<1>n. n \notin walked /\ graph.deps[n] \subseteq walked /\ walked' = walked \cup {n}
  BY DEF Leaves
\* None of the walked nodes is skipped now that was not before, or looped over.
<1>2. /\ skipped' \cap walked = skipped \cap walked
      /\ \A x \in walked' : x \in Looped' <=> x \in Looped
  <2>1. CASE Runs(n) /\ Kind(n) = "for_each"
    <3>1. \A b \in Body(n) : b \notin walked /\ b # n
      <4>. SUFFICES ASSUME NEW b \in Body(n) PROVE b \notin walked /\ b # n
        OBVIOUS
      <4>1. b \in Nodes /\ Before(n, b)
        BY <2>1, GraphIsTyped DEF Wired, TypeOK
      <4>2. b \in walked => graph.deps[b] \subseteq walked
        BY DEF Closed
      <4>. QED  BY <1>n, <4>1, <4>2, BeforeIsWalked
    <3>. QED  BY <1>n, <2>1, <3>1, LoopedGrows DEF Leaves
  <2>2. CASE ~(Runs(n) /\ Kind(n) = "for_each")
    BY <1>n, <2>2, LoopedGrows DEF Leaves
  <2>. QED  BY <2>1, <2>2
<1>3. \A m \in walked : decision'[m] = decision[m]
  BY <1>n DEF Leaves
<1>. TAKE x \in walked'
<1>4. /\ Activated(x, skipped)' <=> Activated(x, skipped)
      /\ Pruned(x, skipped)' <=> Pruned(x, skipped)
  <2>1. x \in Nodes /\ graph.deps[x] \subseteq walked
    BY <1>n DEF Closed
  <2>. QED  BY <1>2, <1>3, <2>1, ChoiceIsStable
<1>5. x \in ran' <=> x \notin Looped /\ Activated(x, skipped) /\ ~Pruned(x, skipped)
  <2>1. CASE x = n
    <3>1. n \in ran' <=> Runs(n)
      BY DEF Leaves
    <3>2. n \in skipped <=> n \in Looped
      BY <1>n DEF SkippedAhead
    <3>. QED  BY <2>1, <3>1, <3>2 DEF Runs
  <2>2. CASE x \in walked
    <3>1. x \in ran' <=> x \in ran
      BY <1>n, <2>2 DEF Leaves
    <3>. QED  BY <2>2, <3>1 DEF ChoicesHold
  <2>. QED  BY <1>n, <2>1, <2>2
<1>. QED  BY <1>2, <1>4, <1>5

\* Leaving a node keeps the whole invariant.
LEMMA LeavesKeeps ==
    ASSUME TypeInv, WalkInv, NEW n \in Nodes, Leaves(n)
    PROVE  WalkInv'
<1>. TypeOK /\ WalkInv /\ walked \subseteq Nodes /\ UNCHANGED graph
  BY DEF TypeInv, TypeOK, Leaves
<1>. \A m \in Nodes : (Kind(m))' = Kind(m)
  BY DEF Kind
<1>1. Closed'
  BY DEF WalkInv, Closed, Leaves
<1>2. AtNode' /\ RanIsWalked' /\ CompletedIsOver'
  BY DEF AtNode, RanIsWalked, CompletedIsOver, Leaves
<1>3. SkippedAhead'
  BY LoopedGrows DEF WalkInv, SkippedAhead, Leaves
<1>4. Decided'
  <2>1. skipped \subseteq skipped'
    BY DEF Leaves
  <2>. QED  BY <2>1 DEF WalkInv, Decided, Leaves
<1>5. NoGap'
  <2>1. skipped \subseteq skipped'
    BY DEF Leaves
  <2>. QED  BY <2>1 DEF WalkInv, NoGap, Leaves
<1>. QED  BY <1>1, <1>2, <1>3, <1>4, <1>5, LeavesChoices DEF WalkInv

\* A step that leaves no node behind decides and skips nothing.
Stays ==
    /\ UNCHANGED <<graph, walked, skipped, decision, output, error>>
    /\ (ran \cap walked)' = ran \cap walked

LEMMA StaysKeeps ==
    ASSUME WalkInv, Stays
    PROVE  (Closed /\ SkippedAhead /\ Decided /\ NoGap /\ ChoicesHold)'
<1>. UNCHANGED <<graph, walked, skipped, decision, output, error>> /\ (ran \cap walked)' = ran \cap walked
  BY DEF Stays
<1>1. Closed' /\ NoGap' /\ Decided'
  BY DEF WalkInv, Closed, NoGap, Decided, Kind
<1>2. Looped' = Looped
  BY DEF Looped, Kind, Body
<1>3. SkippedAhead'
  BY <1>2 DEF WalkInv, SkippedAhead
<1>4. ChoicesHold'
  <2>1. Wired' <=> Wired
    BY DEF Wired, Before, Kind, Body
  <2>. SUFFICES ASSUME Wired, NEW n \in walked
                PROVE  n \in ran' <=> n \notin Looped' /\ Activated(n, skipped)' /\ ~Pruned(n, skipped)'
    BY <2>1 DEF ChoicesHold
  <2>2. /\ Activated(n, skipped)' <=> Activated(n, skipped)
        /\ Pruned(n, skipped)' <=> Pruned(n, skipped)
    BY DEF Activated, Pruned, Kind
  <2>3. n \in ran' <=> n \in ran
    OBVIOUS
  <2>. QED  BY <1>2, <2>2, <2>3 DEF WalkInv, ChoicesHold
<1>. QED  BY <1>1, <1>3, <1>4

LEMMA WalkInit == Init => WalkInv
<1>. SUFFICES ASSUME Init PROVE WalkInv
  OBVIOUS
<1>1. Looped = {}
  BY DEF Init, Looped
<1>. QED  BY <1>1 DEF Init, WalkInv, Closed, AtNode, RanIsWalked, SkippedAhead, Decided, NoGap,
                     CompletedIsOver, ChoicesHold

LEMMA WalkStep == TypeInv /\ WalkInv /\ [Next]_vars => WalkInv'
<1>. SUFFICES ASSUME TypeInv, WalkInv, [Next]_vars PROVE WalkInv'
  OBVIOUS
<1>. TypeOK /\ ItemsOfLoop /\ AtNode /\ RanIsWalked /\ CompletedIsOver
  BY DEF TypeInv, WalkInv
<1>s. ASSUME Stays, AtNode', RanIsWalked', CompletedIsOver' PROVE WalkInv'
  BY <1>s, StaysKeeps DEF WalkInv
<1>0. CASE UNCHANGED vars
  BY <1>0, <1>s DEF vars, walk, Stays, AtNode, RanIsWalked, CompletedIsOver, Runs, Activated, Pruned, Kind
<1>1. ASSUME NEW n \in Nodes, Visit(n) PROVE WalkInv'
  <2>1. CASE Skip(n) \/ RunAgent(n) \/ Decide(n) \/ RunPlain(n) \/ ActionSucceeds(n) \/ ActionFails(n)
    BY <2>1, VisitLeaves, LeavesKeeps
  <2>2. CASE LoopStart(n) \/ Park(n)
    <3>1. /\ n \in Nodes \ walked /\ graph.deps[n] \subseteq walked /\ Runs(n)
          /\ pc = "walk" /\ ran' = ran \cup {n} /\ now' = n
          /\ UNCHANGED <<graph, walked, skipped, decision, output, error>>
      BY <2>2 DEF LoopStart, Park, Starts, IsNext, Ready
    <3>2. Runs(n)' <=> Runs(n)
      BY <3>1 DEF Runs, Activated, Pruned, Kind
    <3>3. Kind(n) = (IF pc' = "loop" THEN "for_each" ELSE "webhook") /\ pc' \in {"loop", "parked"}
      BY <2>2 DEF LoopStart, Park
    <3>4. ran \subseteq walked /\ status # "completed"
      BY <3>1 DEF RanIsWalked, CompletedIsOver
    <3>5. AtNode'
      BY <3>1, <3>2, <3>3 DEF AtNode, Kind, Runs, Activated, Pruned
    <3>6. status' # "completed"
      BY <2>2, <3>4 DEF LoopStart, Park
    <3>. QED  BY <1>s, <3>1, <3>3, <3>4, <3>5, <3>6 DEF Stays, RanIsWalked, CompletedIsOver
  <2>3. CASE Raise(n)
    <3>1. (ran \cap walked)' = ran \cap walked
      BY <2>3 DEF Raise, Starts, IsNext, Ready
    <3>. QED  BY <1>s, <2>3, <3>1 DEF Raise, Stays, AtNode, RanIsWalked, CompletedIsOver
  <2>. QED  BY <1>1, <2>1, <2>2, <2>3 DEF Visit
<1>2. ASSUME NEW i \in DOMAIN items, ItemStarts(i) \/ ItemGoesOn(i) PROVE WalkInv'
  <2>1. UNCHANGED <<graph, walk, error, status, ran>>
    BY <1>2 DEF ItemStarts, ItemGoesOn
  <2>. QED  BY <1>s, <2>1
            DEF walk, Stays, AtNode, RanIsWalked, CompletedIsOver, Runs, Activated, Pruned, Kind
<1>3. ASSUME NEW i \in DOMAIN items, ItemRaises(i) PROVE WalkInv'
  BY <1>s, <1>3 DEF ItemRaises, Stays, AtNode, RanIsWalked, CompletedIsOver
<1>4. CASE LoopEnd \/ Unpark
  BY <1>4, LoopOrWaitLeaves, LeavesKeeps
<1>5. CASE End
  BY <1>s, <1>5 DEF End, Outcome, Stays, AtNode, RanIsWalked, CompletedIsOver
<1>6. CASE Abandon
  BY <1>s, <1>6 DEF Abandon, Stays, AtNode, RanIsWalked, CompletedIsOver
<1>. QED  BY <1>0, <1>1, <1>2, <1>3, <1>4, <1>5, <1>6 DEF Next, Step

LEMMA Invariance == Spec => [](TypeInv /\ WalkInv)
BY TypeInit, TypeStep, WalkInit, WalkStep, PTL DEF Spec

(***************************************************************************)
(* The theorems                                                            *)
(***************************************************************************)

\* What is first in the order of ids, or of items.
LEMMA FirstOne ==
    ASSUME NEW S, S \subseteq Nat, S # {}
    PROVE  \E n \in S : \A m \in S : n <= m
<1> DEFINE R == OpToRel(<, Nat)
<1>1. IsWellFoundedOn(R, Nat)
  BY NatLessThanWellFounded
<1>2. \A x, y \in Nat : <<x, y>> \in R <=> x < y
  BY DEF OpToRel
<1>. HIDE DEF R
<1>3. PICK n \in S : \A m \in S : <<m, n>> \notin R
  BY <1>1, WFMin
<1>4. ASSUME NEW m \in S PROVE n <= m
  <2>1. m \in Nat /\ n \in Nat /\ <<m, n>> \notin R
    BY <1>3
  <2>2. ~(m < n)
    BY <1>2, <2>1
  <2>. QED  BY <2>1, <2>2
<1>. QED  BY <1>4

\* The topological walk always finds a next node in a graph without cycles: the
\* nodes left have one that waits for none of the others.
LEMMA WalkGoesOn ==
    ASSUME TypeInv, walked # Nodes
    PROVE  \E n \in Nodes : IsNext(n)
<1> DEFINE ready == {n \in Nodes : Ready(n)}
<1>1. graph \in Graph /\ Acyclic(graph) /\ walked \subseteq Nodes /\ Nodes \subseteq Nat
  BY GraphAssumption DEF TypeInv, TypeOK
<1>2. PICK n \in Nodes \ walked : graph.deps[n] \cap (Nodes \ walked) = {}
  BY <1>1 DEF Acyclic
<1>3. graph.deps[n] \subseteq Nodes
  BY <1>1, GraphIsTyped
<1>4. n \in ready
  BY <1>2, <1>3 DEF Ready
<1>5. PICK m \in ready : \A r \in ready : m <= r
  BY <1>1, <1>4, FirstOne
<1>. QED  BY <1>5 DEF IsNext

\* A loop that waits has an item that works, or nobody holds the semaphore and
\* the first of those that wait may have it.
LEMMA LoopGoesOn ==
    ASSUME TypeInv, pc = "loop", NEW i \in DOMAIN items, ~Over(i),
           \A j \in DOMAIN items : ~Active(j)
    PROVE  \E j \in DOMAIN items : MayStart(j)
<1> DEFINE waiting == {j \in DOMAIN items : items[j].at = 0}
<1>1. PICK k \in 0..MaxItems : items \in [1..k -> Item]
  BY DEF TypeInv, TypeOK
<1>2. Length \in Nat
  BY GraphIsTyped DEF TypeInv, TypeOK, ItemsOfLoop, Length
<1>3. \A j \in DOMAIN items : items[j].at \in Nat
  BY <1>1 DEF Item
<1>4. i \in waiting
  BY <1>2, <1>3 DEF Over, Active
<1>5. MaxItems \in Nat /\ Concurrency \in Nat \ {0}
  BY GraphAssumption
<1>6. waiting \subseteq 1..k /\ waiting \subseteq Nat
  BY <1>1, <1>5
<1>7. PICK m \in waiting : \A j \in waiting : m <= j
  BY <1>4, <1>6, FirstOne
<1>8. \A j \in 1..(m - 1) : items[j].at # 0
  BY <1>1, <1>5, <1>6, <1>7
<1>9. Busy = {} /\ Cardinality(Busy) < Concurrency
  BY <1>5, FS_EmptySet DEF Busy
<1>. QED  BY <1>7, <1>8, <1>9 DEF MayStart

\* The walk and its loops wait for nobody who waits for them: topological order
\* on acyclic graphs, and a semaphore that goes to the items in order.
THEOREM WalkNeverStuck == Spec => []NeverStuck
<1>1. TypeInv => NeverStuck
  BY WalkGoesOn, LoopGoesOn DEF NeverStuck
<1>. QED  BY <1>1, Invariance, PTL

\* In a wired graph, what _activated and the pruning saw when they chose a node
\* is what the whole walk leaves: no choice is made too early.
THEOREM ChoicesStayRight == Spec => []ChoicesHold
<1>1. WalkInv => ChoicesHold
  BY DEF WalkInv
<1>. QED  BY <1>1, Invariance, PTL

\* Two nodes gated by different branches of a decision never both run: the one
\* decision both were chosen by was made before either.
THEOREM BranchesAreExclusive == Spec => []BranchesExclude
<1>1. TypeInv /\ WalkInv => BranchesExclude
  <2>. SUFFICES ASSUME TypeInv, WalkInv, Wired, NEW d \in Nodes,
                       Kind(d) \in {"condition", "if"}
                PROVE  \A n \in ran \cap walked :
                         graph.gate[n][d] \in Branches => decision[d] = graph.gate[n][d]
    BY DEF BranchesExclude
  <2>. TAKE n \in ran \cap walked
  <2>. HAVE graph.gate[n][d] \in Branches
  <2>1. graph.gate[n][d] \notin {"none", "*"}
    BY GraphAssumption
  <2>2. Activated(n, skipped) /\ graph.deps[n] \subseteq walked
    BY DEF WalkInv, ChoicesHold, Closed
  <2>3. d \notin skipped /\ decision[d] \in {"none", graph.gate[n][d]}
    BY <2>1, <2>2 DEF Activated
  <2>4. d \in walked
    <3>1. Before(d, n) /\ n \in Nodes
      BY <2>1 DEF Wired, TypeInv, TypeOK
    <3>. QED  BY <2>2, <3>1, BeforeIsWalked DEF TypeInv, TypeOK, WalkInv
  <2>5. decision[d] # "none"
    BY <2>3, <2>4, GraphAssumption DEF WalkInv, Decided
  <2>. QED  BY <2>3, <2>5
<1>. QED  BY <1>1, Invariance, PTL

\* A row that says completed belongs to a walk without an error event that left
\* every node either skipped or with its output.
THEOREM CompletedHasNoGap == Spec => []CompletedIsWhole
<1>1. WalkInv => CompletedIsWhole
  BY DEF WalkInv, CompletedIsOver, NoGap, CompletedIsWhole
<1>. QED  BY <1>1, Invariance, PTL
=============================================================================
