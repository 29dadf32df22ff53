------------------------- MODULE DynamiqFlowProofs -------------------------
(***************************************************************************)
(* The safety properties of a dynamiq flow, for any flow and any bounds on *)
(* runs, crashes and lost saves.  The invariant is built in layers: types, *)
(* the shape of a run, what is done and recorded, what the latest snapshot *)
(* knows of the checkpoint, then approvals and iterations.  Each layer is  *)
(* inductive given the ones before it.                                     *)
(***************************************************************************)
EXTENDS DynamiqFlow, FiniteSetTheorems, TLAPS

(***************************************************************************)
(* Types                                                                   *)
(***************************************************************************)

\* Chains are numbered by runs, and an iteration that acted was not the last.
Bounds ==
    /\ cp.chain <= runs /\ store.chain <= runs
    /\ \A n \in Nodes : work[n] = "acted" => at[n] < MaxLoops

Typed == TypeOK /\ Bounds

LEMMA BlankType == ASSUME NEW c \in 0..MaxRuns  PROVE NoSnapshot(c) \in Snapshot
  BY FlowAssumption DEF NoSnapshot, Snapshot, Answers

LEMMA FlowType == ASSUME TypeOK
                  PROVE  /\ flow \in Flow /\ flow.async \in BOOLEAN
                         /\ \A n \in Nodes : flow.deps[n] \subseteq Nodes
                         /\ flow.raises \subseteq Nodes /\ flow.choice \subseteq Nodes
                         /\ flow.approval \subseteq Nodes /\ flow.excluded \subseteq Nodes
  BY FlowAssumption DEF TypeOK, Flow

LEMMA SnapshotFields == ASSUME NEW c \in Snapshot
                        PROVE  /\ c.chain \in 0..MaxRuns
                               /\ c.status \in {"active", "pending_input", "completed",
                                                "failed", "canceled"}
                               /\ c.st \in [Nodes -> Results \cup {"absent", "active"}]
                               /\ c.ans \in [Nodes -> Answers]
                               /\ c.loops \in [Nodes -> 0..MaxLoops]
                               /\ c.pending \subseteq Nodes
  BY DEF Snapshot

LEMMA StatusEdit == ASSUME NEW c \in Snapshot,
                           NEW s \in {"active", "completed", "failed", "canceled"}
                    PROVE  LET d == [c EXCEPT !.status = s]
                           IN  /\ d \in Snapshot /\ d.chain = c.chain /\ d.st = c.st
                               /\ d.ans = c.ans /\ d.loops = c.loops /\ d.pending = c.pending
  BY DEF Snapshot

LEMMA ReopenEdit == ASSUME NEW c \in Snapshot
                    PROVE  LET d == [c EXCEPT !.pending = {}, !.status = "active"]
                           IN  /\ d \in Snapshot /\ d.chain = c.chain /\ d.st = c.st
                               /\ d.ans = c.ans /\ d.loops = c.loops /\ d.pending = {}
  BY DEF Snapshot

LEMMA PendingEdits == ASSUME NEW c \in Snapshot, NEW n \in Nodes
                      PROVE  /\ LET d == MarkPending(c, n)
                                IN  /\ d \in Snapshot /\ d.chain = c.chain /\ d.st = c.st
                                    /\ d.ans = c.ans /\ d.loops = c.loops
                                    /\ d.pending = c.pending \cup {n}
                             /\ LET d == ClearPending(c, n)
                                IN  /\ d \in Snapshot /\ d.chain = c.chain /\ d.st = c.st
                                    /\ d.ans = c.ans /\ d.loops = c.loops
                                    /\ d.pending = c.pending \ {n}
  BY DEF Snapshot, MarkPending, ClearPending

LEMMA MidRunEdit == ASSUME TypeOK, NEW n \in Nodes, NEW k \in 0..MaxLoops
                    PROVE  /\ MidRun(cp, n, k) \in Snapshot
                           /\ MidRun(cp, n, k).chain = cp.chain
                           /\ MidRun(cp, n, k).pending = cp.pending
                           /\ MidRun(cp, n, k).st = [cp.st EXCEPT ![n] =
                                    IF cp.st[n] = "absent" THEN "active" ELSE cp.st[n]]
                           /\ MidRun(cp, n, k).ans = [cp.ans EXCEPT ![n] = answer[n]]
                           /\ MidRun(cp, n, k).loops = [cp.loops EXCEPT ![n] = k]
<1>1. answer[n] \in Answers
  BY DEF TypeOK
<1>2. /\ cp \in Snapshot /\ cp.st \in [Nodes -> Results \cup {"absent", "active"}]
      /\ cp.ans \in [Nodes -> Answers] /\ cp.loops \in [Nodes -> 0..MaxLoops]
  BY DEF Snapshot, TypeOK
<1>3. [cp.st EXCEPT ![n] = IF cp.st[n] = "absent" THEN "active" ELSE cp.st[n]]
          \in [Nodes -> Results \cup {"absent", "active"}]
  BY <1>2
<1>4. [cp.ans EXCEPT ![n] = answer[n]] \in [Nodes -> Answers]
  BY <1>1, <1>2
<1>5. [cp.loops EXCEPT ![n] = k] \in [Nodes -> 0..MaxLoops]
  BY <1>2
<1>. QED  BY <1>2, <1>3, <1>4, <1>5 DEF Snapshot, MidRun

\* A batch without a canceled node is recorded but for the excluded nodes.
LEMMA UpdateEdit == ASSUME TypeOK, NEW c \in Snapshot, NEW B \in SUBSET Nodes,
                           \A n \in B : work[n] \in Results
                    PROVE  LET d == Update(c, B)
                               R == B \ flow.excluded
                           IN  /\ d \in Snapshot /\ d.chain = c.chain /\ d.pending = c.pending
                               /\ d.st = [n \in Nodes |-> IF n \in R THEN work[n] ELSE c.st[n]]
                               /\ d.ans = [n \in Nodes |-> IF n \in R THEN answer[n] ELSE c.ans[n]]
                               /\ d.loops = [n \in Nodes |-> IF n \in R THEN loops[n]
                                                                        ELSE c.loops[n]]
<1> DEFINE R == B \ flow.excluded
<1>1. /\ c.st \in [Nodes -> Results \cup {"absent", "active"}]
      /\ c.ans \in [Nodes -> Answers] /\ c.loops \in [Nodes -> 0..MaxLoops]
  BY DEF Snapshot
<1>2. [n \in Nodes |-> IF n \in R THEN work[n] ELSE c.st[n]]
          \in [Nodes -> Results \cup {"absent", "active"}]
  BY <1>1
<1>3. [n \in Nodes |-> IF n \in R THEN answer[n] ELSE c.ans[n]] \in [Nodes -> Answers]
  BY <1>1 DEF TypeOK
<1>4. [n \in Nodes |-> IF n \in R THEN loops[n] ELSE c.loops[n]] \in [Nodes -> 0..MaxLoops]
  BY <1>1 DEF TypeOK
<1>. QED  BY <1>2, <1>3, <1>4 DEF Snapshot, Update

\* What a save leaves behind, whether or not it failed.
SaveType == /\ cp' \in Snapshot /\ store' \in Snapshot /\ lost' \in 0..MaxLost
            /\ cp'.chain <= runs' /\ store'.chain <= runs'

LEMMA SaveTyped == ASSUME Typed, NEW c \in Snapshot, c.chain <= runs', store.chain <= runs',
                          Save(c)
                   PROVE  SaveType
  BY FlowAssumption DEF Typed, TypeOK, Save, SaveType

LEMMA SaveSame == ASSUME Typed, UNCHANGED <<cp, store, lost, runs>>  PROVE SaveType
  BY DEF Typed, TypeOK, Bounds, SaveType

\* The parts of the type that a step of a thread changes.
ThreadType ==
    /\ work' \in [Nodes -> OnThread \cup Ended \cup {"none", "queued"}]
    /\ tries' \in [Nodes -> Nat] /\ at' \in [Nodes -> 0..MaxLoops]
    /\ \A n \in Nodes : work'[n] = "acted" => at'[n] < MaxLoops
    /\ late' \in [Nodes -> {-1} \cup 0..MaxLoops] /\ former' \in SUBSET Nodes

NodeType ==
    /\ resumed' \in SUBSET Nodes /\ answer' \in [Nodes -> Answers]
    /\ restored' \in [Nodes -> 0..MaxLoops] /\ loops' \in [Nodes -> 0..MaxLoops]

LoopType ==
    /\ pc' \in {"off", "loop", "wait", "closing", "over"}
    /\ outcome' \in {"none", "success", "failure", "canceled"}
    /\ canceled' \in BOOLEAN /\ dropped' \in BOOLEAN
    /\ result' \in [Nodes -> Ended \cup {"undefined"}]
    /\ handed' \in SUBSET Nodes /\ done' \in SUBSET Nodes

HistoryType ==
    /\ said' \in [1..MaxRuns -> [Nodes -> Answers]] /\ fresh' \in BOOLEAN
    /\ runs' \in 0..MaxRuns /\ crashes' \in 0..MaxCrashes

LEMMA TypeParts == ASSUME Typed, flow' = flow, LoopType, ThreadType, NodeType, SaveType, HistoryType
                   PROVE  Typed'
  BY DEF Typed, TypeOK, Bounds, LoopType, ThreadType, NodeType, SaveType, HistoryType

LEMMA SameLoop == ASSUME Typed, UNCHANGED loopVars  PROVE LoopType
  BY DEF Typed, TypeOK, loopVars, LoopType

LEMMA SameThreads == ASSUME Typed, UNCHANGED threadVars  PROVE ThreadType
  BY DEF Typed, TypeOK, Bounds, threadVars, ThreadType

LEMMA SameNodes == ASSUME Typed, UNCHANGED nodeVars  PROVE NodeType
  BY DEF Typed, TypeOK, nodeVars, NodeType

LEMMA SameHistory == ASSUME Typed, UNCHANGED history  PROVE HistoryType
  BY DEF Typed, TypeOK, history, HistoryType

LEMMA BecomesType == ASSUME Typed, NEW n \in Nodes,
                            NEW w \in OnThread \cup Ended \cup {"none", "queued"}, w # "acted",
                            Becomes(n, w), UNCHANGED <<at, late, former>>,
                            tries' \in [Nodes -> Nat]
                     PROVE  ThreadType
  BY DEF Typed, TypeOK, Bounds, Becomes, ThreadType

LEMMA StatusSave == ASSUME Typed, NEW s \in {"active", "completed", "failed", "canceled"},
                           Save([cp EXCEPT !.status = s]), runs' = runs
                    PROVE  SaveType
  BY StatusEdit, SaveTyped DEF Typed, TypeOK, Bounds

LEMMA InitTyped == Init => Typed
<1> SUFFICES ASSUME Init PROVE Typed
  OBVIOUS
<1>1. NoSnapshot(0) \in Snapshot /\ NoSnapshot(0).chain = 0
  BY FlowAssumption, BlankType DEF NoSnapshot
<1>2. -1 \in {-1} \cup 0..MaxLoops /\ 0 \in 0..MaxLoops
  BY FlowAssumption
<1>3. /\ runs \in 0..MaxRuns /\ crashes \in 0..MaxCrashes /\ lost \in 0..MaxLost
      /\ cp \in Snapshot /\ store \in Snapshot /\ cp.chain <= runs /\ store.chain <= runs
  BY FlowAssumption, <1>1 DEF Init
<1>4. /\ work \in [Nodes -> OnThread \cup Ended \cup {"none", "queued"}]
      /\ \A n \in Nodes : work[n] # "acted"
  BY DEF Init
<1>5. /\ tries \in [Nodes -> Nat] /\ at \in [Nodes -> 0..MaxLoops]
      /\ restored \in [Nodes -> 0..MaxLoops] /\ loops \in [Nodes -> 0..MaxLoops]
      /\ late \in [Nodes -> {-1} \cup 0..MaxLoops]
  BY <1>2 DEF Init
<1>6. /\ answer \in [Nodes -> Answers] /\ said \in [1..MaxRuns -> [Nodes -> Answers]]
      /\ result \in [Nodes -> Ended \cup {"undefined"}]
  BY DEF Init, Answers
<1>. QED
  BY <1>3, <1>4, <1>5, <1>6 DEF Init, Typed, TypeOK, Bounds

LEMMA EnterTyped == ASSUME Typed, NEW c \in Snapshot, c.chain <= runs + 1, Enter(c)
                    PROVE  /\ flow' = flow /\ ThreadType /\ SaveType /\ loops' = loops
                           /\ pc' = "loop" /\ outcome' = "none" /\ canceled' = FALSE
                           /\ dropped' = FALSE /\ handed' = {} /\ done' = {}
                           /\ runs' \in 0..MaxRuns /\ crashes' \in 0..MaxCrashes
<1>1. runs' = runs + 1 /\ runs' \in 0..MaxRuns /\ runs \in Nat
  BY FlowAssumption DEF Enter, Typed, TypeOK
<1>2. store.chain <= runs' /\ Save(c)
  BY <1>1, SnapshotFields DEF Enter, Typed, TypeOK, Bounds
<1>3. SaveType
  BY <1>1, <1>2, SaveTyped
<1>4. ThreadType
  BY DEF Enter, Typed, TypeOK, Bounds, ThreadType
<1>. QED  BY <1>1, <1>3, <1>4 DEF Enter, Typed, TypeOK

LEMMA StartTyped == ASSUME Typed, Start  PROVE Typed'
<1>1. store.chain \in Nat /\ store.chain <= runs /\ runs \in 0..(MaxRuns - 1)
  BY FlowAssumption, SnapshotFields DEF Typed, TypeOK, Bounds, Start, Enter
<1>2. NoSnapshot(store.chain + 1) \in Snapshot
  BY <1>1, BlankType, FlowAssumption
<1>3. NoSnapshot(store.chain + 1).chain = store.chain + 1
  BY DEF NoSnapshot
<1>4. Enter(NoSnapshot(store.chain + 1)) /\ store.chain + 1 <= runs + 1
  BY <1>1 DEF Start
<1> HIDE DEF Enter
<1>5. /\ flow' = flow /\ ThreadType /\ SaveType /\ loops' = loops
      /\ pc' = "loop" /\ outcome' = "none" /\ canceled' = FALSE
      /\ dropped' = FALSE /\ handed' = {} /\ done' = {}
      /\ runs' \in 0..MaxRuns /\ crashes' \in 0..MaxCrashes
  BY <1>2, <1>3, <1>4, EnterTyped
<1>6. LoopType
  BY <1>5 DEF Start, LoopType
<1>7. NodeType
  BY <1>5 DEF Start, NodeType, Typed, TypeOK
<1>8. said' \in [1..MaxRuns -> [Nodes -> Answers]] /\ fresh' \in BOOLEAN
  BY DEF Start, Typed, TypeOK, Answers
<1>. QED  BY <1>5, <1>6, <1>7, <1>8, TypeParts DEF HistoryType

LEMMA ResumeTyped == ASSUME Typed, Resume  PROVE Typed'
<1> DEFINE c == [store EXCEPT !.pending = {}, !.status = "active"]
<1>0. store \in Snapshot /\ runs \in Nat /\ store.chain <= runs
  BY FlowAssumption DEF Typed, TypeOK, Bounds
<1>a. store.chain \in 0..MaxRuns
  BY <1>0, SnapshotFields
<1>b. c \in Snapshot /\ c.chain = store.chain
  BY <1>0, ReopenEdit
<1>1. c \in Snapshot /\ c.chain = store.chain /\ store.chain \in Nat
  BY <1>a, <1>b, FlowAssumption
<1>2. Enter(c) /\ c.chain <= runs + 1
  BY <1>0, <1>1 DEF Resume
<1> HIDE DEF c
<1>3. /\ flow' = flow /\ ThreadType /\ SaveType /\ loops' = loops
      /\ pc' = "loop" /\ outcome' = "none" /\ canceled' = FALSE
      /\ dropped' = FALSE /\ handed' = {} /\ done' = {}
      /\ runs' \in 0..MaxRuns /\ crashes' \in 0..MaxCrashes
  BY <1>1, <1>2, EnterTyped
<1>4. LoopType
  BY <1>3 DEF Resume, LoopType, Ended
<1>5. NodeType
  BY <1>0, <1>3, SnapshotFields DEF Resume, NodeType, Typed, TypeOK
<1>6. said' \in [1..MaxRuns -> [Nodes -> Answers]] /\ fresh' \in BOOLEAN
  BY DEF Resume, Typed, TypeOK
<1>. QED  BY <1>3, <1>4, <1>5, <1>6, TypeParts DEF HistoryType

LEMMA CrashTyped == ASSUME Typed, Crash  PROVE Typed'
<1>1. NoSnapshot(0) \in Snapshot /\ NoSnapshot(0).chain = 0
  BY FlowAssumption, BlankType DEF NoSnapshot
<1>2. -1 \in {-1} \cup 0..MaxLoops /\ 0 \in 0..MaxLoops /\ 0 <= runs
  BY FlowAssumption DEF Typed, TypeOK
<1>3. SaveType
  BY <1>1, <1>2 DEF Crash, SaveType, Typed, TypeOK, Bounds
<1>4. LoopType /\ ThreadType
  BY <1>2 DEF Crash, LoopType, ThreadType
<1>5. NodeType
  BY <1>2 DEF Crash, NodeType, Answers
<1>6. HistoryType
  BY FlowAssumption DEF Crash, HistoryType, Typed, TypeOK
<1>. QED  BY <1>3, <1>4, <1>5, <1>6, TypeParts DEF Crash

LEMMA MainLoopTyped == ASSUME Typed, MainLoop \/ Cancel \/ CancelTask  PROVE Typed'
<1>0. /\ cp \in Snapshot /\ runs' = runs
  BY DEF MainLoop, HandOut, Collect, End, StopCanceled, Close, StopDropped, Cancel, CancelTask,
         history, Typed, TypeOK
<1>1. CASE HandOut
  <2>1. LoopType
    BY <1>1 DEF HandOut, LoopType, Typed, TypeOK
  <2>2. ThreadType
    BY <1>1 DEF HandOut, Set, ThreadType, Typed, TypeOK, Bounds
  <2>. QED  BY <1>1, <2>1, <2>2, TypeParts, SameNodes, SameHistory, SaveSame
            DEF HandOut, saveVars, history
<1>2. CASE Collect
  <2>1. LoopType
    BY <1>2 DEF Collect, Finish, Uncollected, LoopType, Typed, TypeOK
  <2>2. ThreadType
    BY <1>2 DEF Collect, Set, ThreadType, Typed, TypeOK, Bounds
  <2>3. SaveType
    <3>1. CASE \E n \in Uncollected : work[n] = "canceled"
      BY <1>0, <1>2, <3>1, StatusSave DEF Collect
    <3>2. CASE ~\E n \in Uncollected : work[n] = "canceled"
      <4>1. \A n \in Uncollected : work[n] \in Results
        BY <3>2 DEF Uncollected, Ended
      <4>2. Update(cp, Uncollected) \in Snapshot /\ Update(cp, Uncollected).chain = cp.chain
        BY <1>0, <4>1, UpdateEdit DEF Typed, Uncollected
      <4>3. Save(Update(cp, Uncollected))
        BY <1>2, <3>2 DEF Collect
      <4>. QED  BY <1>0, <4>2, <4>3, SaveTyped DEF Typed, Bounds
    <3>. QED  BY <3>1, <3>2
  <2>. QED  BY <1>2, <2>1, <2>2, <2>3, TypeParts, SameNodes, SameHistory DEF Collect
<1>3. CASE End
  <2>1. LoopType
    BY <1>3 DEF End, Finish, LoopType, Typed, TypeOK
  <2>2. SaveType
    BY <1>0, <1>3, StatusSave DEF End
  <2>. QED  BY <1>3, <2>1, <2>2, TypeParts, SameThreads, SameNodes, SameHistory DEF End
<1>4. CASE StopCanceled
  <2>1. LoopType
    BY <1>4 DEF StopCanceled, Finish, LoopType, Typed, TypeOK
  <2>2. SaveType
    BY <1>0, <1>4, StatusSave DEF StopCanceled
  <2>. QED  BY <1>4, <2>1, <2>2, TypeParts, SameThreads, SameNodes, SameHistory
            DEF StopCanceled
<1>5. CASE Close
  <2>1. LoopType
    BY <1>5 DEF Close, LoopType, Typed, TypeOK
  <2>2. ThreadType
    BY <1>5 DEF Close, ThreadType, Typed, TypeOK
  <2>. QED  BY <1>5, <2>1, <2>2, TypeParts, SameNodes, SameHistory, SaveSame
            DEF Close, saveVars, history
<1>6. CASE StopDropped
  <2>1. LoopType
    BY <1>6 DEF StopDropped, Finish, LoopType, Typed, TypeOK
  <2>2. ThreadType
    BY <1>6 DEF StopDropped, ThreadType, Typed, TypeOK
  <2>3. SaveType
    BY <1>0, <1>6, StatusSave DEF StopDropped
  <2>. QED  BY <1>6, <2>1, <2>2, <2>3, TypeParts, SameNodes, SameHistory DEF StopDropped
<1>7. CASE Cancel
  <2>1. LoopType
    BY <1>7 DEF Cancel, LoopType, Typed, TypeOK
  <2>. QED  BY <1>7, <2>1, TypeParts, SameThreads, SameNodes, SameHistory, SaveSame
            DEF Cancel, saveVars, history
<1>8. CASE CancelTask
  <2>1. LoopType
    BY <1>8 DEF CancelTask, Finish, LoopType, Typed, TypeOK
  <2>2. SaveType
    <3>1. CASE Save([cp EXCEPT !.status = "canceled"])
      BY <1>0, <3>1, StatusSave
    <3>2. CASE UNCHANGED saveVars
      BY <1>0, <3>2, SaveSame DEF saveVars
    <3>. QED  BY <1>8, <3>1, <3>2 DEF CancelTask
  <2>. QED  BY <1>8, <2>1, <2>2, TypeParts, SameThreads, SameNodes, SameHistory
            DEF CancelTask
<1>. QED  BY <1>1, <1>2, <1>3, <1>4, <1>5, <1>6, <1>7, <1>8 DEF MainLoop

LEMMA MidRunSave == ASSUME Typed, NEW n \in Nodes, NEW k \in 0..MaxLoops,
                           Save(MidRun(cp, n, k)), runs' = runs
                    PROVE  SaveType
<1>1. cp \in Snapshot /\ TypeOK /\ cp.chain <= runs /\ store.chain <= runs
  BY DEF Typed, TypeOK, Bounds
<1>2. MidRun(cp, n, k) \in Snapshot /\ MidRun(cp, n, k).chain = cp.chain
  BY <1>1, MidRunEdit
<1>. QED  BY <1>1, <1>2, SaveTyped

LEMMA PendingSave == ASSUME Typed, NEW n \in Nodes, runs' = runs,
                            Save(MarkPending(cp, n)) \/ Save(ClearPending(cp, n))
                     PROVE  SaveType
<1>1. cp \in Snapshot /\ cp.chain <= runs /\ store.chain <= runs
  BY DEF Typed, TypeOK, Bounds
<1>2. /\ MarkPending(cp, n) \in Snapshot /\ MarkPending(cp, n).chain = cp.chain
      /\ ClearPending(cp, n) \in Snapshot /\ ClearPending(cp, n).chain = cp.chain
  BY <1>1, PendingEdits
<1>. QED  BY <1>1, <1>2, SaveTyped

LEMMA PersonTyped == ASSUME Typed, NEW n \in Nodes, Person(n)  PROVE Typed'
<1>0. runs' = runs /\ flow' = flow
  BY DEF Person, Answer, GiveUp, history
<1>1. ASSUME NEW a \in {"approved", "rejected"}, Answer(n, a)  PROVE Typed'
  <2>1. ThreadType
    <3>1. tries' \in [Nodes -> Nat] /\ UNCHANGED <<at, late, former>>
      BY <1>1 DEF Answer, Typed, TypeOK
    <3>2. \E w \in {"ready", "skip"} : Becomes(n, w)
      BY <1>1 DEF Answer
    <3>. QED  BY <3>1, <3>2, BecomesType DEF OnThread, Ended, Results
  <2>2. NodeType
    BY <1>1 DEF Answer, NodeType, Typed, TypeOK, Answers
  <2>3. HistoryType
    <3>1. said' \in [1..MaxRuns -> [Nodes -> Answers]]
      BY <1>1 DEF Answer, Typed, TypeOK, Answers
    <3>. QED  BY <1>1, <3>1 DEF Answer, HistoryType, Typed, TypeOK
  <2>4. SaveType
    BY <1>0, <1>1, PendingSave DEF Answer
  <2>. QED  BY <1>0, <1>1, <2>1, <2>2, <2>3, <2>4, TypeParts, SameLoop DEF Answer
<1>2. CASE GiveUp(n)
  <2>1. ThreadType
    <3>1. tries' \in [Nodes -> Nat] /\ UNCHANGED <<at, late, former>> /\ Becomes(n, "failure")
      BY <1>2 DEF GiveUp, Typed, TypeOK
    <3>. QED  BY <3>1, BecomesType DEF OnThread, Ended, Results
  <2>. QED  BY <1>0, <1>2, <2>1, TypeParts, SameLoop, SameNodes, SameHistory, SaveSame
            DEF GiveUp, saveVars
<1>. QED  BY <1>1, <1>2 DEF Person

LEMMA AgainIs == ASSUME NEW n, NEW k  PROVE Again(n, k) \in {"ready", "failure"}
  BY DEF Again

LEMMA ThreadTyped == ASSUME Typed, NEW n \in Nodes, Thread(n)  PROVE Typed'
<1>0. /\ UNCHANGED <<flow, loopVars, history>> /\ runs' = runs
  BY DEF Thread, Begin, SeeCancel, Invalid, Attempt, NoClient, Act, Recover, Iterated, Succeed,
         Fail, TimeOut, history
<1>l. LoopType /\ HistoryType /\ flow' = flow
  BY <1>0, SameLoop, SameHistory
<1>1. CASE Begin(n)
  <2>1. ThreadType
    <3>1. tries' \in [Nodes -> Nat] /\ UNCHANGED <<at, late, former>>
      BY <1>1 DEF Begin, Typed, TypeOK
    <3>2. \E w \in {"skip", "ready", "canceled", "asking"} : Becomes(n, w)
      BY <1>1 DEF Begin
    <3>. QED  BY <3>1, <3>2, BecomesType DEF OnThread, Ended, Results
  <2>2. NodeType
    BY <1>1 DEF Begin, Kept, NodeType, Typed, TypeOK, Answers
  <2>3. SaveType
    <3>1. UNCHANGED saveVars \/ Save(MarkPending(cp, n))
      BY <1>1 DEF Begin
    <3>. QED  BY <1>0, <3>1, PendingSave, SaveSame DEF saveVars
  <2>. QED  BY <1>l, <2>1, <2>2, <2>3, TypeParts
<1>2. CASE SeeCancel(n) \/ Invalid(n) \/ NoClient(n) \/ Fail(n)
  <2>1. ThreadType
    <3>1. tries' \in [Nodes -> Nat] /\ UNCHANGED <<at, late, former>>
      BY <1>2 DEF SeeCancel, Invalid, NoClient, Fail, Typed, TypeOK
    <3>2. \E w \in {"canceled", "failure", "ready"} : Becomes(n, w)
      BY <1>2, AgainIs DEF SeeCancel, Invalid, NoClient, Fail
    <3>. QED  BY <3>1, <3>2, BecomesType DEF OnThread, Ended, Results
  <2>2. UNCHANGED nodeVars /\ UNCHANGED saveVars
    BY <1>2 DEF SeeCancel, Invalid, NoClient, Fail
  <2>. QED  BY <1>0, <1>l, <2>1, <2>2, TypeParts, SameNodes, SaveSame DEF saveVars
<1>3. CASE Attempt(n)
  <2>1. ThreadType
    BY <1>3 DEF Attempt, Becomes, ThreadType, Typed, TypeOK, Bounds, OnThread
  <2>2. NodeType
    <3>1. 0 \in 0..MaxLoops
      BY FlowAssumption
    <3>2. \/ /\ restored' = [restored EXCEPT ![n] = 0] /\ loops' = [loops EXCEPT ![n] = 0]
             /\ resumed' = resumed \ {n}
          \/ UNCHANGED <<restored, loops, resumed>>
      BY <1>3 DEF Attempt
    <3>3. answer' = answer
      BY <1>3 DEF Attempt
    <3>4. /\ resumed \in SUBSET Nodes /\ answer \in [Nodes -> Answers]
          /\ restored \in [Nodes -> 0..MaxLoops] /\ loops \in [Nodes -> 0..MaxLoops]
      BY DEF Typed, TypeOK
    <3>. QED  BY <3>1, <3>2, <3>3, <3>4 DEF NodeType
  <2>3. UNCHANGED saveVars
    BY <1>3 DEF Attempt
  <2>. QED  BY <1>0, <1>l, <2>1, <2>2, <2>3, TypeParts, SaveSame DEF saveVars
<1>4. CASE Act(n)
  <2>1. ThreadType
    BY <1>4 DEF Act, Becomes, ThreadType, Typed, TypeOK, Bounds, OnThread
  <2>2. UNCHANGED nodeVars /\ UNCHANGED saveVars
    BY <1>4 DEF Act
  <2>. QED  BY <1>0, <1>l, <2>1, <2>2, TypeParts, SameNodes, SaveSame DEF saveVars
<1>5. CASE Recover(n)
  <2>0. at[n] \in 0..MaxLoops /\ at[n] + 1 \in 0..MaxLoops
    BY FlowAssumption, <1>5 DEF Recover, Typed, TypeOK
  <2>1. at' \in [Nodes -> 0..MaxLoops] /\ \A m \in Nodes : m # n => at'[m] = at[m]
    BY <1>5, <2>0 DEF Recover, Typed, TypeOK
  <2>2. ThreadType
    BY <1>5, <2>1 DEF Recover, ThreadType, Typed, TypeOK, Bounds
  <2>3. UNCHANGED nodeVars /\ UNCHANGED saveVars
    BY <1>5 DEF Recover
  <2>. QED  BY <1>0, <1>l, <2>2, <2>3, TypeParts, SameNodes, SaveSame DEF saveVars
<1>6. CASE Iterated(n)
  <2>0. at[n] \in 0..MaxLoops /\ at[n] + 1 \in 0..MaxLoops
    BY FlowAssumption, <1>6 DEF Iterated, Typed, TypeOK, Bounds
  <2>1. at' \in [Nodes -> 0..MaxLoops] /\ \A m \in Nodes : m # n => at'[m] = at[m]
    BY <1>6, <2>0 DEF Iterated, Typed, TypeOK
  <2>2. /\ work' \in [Nodes -> OnThread \cup Ended \cup {"none", "queued"}]
        /\ work'[n] = "running" /\ \A m \in Nodes : m # n => work'[m] = work[m]
    BY <1>6 DEF Iterated, Becomes, Typed, TypeOK, OnThread
  <2>3. ThreadType
    BY <1>6, <2>1, <2>2 DEF Iterated, ThreadType, Typed, TypeOK, Bounds
  <2>4. NodeType
    BY <1>6, <2>0 DEF Iterated, NodeType, Typed, TypeOK
  <2>5. SaveType
    <3>1. Save(MidRun(cp, n, at[n] + 1))
      BY <1>6 DEF Iterated
    <3>. QED  BY <1>0, <2>0, <3>1, MidRunSave
  <2>. QED  BY <1>l, <2>3, <2>4, <2>5, TypeParts
<1>7. CASE Succeed(n)
  <2>1. ThreadType
    <3>1. tries' \in [Nodes -> Nat] /\ UNCHANGED <<at, late, former>> /\ Becomes(n, "success")
      BY <1>7 DEF Succeed, Typed, TypeOK
    <3>. QED  BY <3>1, BecomesType DEF OnThread, Ended, Results
  <2>2. NodeType
    BY <1>7 DEF Succeed, NodeType, Typed, TypeOK, Answers
  <2>3. UNCHANGED saveVars
    BY <1>7 DEF Succeed
  <2>. QED  BY <1>0, <1>l, <2>1, <2>2, <2>3, TypeParts, SaveSame DEF saveVars
<1>8. CASE TimeOut(n)
  <2>0. /\ \E w \in {"ready", "failure"} : Becomes(n, w)
        /\ late' = [late EXCEPT ![n] = at[n]] /\ UNCHANGED <<tries, at, former>>
    BY <1>8, AgainIs DEF TimeOut
  <2>1. ThreadType
    BY <2>0 DEF Becomes, ThreadType, Typed, TypeOK, Bounds, OnThread, Ended, Results
  <2>2. UNCHANGED nodeVars /\ UNCHANGED saveVars
    BY <1>8 DEF TimeOut
  <2>. QED  BY <1>0, <1>l, <2>1, <2>2, TypeParts, SameNodes, SaveSame DEF saveVars
<1>. QED  BY <1>1, <1>2, <1>3, <1>4, <1>5, <1>6, <1>7, <1>8 DEF Thread

LEMMA LateTyped == ASSUME Typed, NEW n \in Nodes, LateIterated(n) \/ LateEnds(n)  PROVE Typed'
<1>1. CASE LateIterated(n)
  <2>0. late[n] + 1 \in 0..MaxLoops /\ late[n] + 1 \in {-1} \cup 0..MaxLoops
    BY FlowAssumption, <1>1 DEF LateIterated
  <2>1. ThreadType
    BY <1>1, <2>0 DEF LateIterated, ThreadType, Typed, TypeOK, Bounds
  <2>2. NodeType
    BY <1>1, <2>0 DEF LateIterated, NodeType, Typed, TypeOK
  <2>3. SaveType
    <3>1. Save(MidRun(cp, n, late[n] + 1)) /\ runs' = runs
      BY <1>1 DEF LateIterated, history
    <3>. QED  BY <2>0, <3>1, MidRunSave
  <2>. QED  BY <1>1, <2>1, <2>2, <2>3, TypeParts, SameLoop, SameHistory DEF LateIterated
<1>2. CASE LateEnds(n)
  <2>1. ThreadType
    BY <1>2 DEF LateEnds, ThreadType, Typed, TypeOK, Bounds
  <2>2. UNCHANGED <<cp, store, lost, runs>> /\ UNCHANGED nodeVars
    BY <1>2 DEF LateEnds, saveVars, history
  <2>. QED  BY <1>2, <2>1, <2>2, TypeParts, SameLoop, SameHistory, SameNodes, SaveSame
            DEF LateEnds
<1>. QED  BY <1>1, <1>2

LEMMA StutterTyped == ASSUME Typed, UNCHANGED vars  PROVE Typed'
<1>1. /\ flow' = flow /\ UNCHANGED <<cp, store, lost, runs>> /\ UNCHANGED loopVars
      /\ UNCHANGED threadVars /\ UNCHANGED nodeVars /\ UNCHANGED history
  BY DEF vars, saveVars, history
<1>. QED  BY <1>1, TypeParts, SameLoop, SameThreads, SameNodes, SameHistory, SaveSame

LEMMA StepTyped == Typed /\ [Next]_vars => Typed'
<1> SUFFICES ASSUME Typed, [Next]_vars PROVE Typed'
  OBVIOUS
<1>1. CASE Start \/ Resume \/ Crash
  BY <1>1, StartTyped, ResumeTyped, CrashTyped
<1>2. CASE MainLoop \/ Cancel \/ CancelTask
  BY <1>2, MainLoopTyped
<1>3. CASE \E n \in Nodes : Thread(n) \/ Person(n) \/ LateIterated(n) \/ LateEnds(n)
  BY <1>3, ThreadTyped, PersonTyped, LateTyped
<1>4. CASE UNCHANGED vars
  BY <1>4, StutterTyped
<1>. QED  BY <1>1, <1>2, <1>3, <1>4 DEF Next

\* Every variable keeps its type; in particular no iteration count leaves
\* 0..MaxLoops, late attempts included, and no snapshot belongs to a run that
\* did not happen.
THEOREM TypeCorrect == Spec => []TypeOK
<1>1. Typed => TypeOK
  BY DEF Typed
<1>. QED  BY <1>1, InitTyped, StepTyped, PTL DEF Spec

(***************************************************************************)
(* The shape of a run                                                      *)
(***************************************************************************)

\* Between runs nothing is in flight, nor between the batches of run_async; a
\* flow has a checkpoint from its first run on, and the backend has the same one
\* unless a save failed.
Shape ==
    /\ pc \in {"off", "over"} => InFlight = {}
    /\ flow.async /\ pc = "loop" => InFlight = {}
    /\ pc = "off" => \A n \in Nodes : late[n] = -1
    /\ cp.chain = 0 <=> pc = "off"
    /\ outcome # "none" => pc \in {"closing", "over"}
    /\ lost = 0 /\ pc # "off" => store = cp

\* What the steps of threads, late attempts and persons do to the checkpoint: a
\* node that has no entry may get one, and nothing else changes its state.
CpKept ==
    /\ cp'.chain = cp.chain
    /\ \A n \in Nodes : \/ cp'.st[n] = cp.st[n]
                        \/ cp.st[n] = "absent" /\ cp'.st[n] = "active"

Follows ==
    \/ store' = cp' /\ lost' = lost
    \/ store' = store /\ lost' = lost + 1
    \/ UNCHANGED <<cp, store, lost>>

ByNode(n) == Thread(n) \/ Person(n) \/ LateIterated(n) \/ LateEnds(n)

LEMMA SaveFollows == ASSUME NEW c, Save(c)  PROVE cp' = c /\ Follows
  BY DEF Save, Follows

LEMMA SameCp == ASSUME UNCHANGED saveVars  PROVE CpKept /\ Follows
  BY DEF saveVars, CpKept, Follows

LEMMA StatusSaved == ASSUME Typed, NEW s \in {"active", "completed", "failed", "canceled"},
                            Save([cp EXCEPT !.status = s])
                     PROVE  /\ cp'.chain = cp.chain /\ cp'.st = cp.st /\ cp'.ans = cp.ans
                            /\ cp'.loops = cp.loops /\ cp'.pending = cp.pending
                            /\ CpKept /\ Follows
<1>1. cp \in Snapshot
  BY DEF Typed, TypeOK
<1>2. cp' = [cp EXCEPT !.status = s] /\ Follows
  BY DEF Save, Follows
<1>3. /\ cp'.chain = cp.chain /\ cp'.st = cp.st /\ cp'.ans = cp.ans
      /\ cp'.loops = cp.loops /\ cp'.pending = cp.pending
  BY <1>1, <1>2, StatusEdit
<1>. QED  BY <1>2, <1>3 DEF CpKept

LEMMA MidRunSaved == ASSUME Typed, NEW n \in Nodes, NEW k \in 0..MaxLoops,
                            Save(MidRun(cp, n, k))
                     PROVE  /\ cp'.chain = cp.chain /\ cp'.pending = cp.pending
                            /\ \A m \in Nodes \ {n} :
                                   /\ cp'.st[m] = cp.st[m] /\ cp'.ans[m] = cp.ans[m]
                                   /\ cp'.loops[m] = cp.loops[m]
                            /\ cp'.st[n] = IF cp.st[n] = "absent" THEN "active" ELSE cp.st[n]
                            /\ cp'.ans[n] = answer[n] /\ cp'.loops[n] = k
                            /\ CpKept /\ Follows
<1>1. TypeOK /\ cp \in Snapshot
  BY DEF Typed, TypeOK
<1>2. cp' = MidRun(cp, n, k) /\ Follows
  BY SaveFollows
<1>3. /\ cp'.chain = cp.chain /\ cp'.pending = cp.pending
      /\ cp'.st = [cp.st EXCEPT ![n] = IF cp.st[n] = "absent" THEN "active" ELSE cp.st[n]]
      /\ cp'.ans = [cp.ans EXCEPT ![n] = answer[n]]
      /\ cp'.loops = [cp.loops EXCEPT ![n] = k]
  BY <1>1, <1>2, MidRunEdit
<1>4. /\ cp.st \in [Nodes -> Results \cup {"absent", "active"}]
      /\ cp.ans \in [Nodes -> Answers] /\ cp.loops \in [Nodes -> 0..MaxLoops]
  BY <1>1, SnapshotFields
<1>. QED  BY <1>2, <1>3, <1>4 DEF CpKept

LEMMA PendingSaved == ASSUME Typed, NEW n \in Nodes,
                             Save(MarkPending(cp, n)) \/ Save(ClearPending(cp, n))
                      PROVE  /\ cp'.chain = cp.chain /\ cp'.st = cp.st /\ cp'.ans = cp.ans
                             /\ cp'.loops = cp.loops
                             /\ Save(MarkPending(cp, n)) => cp'.pending = cp.pending \cup {n}
                             /\ cp.pending \ {n} \subseteq cp'.pending
                             /\ CpKept /\ Follows
<1>1. cp \in Snapshot
  BY DEF Typed, TypeOK
<1>2. CASE Save(MarkPending(cp, n))
  <2>1. cp' = MarkPending(cp, n) /\ Follows
    BY <1>2, SaveFollows
  <2>2. /\ cp'.chain = cp.chain /\ cp'.st = cp.st /\ cp'.ans = cp.ans
        /\ cp'.loops = cp.loops /\ cp'.pending = cp.pending \cup {n}
    BY <1>1, <2>1, PendingEdits
  <2>. QED  BY <2>1, <2>2 DEF CpKept
<1>3. CASE Save(ClearPending(cp, n)) /\ ~Save(MarkPending(cp, n))
  <2>1. cp' = ClearPending(cp, n) /\ Follows
    BY <1>3, SaveFollows
  <2>. QED  BY <1>1, <1>3, <2>1, PendingEdits DEF CpKept
<1>. QED  BY <1>2, <1>3

\* A step of a node leaves the main loop alone, and who is in flight.
LEMMA Quiet == ASSUME Typed, Shape, NEW n \in Nodes, ByNode(n)
               PROVE  /\ UNCHANGED <<flow, loopVars, runs, fresh, crashes>>
                      /\ pc # "off" /\ CpKept /\ Follows /\ InFlight' = InFlight
                      /\ \A m \in Nodes : work'[m] = "none" <=> work[m] = "none"
                      /\ \A m \in Nodes \ {n} : work'[m] = work[m]
                      /\ work'[n] # work[n] => work[n] \notin Ended /\ work'[n] # "queued"
<1>0. UNCHANGED <<flow, loopVars, runs, fresh, crashes>>
  BY DEF ByNode, Thread, Person, Begin, SeeCancel, Invalid, Attempt, NoClient, Act, Recover,
         Iterated, Succeed, Fail, TimeOut, Answer, GiveUp, LateIterated, LateEnds, history
<1>1. work \in [Nodes -> OnThread \cup Ended \cup {"none", "queued"}]
  BY DEF Typed, TypeOK
<1>2. /\ work[n] # "none" \/ (LateIterated(n) \/ LateEnds(n))
      /\ \/ work' = work
         \/ \E w \in (OnThread \cup Ended) : Becomes(n, w) /\ work[n] \notin Ended
  <2>1. CASE LateIterated(n) \/ LateEnds(n) \/ Recover(n)
    BY <2>1 DEF LateIterated, LateEnds, Recover
  <2>2. CASE Person(n)
    BY <2>2 DEF Person, Answer, GiveUp, OnThread, Ended, Results
  <2>3. CASE Begin(n) \/ SeeCancel(n) \/ Invalid(n)
    BY <2>3 DEF Begin, SeeCancel, Invalid, OnThread, Ended, Results
  <2>4. CASE Attempt(n) \/ Act(n) \/ Iterated(n) \/ Succeed(n)
    BY <2>4 DEF Attempt, Act, Iterated, Succeed, OnThread, Ended, Results
  <2>5. CASE NoClient(n) \/ Fail(n) \/ TimeOut(n)
    BY <2>5, AgainIs DEF NoClient, Fail, TimeOut, OnThread, Ended, Results
  <2>. QED  BY <2>1, <2>2, <2>3, <2>4, <2>5 DEF ByNode, Thread, Recover
<1>3. pc # "off"
  BY <1>2 DEF Shape, InFlight, LateIterated, LateEnds
<1>4. /\ \A m \in Nodes : work'[m] = "none" <=> work[m] = "none"
      /\ \A m \in Nodes \ {n} : work'[m] = work[m]
      /\ work'[n] # work[n] => work[n] \notin Ended /\ work'[n] # "queued"
  <2>1. CASE work' = work
    BY <2>1
  <2>2. CASE \E w \in (OnThread \cup Ended) : Becomes(n, w) /\ work[n] \notin Ended
    <3>1. work[n] # "none"
      BY <2>2, <1>1, <1>2 DEF Becomes, LateIterated, LateEnds, OnThread, Ended, Results
    <3>. QED  BY <1>1, <2>2, <3>1 DEF Becomes, OnThread, Ended, Results
  <2>. QED  BY <1>2, <2>1, <2>2
<1>5. CpKept /\ Follows
  <2>1. CASE LateIterated(n)
    <3>1. late[n] + 1 \in 0..MaxLoops /\ Save(MidRun(cp, n, late[n] + 1))
      BY FlowAssumption, <2>1 DEF LateIterated
    <3>. QED  BY <3>1, MidRunSaved
  <2>2. CASE Iterated(n)
    <3>1. at[n] + 1 \in 0..MaxLoops /\ Save(MidRun(cp, n, at[n] + 1))
      BY FlowAssumption, <2>2 DEF Iterated, Typed, TypeOK, Bounds
    <3>. QED  BY <3>1, MidRunSaved
  <2>3. CASE Begin(n) \/ Person(n)
    <3>1. UNCHANGED saveVars \/ Save(MarkPending(cp, n)) \/ Save(ClearPending(cp, n))
      BY <2>3 DEF Begin, Person, Answer, GiveUp
    <3>. QED  BY <3>1, SameCp, PendingSaved
  <2>4. CASE UNCHANGED saveVars
    BY <2>4, SameCp
  <2>. QED  BY <2>1, <2>2, <2>3, <2>4 DEF ByNode, Thread, SeeCancel, Invalid, Attempt, NoClient,
               Act, Recover, Succeed, Fail, TimeOut, LateEnds
<1>6. InFlight' = InFlight
  BY <1>4 DEF InFlight
<1>. QED  BY <1>0, <1>3, <1>4, <1>5, <1>6

LEMMA StoreIsCp == ASSUME Typed, Shape, Follows, pc # "off"  PROVE lost' = 0 => store' = cp'
  BY DEF Typed, TypeOK, Shape, Follows

LEMMA InitShape == Init => Shape
<1>1. NoSnapshot(0).chain = 0
  BY DEF NoSnapshot
<1>. QED  BY <1>1 DEF Init, Shape, InFlight

LEMMA NodeShape == ASSUME Typed, Shape, NEW n \in Nodes, ByNode(n)  PROVE Shape'
<1>1. /\ UNCHANGED <<flow, pc, outcome>> /\ pc # "off" /\ cp'.chain = cp.chain /\ Follows
      /\ InFlight' = InFlight
  BY Quiet DEF loopVars, CpKept
<1>. QED  BY <1>1, StoreIsCp DEF Shape

\* What a new run starts from.
LEMMA Entered == ASSUME Typed, Shape, Start \/ Resume
                 PROVE  /\ pc' = "loop" /\ outcome' = "none" /\ flow' = flow /\ work' = work
                        /\ tries' = tries /\ handed' = {} /\ done' = {} /\ InFlight = {}
                        /\ InFlight' = {} /\ cp'.chain # 0 /\ store.chain \in Nat
                        /\ cp \in Snapshot /\ store \in Snapshot
                        /\ \/ store' = cp' /\ lost' = lost
                           \/ store' = store /\ lost' = lost + 1
                        /\ \/ Start /\ cp' = NoSnapshot(store.chain + 1)
                              /\ cp'.chain = store.chain + 1
                              /\ \A n \in Nodes : cp'.st[n] = "absent"
                           \/ /\ Resume /\ cp'.chain = store.chain /\ cp'.st = store.st
                              /\ cp'.ans = store.ans /\ cp'.loops = store.loops
<1>1. store \in Snapshot /\ cp \in Snapshot /\ store.chain \in Nat
  BY FlowAssumption, SnapshotFields DEF Typed, TypeOK
<1>2. CASE Start
  <2>1. /\ Enter(NoSnapshot(store.chain + 1))
    BY <1>2 DEF Start
  <2>2. cp' = NoSnapshot(store.chain + 1)
    BY <2>1 DEF Enter, Save
  <2>3. cp'.chain = store.chain + 1 /\ \A n \in Nodes : cp'.st[n] = "absent"
    BY <2>2 DEF NoSnapshot
  <2>. QED  BY <1>1, <1>2, <2>1, <2>2, <2>3 DEF Enter, Save, Shape, InFlight
<1>3. CASE Resume
  <2>1. Enter([store EXCEPT !.pending = {}, !.status = "active"]) /\ store.chain > 0
    BY <1>3 DEF Resume
  <2>2. cp' = [store EXCEPT !.pending = {}, !.status = "active"]
    BY <2>1 DEF Enter, Save
  <2>3. /\ cp'.chain = store.chain /\ cp'.st = store.st /\ cp'.ans = store.ans
        /\ cp'.loops = store.loops
    BY <1>1, <2>2, ReopenEdit
  <2>. QED  BY <1>1, <1>3, <2>1, <2>3 DEF Enter, Save, Shape, InFlight
<1>. QED  BY <1>2, <1>3

LEMMA EnterShape == ASSUME Typed, Shape, Start \/ Resume  PROVE Shape'
<1>1. lost \in Nat
  BY DEF Typed, TypeOK
<1>. QED  BY <1>1, Entered DEF Shape

LEMMA CrashShape == ASSUME Typed, Shape, Crash  PROVE Shape'
<1>1. cp'.chain = 0
  BY DEF Crash, NoSnapshot
<1>. QED  BY <1>1 DEF Crash, Shape, InFlight

\* Where the batch is recorded, and what the checkpoint says of it.
LEMMA Collected == ASSUME Typed, Collect, ~\E n \in Uncollected : work[n] = "canceled"
                   PROVE  /\ cp'.chain = cp.chain /\ cp'.pending = cp.pending /\ Follows
                          /\ \A n \in Uncollected \ flow.excluded :
                                 cp'.st[n] = work[n] /\ cp'.ans[n] = answer[n]
                          /\ \A n \in Nodes \ (Uncollected \ flow.excluded) :
                                 /\ cp'.st[n] = cp.st[n] /\ cp'.ans[n] = cp.ans[n]
                                 /\ cp'.loops[n] = cp.loops[n]
                          /\ \A n \in Uncollected : work[n] \in Results
<1>1. cp \in Snapshot /\ TypeOK /\ Uncollected \in SUBSET Nodes
  BY DEF Typed, TypeOK, Uncollected
<1>2. \A n \in Uncollected : work[n] \in Results
  BY DEF Uncollected, Ended
<1> DEFINE d == Update(cp, Uncollected)
           R == Uncollected \ flow.excluded
<1>3. Save(d)
  BY DEF Collect
<1>4. /\ d.chain = cp.chain /\ d.pending = cp.pending
      /\ d.st = [n \in Nodes |-> IF n \in R THEN work[n] ELSE cp.st[n]]
      /\ d.ans = [n \in Nodes |-> IF n \in R THEN answer[n] ELSE cp.ans[n]]
      /\ d.loops = [n \in Nodes |-> IF n \in R THEN loops[n] ELSE cp.loops[n]]
  BY <1>1, <1>2, UpdateEdit
<1> HIDE DEF d
<1>5. cp' = d /\ Follows
  BY <1>3, SaveFollows
<1>6. R \subseteq Nodes
  BY <1>1
<1>. QED  BY <1>2, <1>4, <1>5, <1>6

\* Steps that end the run with a status, or change nothing in the backend.
LEMMA MainShape == ASSUME Typed, Shape, MainLoop \/ Cancel \/ CancelTask  PROVE Shape'
<1>0. pc # "off" /\ flow' = flow /\ late' = late
  BY DEF MainLoop, HandOut, Collect, End, StopCanceled, Close, StopDropped, Cancel, CancelTask,
         Shape, InFlight, Uncollected, Ended, Results, threadVars
<1>1. cp'.chain = cp.chain /\ Follows
  <2>1. CASE UNCHANGED saveVars
    BY <2>1, SameCp DEF CpKept
  <2>2. CASE Collect
    <3>1. CASE \E n \in Uncollected : work[n] = "canceled"
      BY <2>2, <3>1, StatusSaved DEF Collect
    <3>. QED  BY <2>2, <3>1, Collected
  <2>3. CASE End
    BY <2>3, StatusSaved DEF End
  <2>4. CASE StopCanceled \/ StopDropped \/ CancelTask
    BY <2>1, <2>4, StatusSaved DEF StopCanceled, StopDropped, CancelTask
  <2>. QED  BY <2>1, <2>2, <2>3, <2>4 DEF MainLoop, HandOut, Close, Cancel, saveVars
<1>2. lost' = 0 => store' = cp'
  BY <1>0, <1>1, StoreIsCp
<1>3. /\ pc' \in {"loop", "wait", "closing", "over"}
      /\ outcome' # "none" => pc' \in {"closing", "over"}
  BY <1>0 DEF MainLoop, HandOut, Collect, End, StopCanceled, Close, StopDropped, Cancel, CancelTask,
         Shape, Finish, Typed, TypeOK
<1>4. pc' = "over" \/ (flow.async /\ pc' = "loop") => InFlight' = {}
  <2>1. CASE HandOut
    <3>1. pc' = "loop" =>
             Set(work, {n \in {m \in Nodes \ handed : flow.deps[m] \subseteq done} \ Completed(cp) :
                          \A d \in flow.deps[n] : result[d] # "undefined"}, "queued") = work
             /\ InFlight = {}
      BY <2>1 DEF HandOut, Set, Typed, TypeOK
    <3>. QED  BY <2>1, <3>1 DEF HandOut, InFlight
  <2>2. CASE Collect
    <3>1. InFlight' = InFlight \ Uncollected
      BY <2>2 DEF Collect, InFlight, Set, Uncollected
    <3>. QED  BY <2>2, <3>1 DEF Collect, Finish
  <2>3. CASE End \/ StopCanceled
    BY <2>3 DEF End, StopCanceled, Finish, Shape, InFlight, threadVars
  <2>4. CASE Close \/ StopDropped
    BY <2>4 DEF Close, StopDropped, InFlight
  <2>5. CASE Cancel \/ CancelTask
    BY <2>5 DEF Cancel, CancelTask, Finish, Shape, InFlight, threadVars
  <2>. QED  BY <2>1, <2>2, <2>3, <2>4, <2>5 DEF MainLoop
<1>. QED  BY <1>0, <1>1, <1>2, <1>3, <1>4 DEF Shape

LEMMA StepShape == ASSUME Typed, Shape, [Next]_vars  PROVE Shape'
<1>1. CASE Start \/ Resume \/ Crash
  BY <1>1, EnterShape, CrashShape
<1>2. CASE MainLoop \/ Cancel \/ CancelTask
  BY <1>2, MainShape
<1>3. CASE \E n \in Nodes : ByNode(n)
  BY <1>3, NodeShape
<1>4. CASE UNCHANGED vars
  BY <1>4 DEF vars, loopVars, threadVars, saveVars, Shape, InFlight
<1>. QED  BY <1>1, <1>2, <1>3, <1>4 DEF Next, ByNode

(***************************************************************************)
(* What is done, in flight and recorded                                    *)
(***************************************************************************)

\* While a run goes on: what is done has a result, which the checkpoint has too
\* unless the node is excluded, and what was handed out waits for nothing.
InStep ==
    /\ \A n \in done : result[n] \in Results
    /\ done \ flow.excluded \subseteq Completed(cp)
    /\ \A n \in Completed(cp) : result[n] = cp.st[n]
    /\ \A n \in handed : flow.deps[n] \subseteq done

WholeSuccess ==
    outcome = "success" =>
        /\ \A n \in Nodes : result[n] \in Results
        /\ \A n \in flow.raises : result[n] # "failure"
        /\ Nodes \ flow.excluded \subseteq Completed(cp)

Work ==
    /\ NoneForgotten
    /\ pc \in {"loop", "wait"} => InStep
    /\ InFlight \cap Completed(cp) = {}
    /\ WholeSuccess

LEMMA KeptCompleted == ASSUME CpKept
                       PROVE  /\ Completed(cp') = Completed(cp)
                              /\ \A n \in Completed(cp) : cp'.st[n] = cp.st[n]
  BY DEF CpKept, Completed, Results

LEMMA InitWork == Init => Work
<1>1. \A n \in Nodes : NoSnapshot(0).st[n] = "absent"
  BY DEF NoSnapshot
<1>. QED  BY <1>1 DEF Init, Work, NoneForgotten, InFlight, Completed, WholeSuccess, Results

LEMMA NodeWork == ASSUME Typed, Shape, Work, NEW n \in Nodes, ByNode(n)  PROVE Work'
<1>1. /\ UNCHANGED <<flow, pc, outcome, result, handed, done>> /\ CpKept
      /\ InFlight' = InFlight
  BY Quiet DEF loopVars
<1>2. /\ Completed(cp)' = Completed(cp) /\ \A m \in Completed(cp) : cp'.st[m] = cp.st[m]
  BY <1>1, KeptCompleted DEF Completed
<1>3. NoneForgotten' /\ WholeSuccess' /\ (InFlight \cap Completed(cp))' = {}
  BY <1>1, <1>2 DEF Work, NoneForgotten, WholeSuccess
<1>4. pc' \in {"loop", "wait"} => InStep'
  BY <1>1, <1>2 DEF Work, InStep
<1>. QED  BY <1>3, <1>4 DEF Work

LEMMA EnterWork == ASSUME Typed, Shape, Start \/ Resume  PROVE Work'
<1>1. /\ pc' = "loop" /\ outcome' = "none" /\ handed' = {} /\ done' = {} /\ InFlight' = {}
  BY Entered
<1>2. \A n \in Completed(cp)' : result'[n] = cp'.st[n]
  <2>1. CASE Start
    <3>1. \A n \in Nodes : cp'.st[n] = "absent"
      <4>1. cp' = NoSnapshot(store.chain + 1)
        BY <2>1 DEF Start, Enter, Save
      <4>. QED  BY <4>1 DEF NoSnapshot
    <3>. QED  BY <3>1 DEF Completed, Results
  <2>2. CASE Resume
    <3>1. cp'.st = store.st
      <4>1. cp' = [store EXCEPT !.pending = {}, !.status = "active"] /\ store \in Snapshot
        BY <2>2 DEF Resume, Enter, Save, Typed, TypeOK
      <4>. QED  BY <4>1, ReopenEdit
    <3>. QED  BY <2>2, <3>1 DEF Resume, Completed
  <2>. QED  BY <2>1, <2>2
<1>. QED  BY <1>1, <1>2 DEF Work, NoneForgotten, InStep, WholeSuccess

LEMMA CrashWork == ASSUME Typed, Crash  PROVE Work'
<1>1. \A n \in Nodes : cp'.st[n] = "absent"
  BY DEF Crash, NoSnapshot
<1>. QED  BY <1>1 DEF Crash, Work, NoneForgotten, InFlight, Completed, WholeSuccess, Results

LEMMA HandOutWork == ASSUME Typed, Shape, Work, HandOut  PROVE Work'
<1> DEFINE ready == {n \in Nodes \ handed : flow.deps[n] \subseteq done}
           todo == {n \in ready \ Completed(cp) :
                       \A d \in flow.deps[n] : result[d] # "undefined"}
<1>1. /\ pc = "loop" /\ NoneForgotten /\ InStep /\ done \subseteq handed /\ handed \subseteq Nodes
      /\ InFlight = handed \ done
  BY DEF HandOut, Work, NoneForgotten, Typed, TypeOK
<1>2. /\ handed' = handed \cup ready /\ done' = done \cup (ready \cap Completed(cp))
      /\ work' = Set(work, todo, "queued") /\ UNCHANGED <<flow, outcome, result, cp>>
      /\ pc' \in {"loop", "wait"}
  BY DEF HandOut, saveVars
<1>3. todo = ready \ Completed(cp)
  <2>1. ASSUME NEW n \in ready \ Completed(cp), NEW d \in flow.deps[n]
        PROVE  result[d] # "undefined"
    <3>1. d \in done
      BY <2>1
    <3>. QED  BY <1>1, <3>1 DEF InStep, Results
  <2>. QED  BY <2>1
<1>4. InFlight' = InFlight \cup todo
  BY <1>2 DEF InFlight, Set
<1>5. Completed(cp)' = Completed(cp)
  BY <1>2 DEF Completed
<1>6. ready \subseteq Nodes /\ ready \cap handed = {}
  OBVIOUS
<1> HIDE DEF ready, todo
<1>7. NoneForgotten'
  BY <1>1, <1>2, <1>3, <1>4, <1>6 DEF NoneForgotten
<1>8. InStep'
  <2>1. \A n \in ready : flow.deps[n] \subseteq done
    BY DEF ready
  <2>2. \A n \in handed' : flow'.deps[n] \subseteq done'
    BY <1>1, <1>2, <2>1 DEF InStep
  <2>3. \A n \in done' : result'[n] \in Results
    BY <1>1, <1>2 DEF InStep, Completed
  <2>. QED  BY <1>1, <1>2, <1>5, <2>2, <2>3 DEF InStep
<1>9. (InFlight \cap Completed(cp))' = {}
  BY <1>3, <1>4, <1>5 DEF Work
<1>10. WholeSuccess'
  BY <1>2, <1>5 DEF Work, WholeSuccess
<1>. QED  BY <1>7, <1>8, <1>9, <1>10 DEF Work

LEMMA CollectWork == ASSUME Typed, Shape, Work, Collect  PROVE Work'
<1>1. /\ pc = "wait" /\ NoneForgotten /\ InStep /\ outcome = "none"
  BY DEF Collect, Work, Shape, Typed, TypeOK
<1>2. /\ Uncollected \subseteq InFlight /\ Uncollected \subseteq Nodes
      /\ InFlight = handed \ done /\ done \subseteq handed
  BY <1>1 DEF Uncollected, InFlight, Ended, Results, NoneForgotten
<1>3. /\ UNCHANGED <<flow, handed>> /\ done' = done \cup Uncollected
      /\ InFlight' = InFlight \ Uncollected
  BY DEF Collect, InFlight, Uncollected, Set
<1>4. CASE \E n \in Uncollected : work[n] = "canceled"
  <2>1. CpKept /\ pc' \in {"closing", "over"} /\ outcome' = "canceled"
    BY <1>4, StatusSaved DEF Collect, Finish
  <2>2. (InFlight \cap Completed(cp))' = {}
    BY <1>3, <2>1, KeptCompleted DEF Work, Completed
  <2>. QED  BY <2>1, <2>2 DEF Work, NoneForgotten, WholeSuccess
<1>5. CASE ~\E n \in Uncollected : work[n] = "canceled"
  <2>1. pc' = "loop" /\ outcome' = "none"
    BY <1>1, <1>5 DEF Collect
  <2>2. /\ \A n \in Uncollected \ flow.excluded : cp'.st[n] = work[n]
        /\ \A n \in Nodes \ (Uncollected \ flow.excluded) : cp'.st[n] = cp.st[n]
        /\ \A n \in Uncollected : work[n] \in Results
    BY <1>5, Collected
  <2>3. Completed(cp)' = Completed(cp) \cup (Uncollected \ flow.excluded)
    BY <1>2, <2>2 DEF Completed
  <2>4. /\ \A n \in Uncollected : result'[n] = work[n]
        /\ \A n \in Nodes \ Uncollected : result'[n] = result[n]
    BY <1>2 DEF Collect
  <2>5. NoneForgotten'
    BY <1>2, <1>3 DEF NoneForgotten
  <2>6. (InFlight \cap Completed(cp))' = {}
    BY <1>3, <2>3 DEF Work
  <2>7. InStep'
    <3>1. \A n \in done' : result'[n] \in Results
      BY <1>1, <1>2, <1>3, <2>2, <2>4 DEF InStep, Typed, TypeOK
    <3>2. done' \ flow'.excluded \subseteq Completed(cp)'
      BY <1>1, <1>3, <2>3 DEF InStep
    <3>3. \A n \in Completed(cp)' : result'[n] = cp'.st[n]
      <4>1. \A n \in Completed(cp) : n \in Nodes /\ n \notin Uncollected
        BY <1>2 DEF Work, Completed
      <4>. QED  BY <1>1, <1>2, <2>2, <2>3, <2>4, <4>1 DEF InStep
    <3>4. \A n \in handed' : flow'.deps[n] \subseteq done'
      BY <1>1, <1>3 DEF InStep
    <3>. QED  BY <3>1, <3>2, <3>3, <3>4 DEF InStep
  <2>. QED  BY <2>1, <2>5, <2>6, <2>7 DEF Work, WholeSuccess
<1>. QED  BY <1>4, <1>5

LEMMA MainWork == ASSUME Typed, Shape, Work, MainLoop \/ Cancel \/ CancelTask  PROVE Work'
<1>1. CASE HandOut \/ Collect
  BY <1>1, HandOutWork, CollectWork
<1>2. CASE Cancel \/ Close \/ StopDropped \/ StopCanceled \/ CancelTask
  <2>1. /\ UNCHANGED <<flow, result, handed, done>> /\ CpKept
    BY <1>2, StatusSaved, SameCp DEF Cancel, Close, StopDropped, StopCanceled, CancelTask
  <2>2. InFlight' \subseteq InFlight
    BY <1>2 DEF Cancel, Close, StopDropped, StopCanceled, CancelTask, InFlight, threadVars
  <2>3. \/ UNCHANGED <<pc, outcome>> /\ InFlight' = InFlight
        \/ pc' \in {"closing", "over"} /\ outcome' \in {"canceled", outcome}
    BY <1>2 DEF Cancel, Close, StopDropped, StopCanceled, CancelTask, Finish, InFlight, threadVars
  <2>4. /\ Completed(cp)' = Completed(cp) /\ \A m \in Completed(cp) : cp'.st[m] = cp.st[m]
    BY <2>1, KeptCompleted DEF Completed
  <2>5. NoneForgotten' /\ (InFlight \cap Completed(cp))' = {}
    BY <2>1, <2>2, <2>3, <2>4 DEF Work, NoneForgotten
  <2>6. WholeSuccess'
    BY <2>1, <2>3, <2>4 DEF Work, WholeSuccess
  <2>7. pc' \in {"loop", "wait"} => InStep'
    BY <2>1, <2>3, <2>4 DEF Work, InStep
  <2>. QED  BY <2>5, <2>6, <2>7 DEF Work
<1>3. CASE End
  <2>1. /\ UNCHANGED <<flow, result, handed, done, work>> /\ CpKept
        /\ pc' \in {"closing", "over"} /\ pc = "loop" /\ done = Nodes
        /\ outcome' = "success" => \A n \in flow.raises : result[n] # "failure"
    BY <1>3, StatusSaved DEF End, Finish, threadVars
  <2>2. Completed(cp)' = Completed(cp) /\ InFlight' = InFlight
    BY <2>1, KeptCompleted DEF Completed, InFlight
  <2>3. InStep
    BY <2>1 DEF Work
  <2>. QED  BY <2>1, <2>2, <2>3 DEF Work, NoneForgotten, WholeSuccess, InStep
<1>. QED  BY <1>1, <1>2, <1>3 DEF MainLoop

LEMMA StepWork == ASSUME Typed, Shape, Work, [Next]_vars  PROVE Work'
<1>1. CASE Start \/ Resume \/ Crash
  BY <1>1, EnterWork, CrashWork
<1>2. CASE MainLoop \/ Cancel \/ CancelTask
  BY <1>2, MainWork
<1>3. CASE \E n \in Nodes : ByNode(n)
  BY <1>3, NodeWork
<1>4. CASE UNCHANGED vars
  BY <1>4 DEF vars, loopVars, threadVars, saveVars, Work, NoneForgotten, InStep, WholeSuccess,
              InFlight, Completed
<1>. QED  BY <1>1, <1>2, <1>3, <1>4 DEF Next, ByNode

(***************************************************************************)
(* Who is asked                                                            *)
(***************************************************************************)

Asked == \A n \in Nodes : work[n] = "asking" => n \in cp.pending /\ n \in flow.approval

LEMMA NodeAsked == ASSUME Typed, Shape, Asked, NEW n \in Nodes, ByNode(n)  PROVE Asked'
<1>1. /\ flow' = flow /\ \A m \in Nodes \ {n} : work'[m] = work[m]
  BY Quiet
<1>w. work \in [Nodes -> OnThread \cup Ended \cup {"none", "queued"}]
  BY DEF Typed, TypeOK
<1>2. cp.pending \ {n} \subseteq cp'.pending
  <2>1. CASE Iterated(n)
    <3>1. at[n] + 1 \in 0..MaxLoops /\ Save(MidRun(cp, n, at[n] + 1))
      BY FlowAssumption, <2>1 DEF Iterated, Typed, TypeOK, Bounds
    <3>. QED  BY <3>1, MidRunSaved
  <2>2. CASE LateIterated(n)
    <3>1. late[n] + 1 \in 0..MaxLoops /\ Save(MidRun(cp, n, late[n] + 1))
      BY FlowAssumption, <2>2 DEF LateIterated
    <3>. QED  BY <3>1, MidRunSaved
  <2>3. CASE Begin(n) \/ Person(n)
    <3>1. UNCHANGED saveVars \/ Save(MarkPending(cp, n)) \/ Save(ClearPending(cp, n))
      BY <2>3 DEF Begin, Person, Answer, GiveUp
    <3>. QED  BY <3>1, PendingSaved DEF saveVars
  <2>4. CASE UNCHANGED saveVars
    BY <2>4 DEF saveVars
  <2>. QED  BY <2>1, <2>2, <2>3, <2>4 DEF ByNode, Thread, SeeCancel, Invalid, Attempt, NoClient,
               Act, Recover, Succeed, Fail, TimeOut, LateEnds
<1>3. work'[n] = "asking" => n \in cp'.pending /\ n \in flow.approval
  <2>1. CASE Begin(n) /\ work'[n] = "asking"
    <3>1. Save(MarkPending(cp, n)) /\ n \in flow.approval
      BY <1>w, <2>1 DEF Begin, Becomes
    <3>. QED  BY <3>1, PendingSaved
  <2>2. CASE LateIterated(n)
    <3>1. late[n] + 1 \in 0..MaxLoops /\ Save(MidRun(cp, n, late[n] + 1)) /\ work' = work
      BY FlowAssumption, <2>2 DEF LateIterated
    <3>2. cp'.pending = cp.pending
      BY <3>1, MidRunSaved
    <3>. QED  BY <3>1, <3>2 DEF Asked
  <2>3. CASE LateEnds(n)
    BY <2>3 DEF LateEnds, saveVars, Asked
  <2>4. CASE SeeCancel(n) \/ Invalid(n) \/ NoClient(n) \/ Fail(n) \/ TimeOut(n) \/ Person(n)
    BY <1>w, <2>4, AgainIs DEF SeeCancel, Invalid, NoClient, Fail, TimeOut, Person, Answer,
       GiveUp, Becomes
  <2>5. CASE Attempt(n) \/ Act(n) \/ Recover(n) \/ Iterated(n) \/ Succeed(n)
    BY <1>w, <2>5 DEF Attempt, Act, Recover, Iterated, Succeed, Becomes
  <2>. QED  BY <2>1, <2>2, <2>3, <2>4, <2>5 DEF ByNode, Thread
<1>. QED  BY <1>1, <1>2, <1>3 DEF Asked

LEMMA StepAsked == ASSUME Typed, Shape, Asked, [Next]_vars  PROVE Asked'
<1>1. CASE Start \/ Resume
  BY <1>1, Entered DEF Asked, InFlight
<1>2. CASE Crash
  BY <1>2 DEF Crash, Asked
<1>3. CASE MainLoop \/ Cancel \/ CancelTask
  <2>1. flow' = flow /\ cp'.pending = cp.pending
    <3>1. CASE UNCHANGED saveVars
      BY <1>3, <3>1 DEF MainLoop, HandOut, Collect, End, StopCanceled, Close, StopDropped, Cancel,
         CancelTask, saveVars
    <3>2. CASE Collect
      <4>1. CASE \E n \in Uncollected : work[n] = "canceled"
        BY <3>2, <4>1, StatusSaved DEF Collect
      <4>. QED  BY <3>2, <4>1, Collected DEF Collect
    <3>3. CASE End
      BY <3>3, StatusSaved DEF End
    <3>4. CASE StopCanceled \/ StopDropped \/ CancelTask
      BY <3>1, <3>4, StatusSaved DEF StopCanceled, StopDropped, CancelTask
    <3>. QED  BY <1>3, <3>1, <3>2, <3>3, <3>4 DEF MainLoop, HandOut, Close, Cancel
  <2>2. \A n \in Nodes : work'[n] \in {work[n], "none", "queued"}
    BY <1>3 DEF MainLoop, HandOut, Collect, End, StopCanceled, Close, StopDropped, Cancel,
       CancelTask, Set, threadVars
  <2>. QED  BY <2>1, <2>2 DEF Asked
<1>4. CASE \E n \in Nodes : ByNode(n)
  BY <1>4, NodeAsked
<1>5. CASE UNCHANGED vars
  BY <1>5 DEF vars, threadVars, saveVars, Asked
<1>. QED  BY <1>1, <1>2, <1>3, <1>4, <1>5 DEF Next, ByNode

(***************************************************************************)
(* The checkpoint and the latest snapshot                                  *)
(***************************************************************************)

\* From entry a of a node to entry b: no result is ever changed or lost.
Progress(a, b) == a = b \/ a = "absent" \/ (a = "active" /\ b \in Results)

\* The latest snapshot is of the same chain as the checkpoint and behind it, or
\* of an earlier one.
Behind ==
    cp.chain # 0 =>
        /\ store.chain <= cp.chain
        /\ store.chain = cp.chain => \A n \in Nodes : Progress(store.st[n], cp.st[n])

Continues ==
    /\ pc # "off" /\ flow' = flow /\ Follows
    /\ cp'.chain = cp.chain /\ \A n \in Nodes : Progress(cp.st[n], cp'.st[n])

WithinRun == MainLoop \/ Cancel \/ CancelTask \/ \E n \in Nodes : ByNode(n)

LEMMA StepContinues == ASSUME Typed, Shape, Work, WithinRun  PROVE Continues
<1>1. CASE \E n \in Nodes : ByNode(n)
  BY <1>1, Quiet DEF Continues, CpKept, Progress
<1>2. CASE Collect /\ ~\E n \in Uncollected : work[n] = "canceled"
  <2>1. Uncollected \subseteq InFlight /\ flow' = flow /\ pc # "off"
    BY <1>2 DEF Collect, Uncollected, InFlight, Ended, Results
  <2>2. cp.st \in [Nodes -> Results \cup {"absent", "active"}]
    BY SnapshotFields DEF Typed, TypeOK
  <2>3. \A n \in Uncollected : n \in Nodes /\ cp.st[n] \in {"absent", "active"}
    BY <2>1, <2>2 DEF Work, Completed, InFlight
  <2>. QED  BY <1>2, <2>1, <2>3, Collected DEF Continues, Progress
<1>3. CASE \/ HandOut \/ Close \/ Cancel \/ CancelTask \/ End \/ StopCanceled \/ StopDropped
           \/ (Collect /\ \E n \in Uncollected : work[n] = "canceled")
  <2>1. CpKept /\ Follows
    <3>1. CASE HandOut \/ Close \/ Cancel
      BY <3>1, SameCp DEF HandOut, Close, Cancel
    <3>2. CASE CancelTask \/ End \/ StopCanceled \/ StopDropped
      BY <3>2, SameCp, StatusSaved DEF CancelTask, End, StopCanceled, StopDropped
    <3>. QED  BY <1>3, <3>1, <3>2, StatusSaved DEF Collect
  <2>2. pc # "off" /\ flow' = flow
    BY <1>3 DEF HandOut, Close, Cancel, CancelTask, End, StopCanceled, StopDropped, Collect
  <2>. QED  BY <2>1, <2>2 DEF Continues, CpKept, Progress
<1>. QED  BY <1>1, <1>2, <1>3 DEF WithinRun, MainLoop

LEMMA StepBehind == ASSUME Typed, Shape, Work, Behind, [Next]_vars  PROVE Behind'
<1>1. CASE Start \/ Resume
  <2>1. /\ store.chain \in Nat
        /\ store' = cp' \/ store' = store
        /\ cp'.chain = store.chain + 1 \/ (cp'.chain = store.chain /\ cp'.st = store.st)
    BY <1>1, Entered
  <2>2. CASE store' = cp'
    <3>1. cp'.chain \in Nat
      BY <2>1
    <3>. QED  BY <2>2, <3>1 DEF Behind, Progress
  <2>3. CASE store' = store
    BY <2>1, <2>3 DEF Behind, Progress
  <2>. QED  BY <2>1, <2>2, <2>3
<1>2. CASE Crash
  BY <1>2 DEF Crash, NoSnapshot, Behind
<1>3. CASE WithinRun
  <2>1. Continues /\ cp.chain # 0
    BY <1>3, StepContinues DEF Shape, Continues
  <2>2. cp.chain \in Nat
    BY SnapshotFields DEF Typed, TypeOK
  <2>3. CASE store' = cp'
    BY <2>1, <2>2, <2>3 DEF Continues, Behind, Progress
  <2>4. CASE store' = store
    <3>1. \A n \in Nodes : Progress(store.st[n], cp.st[n]) => Progress(store.st[n], cp'.st[n])
      BY <2>1 DEF Continues, Progress, Results
    <3>. QED  BY <2>1, <2>4, <3>1 DEF Continues, Behind
  <2>. QED  BY <2>1, <2>3, <2>4 DEF Continues, Follows
<1>4. CASE UNCHANGED vars
  BY <1>4 DEF vars, saveVars, Behind
<1>. QED  BY <1>1, <1>2, <1>3, <1>4 DEF Next, WithinRun, ByNode

(***************************************************************************)
(* Results agree with one another                                          *)
(***************************************************************************)

Stops == {"failure", "skip"}
BlockedIn(st, n) == \E d \in flow.deps[n] \cap flow.raises : st[d] \in Stops

\* A recorded result came from recorded results, and agrees with them.
EntryAgrees(s, n) ==
    /\ n \notin flow.excluded /\ flow.deps[n] \ flow.excluded \subseteq Completed(s)
    /\ s.st[n] \in {"success", "failure"} => ~BlockedIn(s.st, n)
    /\ s.st[n] = "skip" => \/ BlockedIn(s.st, n)
                           \/ n \in flow.choice \cup flow.approval
                           \/ flow.deps[n] \cap flow.excluded # {}
Agreed(s) == \A n \in Completed(s) : EntryAgrees(s, n)

\* The same of what is in flight, before it is recorded.
InFlightAgrees ==
    \A n \in Nodes :
        /\ work[n] \in OnThread \cup {"success", "failure"} => ~BlockedIn(result, n)
        /\ work[n] = "skip" => BlockedIn(result, n) \/ n \in flow.choice \cup flow.approval

AllAgree == Agreed(cp) /\ Agreed(store) /\ InFlightAgrees

LEMMA InitAgree == Init => AllAgree
<1>1. \A n \in Nodes : NoSnapshot(0).st[n] = "absent"
  BY DEF NoSnapshot
<1>. QED  BY <1>1 DEF Init, AllAgree, Agreed, Completed, InFlightAgrees, Results, OnThread

\* A step that keeps every recorded result and adds none keeps the agreement.
LEMMA KeptAgrees == ASSUME Typed, Agreed(cp), CpKept, flow' = flow  PROVE Agreed(cp)'
<1>1. Completed(cp)' = Completed(cp) /\ \A n \in Completed(cp) : cp'.st[n] = cp.st[n]
  BY KeptCompleted DEF Completed
<1>2. \A d \in Nodes : cp'.st[d] \in Stops <=> cp.st[d] \in Stops
  BY DEF CpKept, Stops
<1>3. ASSUME NEW n \in Completed(cp)  PROVE EntryAgrees(cp, n)'
  <2>1. n \in Nodes /\ EntryAgrees(cp, n) /\ flow.deps[n] \subseteq Nodes
    BY <1>3, FlowType DEF Agreed, Completed, Typed
  <2>2. (\E d \in flow'.deps[n] \cap flow'.raises : cp'.st[d] \in Stops)
          <=> \E d \in flow.deps[n] \cap flow.raises : cp.st[d] \in Stops
    BY <1>2, <2>1
  <2>. QED  BY <1>1, <1>3, <2>1, <2>2 DEF EntryAgrees, BlockedIn
<1>. QED  BY <1>1, <1>3 DEF Agreed

LEMMA CollectAgrees == ASSUME Typed, Work, AllAgree, Collect,
                              ~\E n \in Uncollected : work[n] = "canceled"
                       PROVE  Agreed(cp)'
<1> DEFINE R == Uncollected \ flow.excluded
<1>1. /\ flow' = flow /\ InStep /\ NoneForgotten /\ pc = "wait" /\ Agreed(cp) /\ InFlightAgrees
  BY DEF Collect, Work, AllAgree
<1>2. /\ Uncollected \subseteq InFlight /\ InFlight \subseteq handed /\ InFlight \cap done = {}
      /\ R \subseteq Nodes
  BY <1>1 DEF Uncollected, InFlight, Ended, Results, NoneForgotten
<1>3. /\ \A n \in R : cp'.st[n] = work[n]
      /\ \A n \in Nodes \ R : cp'.st[n] = cp.st[n]
      /\ \A n \in Uncollected : work[n] \in Results
  BY Collected
<1>4. Completed(cp)' = Completed(cp) \cup R
  BY <1>2, <1>3 DEF Completed
<1>5. R \cap Completed(cp) = {} /\ R \cap done = {}
  BY <1>2 DEF Work
<1>6. \A n \in Nodes : flow.deps[n] \subseteq Nodes
  BY FlowType DEF Typed
<1> HIDE DEF R
<1>7. ASSUME NEW n \in Completed(cp)  PROVE EntryAgrees(cp, n)'
  <2>1. n \in Nodes /\ n \notin R /\ EntryAgrees(cp, n)
    BY <1>1, <1>5 DEF Completed, Agreed
  <2>2. \A d \in flow.deps[n] : cp'.st[d] = cp.st[d]
    <3>1. \A d \in flow.deps[n] : d \in Nodes /\ (d \in flow.excluded \/ d \in Completed(cp))
      BY <1>6, <2>1 DEF EntryAgrees
    <3>2. R \cap flow.excluded = {}
      BY DEF R
    <3>. QED  BY <1>3, <1>5, <3>1, <3>2
  <2>3. (\E d \in flow'.deps[n] \cap flow'.raises : cp'.st[d] \in Stops)
          <=> \E d \in flow.deps[n] \cap flow.raises : cp.st[d] \in Stops
    BY <1>1, <2>2
  <2>. QED  BY <1>1, <1>3, <1>4, <2>1, <2>3 DEF EntryAgrees, BlockedIn
<1>8. ASSUME NEW n \in R  PROVE EntryAgrees(cp, n)'
  <2>1. /\ n \in Nodes /\ n \notin flow.excluded /\ flow.deps[n] \subseteq done
        /\ work[n] \in Results /\ cp'.st[n] = work[n]
    BY <1>1, <1>2, <1>3 DEF R, InStep
  <2>2. flow'.deps[n] \ flow'.excluded \subseteq Completed(cp)'
    BY <1>1, <1>4, <2>1 DEF InStep
  <2>3. \A d \in flow.deps[n] : \/ d \in Completed(cp) /\ cp'.st[d] = result[d]
                                \/ d \in flow.excluded /\ cp'.st[d] \notin Results
    <3>1. ASSUME NEW d \in flow.deps[n]
          PROVE  \/ d \in Completed(cp) /\ cp'.st[d] = result[d]
                 \/ d \in flow.excluded /\ cp'.st[d] \notin Results
      <4>1. d \in Nodes /\ d \notin R /\ cp'.st[d] = cp.st[d]
        BY <1>3, <1>5, <1>6, <2>1
      <4>2. CASE d \in Completed(cp)
        BY <1>1, <4>1, <4>2 DEF InStep
      <4>3. CASE d \notin Completed(cp)
        BY <1>1, <2>1, <4>1, <4>3 DEF InStep, Completed
      <4>. QED  BY <4>2, <4>3
    <3>. QED  BY <3>1
  <2>4. work[n] \in {"success", "failure"} => ~BlockedIn(cp.st, n)'
    BY <1>1, <2>1, <2>3 DEF InFlightAgrees, BlockedIn, Stops, Results
  <2>5. work[n] = "skip" => \/ BlockedIn(cp.st, n)'
                           \/ n \in flow.choice \cup flow.approval
                           \/ flow.deps[n] \cap flow.excluded # {}
    BY <1>1, <2>1, <2>3 DEF InFlightAgrees, BlockedIn, Stops, Results
  <2>. QED  BY <1>1, <2>1, <2>2, <2>4, <2>5 DEF EntryAgrees
<1>. QED  BY <1>4, <1>7, <1>8 DEF Agreed

\* validate_depends decides before the first attempt, and nothing that a node in
\* flight depends on gets another result.
LEMMA NodeInFlight == ASSUME Typed, Shape, Asked, InFlightAgrees, NEW n \in Nodes, ByNode(n)
                      PROVE  InFlightAgrees'
<1>1. /\ UNCHANGED <<flow, result>> /\ \A m \in Nodes \ {n} : work'[m] = work[m]
  BY Quiet DEF loopVars
<1>w. work \in [Nodes -> OnThread \cup Ended \cup {"none", "queued"}]
  BY DEF Typed, TypeOK
<1>2. \A m \in Nodes : BlockedIn(result, m)' <=> BlockedIn(result, m)
  BY <1>1 DEF BlockedIn
<1>3. \/ work'[n] = work[n] \/ work'[n] = "canceled"
      \/ work[n] = "queued" /\ work'[n] = "skip" /\ (Blocked(n) \/ n \in flow.choice)
      \/ work[n] = "queued" /\ work'[n] = "skip" /\ n \in flow.approval
      \/ work[n] = "queued" /\ work'[n] # "skip" /\ ~Blocked(n)
      \/ work[n] \in OnThread /\ work'[n] \in OnThread \cup {"success", "failure"}
      \/ work[n] = "asking" /\ work'[n] = "skip"
  <2>1. CASE Begin(n)
    BY <1>w, <2>1 DEF Begin, Becomes
  <2>2. CASE LateIterated(n) \/ LateEnds(n) \/ Recover(n)
    BY <2>2 DEF LateIterated, LateEnds, Recover
  <2>3. CASE SeeCancel(n) \/ Invalid(n) \/ NoClient(n) \/ Fail(n) \/ TimeOut(n) \/ Person(n)
    BY <1>w, <2>3, AgainIs DEF SeeCancel, Invalid, NoClient, Fail, TimeOut, Person, Answer,
       GiveUp, Becomes, OnThread
  <2>5. CASE Attempt(n) \/ Act(n) \/ Iterated(n) \/ Succeed(n)
    BY <1>w, <2>5 DEF Attempt, Act, Iterated, Succeed, Becomes, OnThread
  <2>. QED  BY <2>1, <2>2, <2>3, <2>5 DEF ByNode, Thread
<1>4. Blocked(n) <=> BlockedIn(result, n)
  BY DEF Blocked, BlockedIn, Stops
<1> DEFINE Fits(m) ==
           /\ work[m] \in OnThread \cup {"success", "failure"} => ~BlockedIn(result, m)
           /\ work[m] = "skip" => BlockedIn(result, m) \/ m \in flow.choice \cup flow.approval
<1>5. \A m \in Nodes \ {n} : Fits(m)'
  BY <1>1, <1>2 DEF InFlightAgrees
<1>6. Fits(n)'
  <2>1. Fits(n) /\ (work[n] = "asking" => n \in flow.approval)
    BY DEF InFlightAgrees, Asked
  <2>. QED  BY <1>1, <1>2, <1>3, <1>4, <2>1 DEF OnThread
<1>. QED  BY <1>5, <1>6 DEF InFlightAgrees

LEMMA MainInFlight == ASSUME Typed, Shape, Work, InFlightAgrees, MainLoop \/ Cancel \/ CancelTask
                      PROVE  InFlightAgrees'
<1>1. flow' = flow /\ \A n \in Nodes : work'[n] \in {work[n], "none", "queued"}
  BY DEF MainLoop, HandOut, Collect, End, StopCanceled, Close, StopDropped, Cancel, CancelTask,
     Set, threadVars
<1>2. CASE result' = result
  <2>1. \A n \in Nodes : BlockedIn(result, n)' <=> BlockedIn(result, n)
    BY <1>1, <1>2 DEF BlockedIn
  <2>. QED  BY <1>1, <2>1 DEF InFlightAgrees, OnThread
<1>3. CASE Collect
  <2>1. /\ InStep /\ NoneForgotten /\ pc = "wait"
        /\ \A m \in Nodes \ Uncollected : result'[m] = result[m]
        /\ \A m \in Nodes : work'[m] # "none" => m \in InFlight /\ work'[m] = work[m]
    BY <1>3 DEF Collect, Work, Set, InFlight
  <2>2. InFlight \subseteq handed /\ InFlight \cap done = {} /\ Uncollected \subseteq InFlight
    BY <2>1 DEF NoneForgotten, Uncollected, InFlight, Ended, Results
  <2>3. \A n \in InFlight : BlockedIn(result, n)' <=> BlockedIn(result, n)
    <3>1. ASSUME NEW n \in InFlight  PROVE \A d \in flow.deps[n] : result'[d] = result[d]
      <4>1. flow.deps[n] \subseteq done /\ flow.deps[n] \subseteq Nodes
        BY <2>1, <2>2, FlowType DEF InStep, InFlight, Typed
      <4>. QED  BY <2>1, <2>2, <4>1
    <3>. QED  BY <1>1, <3>1 DEF BlockedIn
  <2>4. \A n \in Nodes : n \notin InFlight => work'[n] = "none"
    BY <2>1
  <2>. QED  BY <1>1, <2>1, <2>3, <2>4 DEF InFlightAgrees, OnThread
<1>. QED  BY <1>2, <1>3 DEF MainLoop, HandOut, End, StopCanceled, Close, StopDropped, Cancel,
             CancelTask

LEMMA StepInFlight == ASSUME Typed, Shape, Work, Asked, InFlightAgrees, [Next]_vars
                      PROVE  InFlightAgrees'
<1>1. CASE Start \/ Resume
  BY <1>1, Entered DEF InFlightAgrees, InFlight, OnThread
<1>2. CASE Crash
  BY <1>2 DEF Crash, InFlightAgrees, OnThread
<1>3. CASE MainLoop \/ Cancel \/ CancelTask
  BY <1>3, MainInFlight
<1>4. CASE \E n \in Nodes : ByNode(n)
  BY <1>4, NodeInFlight
<1>5. CASE UNCHANGED vars
  BY <1>5 DEF vars, loopVars, threadVars, InFlightAgrees, BlockedIn
<1>. QED  BY <1>1, <1>2, <1>3, <1>4, <1>5 DEF Next, ByNode

LEMMA EmptyAgrees == ASSUME \A n \in Nodes : cp'.st[n] = "absent"  PROVE Agreed(cp)'
  BY DEF Agreed, Completed, Results

LEMMA StepCpAgrees == ASSUME Typed, Shape, Work, AllAgree, [Next]_vars  PROVE Agreed(cp)'
<1>1. CASE Start
  <2>1. cp' = NoSnapshot(store.chain + 1)
    BY <1>1 DEF Start, Enter, Save
  <2>. QED  BY <2>1, EmptyAgrees DEF NoSnapshot
<1>2. CASE Resume
  <2>1. flow' = flow /\ cp'.st = store.st /\ Agreed(store)
    BY <1>2, Entered DEF AllAgree, Resume, Enter, Start
  <2>. QED  BY <2>1 DEF Agreed, EntryAgrees, BlockedIn, Completed
<1>3. CASE Crash
  BY <1>3, EmptyAgrees DEF Crash, NoSnapshot
<1>4. CASE Collect /\ ~\E n \in Uncollected : work[n] = "canceled"
  BY <1>4, CollectAgrees
<1>5. CASE \/ HandOut \/ Close \/ Cancel \/ CancelTask \/ End \/ StopCanceled \/ StopDropped
           \/ (Collect /\ \E n \in Uncollected : work[n] = "canceled")
  <2>1. CASE HandOut \/ Close \/ Cancel
    BY <2>1, SameCp, KeptAgrees DEF AllAgree, HandOut, Close, Cancel
  <2>2. CASE CancelTask \/ End \/ StopCanceled \/ StopDropped
    BY <2>2, SameCp, StatusSaved, KeptAgrees DEF AllAgree, CancelTask, End, StopCanceled,
       StopDropped
  <2>. QED  BY <1>5, <2>1, <2>2, StatusSaved, KeptAgrees DEF AllAgree, Collect
<1>6. CASE \E n \in Nodes : ByNode(n)
  BY <1>6, Quiet, KeptAgrees DEF AllAgree
<1>7. CASE UNCHANGED vars
  BY <1>7 DEF vars, saveVars, AllAgree, Agreed, EntryAgrees, BlockedIn, Completed
<1>. QED  BY <1>1, <1>2, <1>3, <1>4, <1>5, <1>6, <1>7 DEF Next, MainLoop, ByNode

LEMMA StepAgree == ASSUME Typed, Shape, Work, Asked, AllAgree, [Next]_vars  PROVE AllAgree'
<1>1. Agreed(cp)' /\ InFlightAgrees'
  BY StepCpAgrees, StepInFlight DEF AllAgree
<1>2. flow' = flow /\ (store' = cp' \/ store' = store)
  <2>1. CASE Start \/ Resume
    BY <2>1, Entered
  <2>2. CASE Crash
    BY <2>2 DEF Crash
  <2>3. CASE WithinRun
    BY <2>3, StepContinues DEF Continues, Follows
  <2>4. CASE UNCHANGED vars
    BY <2>4 DEF vars, saveVars
  <2>. QED  BY <2>1, <2>2, <2>3, <2>4 DEF Next, WithinRun, ByNode
<1>3. Agreed(store)'
  <2>1. CASE store' = cp'
    BY <1>1, <2>1 DEF Agreed, EntryAgrees, BlockedIn, Completed
  <2>2. CASE store' = store
    BY <1>2, <2>2 DEF AllAgree, Agreed, EntryAgrees, BlockedIn, Completed
  <2>. QED  BY <1>2, <2>1, <2>2
<1>. QED  BY <1>1, <1>3 DEF AllAgree

(***************************************************************************)
(* What follows                                                            *)
(***************************************************************************)

Inv == Typed /\ Shape /\ Work /\ Asked /\ Behind /\ AllAgree

LEMMA InitInv == Init => Inv
<1>1. Init => Asked /\ Behind
  BY DEF Init, Asked, Behind, NoSnapshot
<1>. QED  BY <1>1, InitTyped, InitShape, InitWork, InitAgree DEF Inv

LEMMA StepInv == Inv /\ [Next]_vars => Inv'
  BY StepTyped, StepShape, StepWork, StepAsked, StepBehind, StepAgree DEF Inv

\* The layers together.
THEOREM InvHolds == Spec => []Inv
  BY InitInv, StepInv, PTL DEF Spec

\* What the sorter has handed out is done or in flight, resumed runs included,
\* whose finished nodes are handed out and marked done at once.
THEOREM NoneForgottenHolds == Spec => []NoneForgotten
<1>1. Inv => NoneForgotten
  BY DEF Inv, Work
<1>. QED  BY <1>1, InvHolds, PTL

\* A flow that ends well has a result of every node, none of them a failure that
\* matters, and has recorded them.
THEOREM SuccessIsWholeHolds == Spec => []SuccessIsWhole
<1>1. Inv => SuccessIsWhole
  BY DEF Inv, Work, WholeSuccess, Shape, SuccessIsWhole
<1>. QED  BY <1>1, InvHolds, PTL

\* The checkpoint says who is asked, and the snapshot does unless a save failed.
THEOREM AskedIsPendingHolds == Spec => []AskedIsPending
<1>1. Inv => AskedIsPending
  BY DEF Inv, Asked, Shape, InFlight, AskedIsPending
<1>. QED  BY <1>1, InvHolds, PTL

\* A loop that waits, waits for something.
Waits == pc = "wait" => InFlight # {}

LEMMA StepWaits == ASSUME Inv, Waits, [Next]_vars  PROVE Waits'
<1>. Typed /\ Shape /\ Work
  BY DEF Inv
<1>1. CASE Start \/ Resume \/ Crash
  BY <1>1 DEF Start, Resume, Enter, Crash, Waits
<1>2. CASE HandOut
  <2> DEFINE ready == {n \in Nodes \ handed : flow.deps[n] \subseteq done}
             todo == {n \in ready \ Completed(cp) :
                         \A d \in flow.deps[n] : result[d] # "undefined"}
  <2>1. /\ work' = Set(work, todo, "queued")
        /\ pc' = IF InFlight \cup todo = {} THEN "loop" ELSE "wait"
    BY <1>2 DEF HandOut
  <2>2. InFlight' = InFlight \cup todo
    BY <2>1 DEF InFlight, Set
  <2>. QED  BY <2>1, <2>2 DEF Waits
<1>3. CASE Collect \/ End \/ StopCanceled \/ Close \/ StopDropped
  BY <1>3 DEF Collect, End, StopCanceled, Close, StopDropped, Finish, Waits
<1>4. CASE Cancel \/ CancelTask
  <2>1. pc' \in {pc, "closing", "over"} /\ UNCHANGED work
    BY <1>4 DEF Cancel, CancelTask, Finish, threadVars
  <2>. QED  BY <2>1 DEF Waits, InFlight
<1>5. CASE \E n \in Nodes : ByNode(n)
  <2>1. UNCHANGED pc /\ InFlight' = InFlight
    BY <1>5, Quiet DEF loopVars
  <2>. QED  BY <2>1 DEF Waits
<1>6. CASE UNCHANGED vars
  BY <1>6 DEF vars, loopVars, threadVars, Waits, InFlight
<1>. QED  BY <1>1, <1>2, <1>3, <1>4, <1>5, <1>6 DEF Next, MainLoop, ByNode

\* A run in which nothing is in flight and not all is done has something to hand
\* out: what is handed out is done then, and the flow has no cycle.
LEMMA SorterGoesOn ==
    ASSUME Inv, pc = "loop", done # Nodes, InFlight = {}
    PROVE  \E n \in Nodes \ handed : flow.deps[n] \subseteq done
<1>1. flow \in Flow /\ Acyclic(flow) /\ done \subseteq Nodes
  BY FlowAssumption DEF Inv, Typed, TypeOK
<1>2. handed = done
  BY DEF Inv, Work, NoneForgotten
<1>3. PICK n \in Nodes \ done : flow.deps[n] \cap (Nodes \ done) = {}
  BY <1>1 DEF Acyclic
<1>4. flow.deps[n] \subseteq Nodes
  BY <1>1 DEF Flow
<1>. QED  BY <1>2, <1>3, <1>4

\* Threads that wait for a place in the pool wait for threads that are at work.
LEMMA PoolGoesOn ==
    ASSUME Inv, InFlight # Uncollected
    PROVE  \E n \in Nodes : work[n] \in OnThread \/ (work[n] = "queued" /\ HasThread)
<1>1. PICK n \in Nodes : work[n] \in OnThread \cup {"queued"}
  BY DEF Inv, Typed, TypeOK, InFlight, Uncollected, Ended, Results
<1>2. CASE \A m \in Nodes : work[m] \notin OnThread
  <2>1. {m \in Nodes : work[m] \in OnThread} = {}
    BY <1>2
  <2>2. HasThread
    BY <2>1, FS_EmptySet, FlowAssumption DEF HasThread
  <2>. QED  BY <1>1, <1>2, <2>2
<1>. QED  BY <1>1, <1>2

\* Sorter, loop and pool never wait for each other, whatever a resumed run found
\* done already (flows/flow.py).
THEOREM NeverStuckHolds == Spec => []NeverStuck
<1>1. Init => Waits
  BY DEF Init, Waits
<1>2. Inv /\ Waits => NeverStuck
  BY SorterGoesOn, PoolGoesOn DEF Waits, NeverStuck
<1>. QED  BY <1>1, <1>2, StepWaits, InvHolds, PTL DEF Spec

\* Only an attempt counts as one, and only a node in flight makes it.
LEMMA Attempts == ASSUME Inv, [Next]_vars, NEW n \in Nodes, tries'[n] > tries[n]
                  PROVE  Attempt(n) \/ NoClient(n)
<1>0. tries \in [Nodes -> Nat] /\ tries[n] \in Nat
  BY DEF Inv, Typed, TypeOK
<1>1. tries'[n] # tries[n] /\ tries'[n] # 0
  BY <1>0
<1>2. ~(Start \/ Resume \/ Crash \/ MainLoop \/ Cancel \/ CancelTask \/ UNCHANGED vars)
  BY <1>1 DEF Start, Resume, Enter, Crash, MainLoop, HandOut, Collect, End, StopCanceled, Close,
     StopDropped, Cancel, CancelTask, threadVars, vars
<1>3. PICK m \in Nodes : ByNode(m)
  BY <1>2 DEF Next, ByNode
<1>4. ~(Begin(m) /\ m = n)
  BY <1>0, <1>1 DEF Begin
<1>5. Attempt(m) \/ NoClient(m) \/ Begin(m)
  BY <1>1, <1>3 DEF ByNode, Thread, Person, Answer, GiveUp, LateIterated, LateEnds, SeeCancel,
     Invalid, Act, Recover, Iterated, Succeed, Fail, TimeOut
<1>6. m = n
  BY <1>0, <1>1, <1>5 DEF Attempt, NoClient, Begin
<1>. QED  BY <1>4, <1>5, <1>6

\* No run of a chain attempts a node again whose result the latest snapshot has.
THEOREM RecordedNeverRepeatsHolds == Spec => RecordedNeverRepeats
<1>1. Inv /\ [Next]_vars =>
        [\A n \in Nodes : tries'[n] > tries[n] /\ cp.chain = store.chain
                              => n \notin Completed(store)]_vars
  <2> SUFFICES ASSUME Inv, [Next]_vars, NEW n \in Nodes, tries'[n] > tries[n],
                      cp.chain = store.chain
               PROVE  n \notin Completed(store)
    OBVIOUS
  <2>1. work[n] = "ready"
    BY Attempts DEF Attempt, NoClient
  <2>2. n \in InFlight /\ n \notin Completed(cp) /\ pc # "off"
    BY <2>1 DEF Inv, Work, Shape, InFlight
  <2>3. Progress(store.st[n], cp.st[n])
    BY <2>2 DEF Inv, Shape, Behind
  <2>. QED  BY <2>2, <2>3 DEF Progress, Completed, Results
<1>. QED  BY <1>1, InvHolds, PTL DEF Spec, RecordedNeverRepeats

(***************************************************************************)
(* The snapshots implement the log of results                              *)
(***************************************************************************)

logShape == [deps |-> flow.deps, raises |-> flow.raises, unlogged |-> flow.excluded,
             whim |-> flow.choice \cup flow.approval]
logOf(st) == [n \in Nodes |-> IF st[n] \in Results THEN st[n] ELSE "none"]

\* A snapshot whose results agree is a sound log.
LEMMA AgreedIsSound == ASSUME Typed, Agreed(store)  PROVE Log!Sound(logOf(store.st))
<1> DEFINE l == logOf(store.st)
<1>1. l \in [Nodes -> Log!Values]
  BY DEF logOf, Log!Values, Results
<1>2. Log!Logged(l) = Completed(store) /\ \A n \in Nodes : n \in Completed(store) => l[n] = store.st[n]
  BY DEF logOf, Log!Logged, Completed, Results
<1>3. \A d \in Nodes : l[d] \in Stops <=> store.st[d] \in Stops
  BY DEF logOf, Stops, Results
<1> HIDE DEF l
<1>4. ASSUME NEW n \in Completed(store)  PROVE Log!Agrees(l, n) /\ n \notin flow.excluded
  <2>1. n \in Nodes /\ EntryAgrees(store, n) /\ flow.deps[n] \subseteq Nodes
    BY FlowType DEF Agreed, Completed, Typed
  <2>2. BlockedIn(store.st, n) <=> \E d \in flow.deps[n] \cap flow.raises : l[d] \in {"failure", "skip"}
    BY <1>3, <2>1 DEF BlockedIn, Stops
  <2>. QED  BY <1>2, <2>1, <2>2 DEF EntryAgrees, Log!Agrees, Log!Blocked
<1>5. Log!Logged(l) \cap flow.excluded = {}
  BY <1>2, <1>4
<1>6. \A n \in Log!Logged(l) : Log!Agrees(l, n)
  BY <1>2, <1>4
<1>. QED  BY <1>1, <1>5, <1>6 DEF Log!Sound, l

\* What a save that succeeds does to the latest snapshot: its chain goes on from
\* the results it had, or another one begins.
LEMMA StepOfLog == ASSUME Inv, [Next]_vars
                   PROVE  /\ flow' = flow
                          /\ \/ UNCHANGED store
                             \/ store'.chain > store.chain
                             \/ /\ store'.chain = store.chain
                                /\ \A n \in Completed(store) : store'.st[n] = store.st[n]
<1>t. store.chain \in Nat /\ cp.chain \in Nat
  BY SnapshotFields DEF Inv, Typed, TypeOK
<1>1. CASE Start \/ Resume
  <2>1. /\ flow' = flow
        /\ store' = cp' \/ store' = store
        /\ cp'.chain = store.chain + 1 \/ (cp'.chain = store.chain /\ cp'.st = store.st)
    BY <1>1, Entered DEF Inv
  <2>. QED  BY <1>t, <2>1
<1>2. CASE Crash
  BY <1>2 DEF Crash
<1>3. CASE WithinRun
  <2>1. Continues /\ cp.chain # 0 /\ Behind
    BY <1>3, StepContinues DEF Inv, Shape, Continues
  <2>2. CASE store' = cp' /\ store.chain = cp.chain
    <3>1. ASSUME NEW n \in Completed(store)  PROVE cp'.st[n] = store.st[n]
      <4>1. Progress(store.st[n], cp.st[n]) /\ Progress(cp.st[n], cp'.st[n])
            /\ store.st[n] \in Results
        BY <2>1, <2>2 DEF Continues, Behind, Completed
      <4>. QED  BY <4>1 DEF Progress, Results
    <3>. QED  BY <2>1, <2>2, <3>1 DEF Continues
  <2>3. CASE store' = cp' /\ store.chain # cp.chain
    BY <1>t, <2>1, <2>3 DEF Continues, Behind
  <2>. QED  BY <2>1, <2>2, <2>3 DEF Continues, Follows
<1>4. CASE UNCHANGED vars
  BY <1>4 DEF vars, saveVars
<1>. QED  BY <1>1, <1>2, <1>3, <1>4 DEF Next, WithinRun, ByNode

LEMMA LogInit == ASSUME Init  PROVE Log!Init
<1>1. flow \in Flow
  BY FlowAssumption DEF Init
<1>2. /\ flow.deps \in [Nodes -> SUBSET Nodes] /\ flow.raises \in SUBSET Nodes
      /\ flow.excluded \in SUBSET Nodes /\ (flow.choice \cup flow.approval) \in SUBSET Nodes
  BY <1>1 DEF Flow
<1>3. store.chain = 0 /\ \A n \in Nodes : store.st[n] = "absent"
  BY DEF Init, NoSnapshot
<1>4. logOf(store.st) = [n \in Nodes |-> "none"]
  BY <1>3 DEF logOf, Results
<1>. QED  BY <1>2, <1>3, <1>4 DEF Log!Init, Log!Shape, logOf

LEMMA LogStep == ASSUME Inv, [Next]_vars, Inv', Log!Sound(logOf(store.st))'
                 PROVE  [Log!Next]_<<logShape, store.chain, logOf(store.st)>>
<1>1. flow' = flow /\ logShape' = logShape
  BY StepOfLog DEF logShape
<1>2. CASE UNCHANGED store
  BY <1>1, <1>2 DEF logOf
<1>3. CASE store'.chain > store.chain
  <2>1. store'.chain \in Nat
    BY SnapshotFields DEF Inv, Typed, TypeOK
  <2>2. Log!Begin
    BY <1>1, <1>3, <2>1
    DEF Log!Begin, Log!Sound, Log!Agrees, Log!Blocked, Log!Logged, Log!Values, logShape, logOf
  <2>. QED  BY <2>2 DEF Log!Next
<1>4. CASE /\ store'.chain = store.chain
           /\ \A n \in Completed(store) : store'.st[n] = store.st[n]
  <2>1. \A n \in Log!Logged(logOf(store.st)) : logOf(store'.st)[n] = logOf(store.st)[n]
    BY <1>4 DEF Log!Logged, logOf, Completed, Results
  <2>2. Log!Extend
    BY <1>1, <1>4, <2>1
    DEF Log!Extend, Log!Sound, Log!Agrees, Log!Blocked, Log!Logged, Log!Values, logShape, logOf
  <2>. QED  BY <2>2 DEF Log!Next
<1>. QED  BY <1>2, <1>3, <1>4, StepOfLog

\* The latest snapshot only ever gains results, holds the results a result came
\* from, and holds no result that disagrees with another; a fresh run begins a
\* log of its own.
THEOREM LogHolds == Spec => LogSpec
<1>1. Init => Log!Init
  BY LogInit
<1>2. Inv => Log!Sound(logOf(store.st))
  BY AgreedIsSound DEF Inv, AllAgree
<1>3. Inv /\ [Next]_vars /\ Inv' /\ Log!Sound(logOf(store.st))'
         => [Log!Next]_<<logShape, store.chain, logOf(store.st)>>
  BY LogStep
<1>. QED  BY <1>1, <1>2, <1>3, InvHolds, PTL DEF Spec, LogSpec, Log!Spec, logShape, logOf

(***************************************************************************)
(* Approvals                                                               *)
(***************************************************************************)

\* A step of a node changes what belongs to the node.
LEMMA NodeEffect == ASSUME Typed, Shape, NEW n \in Nodes, ByNode(n), NEW m \in Nodes \ {n}
                    PROVE  /\ cp'.st[m] = cp.st[m] /\ cp'.ans[m] = cp.ans[m]
                           /\ cp'.loops[m] = cp.loops[m] /\ answer'[m] = answer[m]
                           /\ tries'[m] = tries[m] /\ at'[m] = at[m] /\ late'[m] = late[m]
                           /\ restored'[m] = restored[m] /\ (m \in resumed' <=> m \in resumed)
                           /\ work'[m] = work[m]
                           /\ \A c \in 1..MaxRuns : said'[c][m] = said[c][m]
<1>1. TypeOK
  BY DEF Typed
<1>2. /\ cp'.st[m] = cp.st[m] /\ cp'.ans[m] = cp.ans[m] /\ cp'.loops[m] = cp.loops[m]
  <2>1. CASE Iterated(n)
    <3>1. at[n] + 1 \in 0..MaxLoops /\ Save(MidRun(cp, n, at[n] + 1))
      BY FlowAssumption, <2>1 DEF Iterated, Typed, TypeOK, Bounds
    <3>. QED  BY <3>1, MidRunSaved
  <2>2. CASE LateIterated(n)
    <3>1. late[n] + 1 \in 0..MaxLoops /\ Save(MidRun(cp, n, late[n] + 1))
      BY FlowAssumption, <2>2 DEF LateIterated
    <3>. QED  BY <3>1, MidRunSaved
  <2>3. CASE Begin(n) \/ Person(n)
    <3>1. UNCHANGED saveVars \/ Save(MarkPending(cp, n)) \/ Save(ClearPending(cp, n))
      BY <2>3 DEF Begin, Person, Answer, GiveUp
    <3>. QED  BY <3>1, PendingSaved DEF saveVars
  <2>4. CASE UNCHANGED saveVars
    BY <2>4 DEF saveVars
  <2>. QED  BY <2>1, <2>2, <2>3, <2>4 DEF ByNode, Thread, SeeCancel, Invalid, Attempt, NoClient,
               Act, Recover, Succeed, Fail, TimeOut, LateEnds
<1>3. /\ answer'[m] = answer[m] /\ tries'[m] = tries[m] /\ at'[m] = at[m]
      /\ late'[m] = late[m] /\ restored'[m] = restored[m] /\ (m \in resumed' <=> m \in resumed)
  <2>1. CASE Thread(n)
    BY <1>1, <2>1 DEF Thread, Begin, SeeCancel, Invalid, Attempt, NoClient, Act, Recover, Iterated,
       Succeed, Fail, TimeOut, nodeVars, TypeOK
  <2>2. CASE Person(n) \/ LateIterated(n) \/ LateEnds(n)
    BY <1>1, <2>2 DEF Person, Answer, GiveUp, LateIterated, LateEnds, nodeVars, TypeOK
  <2>. QED  BY <2>1, <2>2 DEF ByNode
<1>4. \A c \in 1..MaxRuns : said'[c][m] = said[c][m]
  <2>1. CASE \E a \in {"approved", "rejected"} : Answer(n, a)
    BY <1>1, <2>1 DEF Answer, TypeOK
  <2>2. CASE said' = said
    BY <2>2
  <2>. QED  BY <2>1, <2>2 DEF ByNode, Thread, Person, Begin, SeeCancel, Invalid, Attempt, NoClient,
               Act, Recover, Iterated, Succeed, Fail, TimeOut, GiveUp, LateIterated, LateEnds,
               history
<1>. QED  BY <1>2, <1>3, <1>4, Quiet

\* What the main loop leaves alone, and the entries of what it does not collect.
LEMMA MainEffect == ASSUME Typed, Shape, Work, MainLoop \/ Cancel \/ CancelTask
                    PROVE  /\ UNCHANGED <<flow, said, answer, resumed, restored, late, tries, at>>
                           /\ \A n \in Nodes :
                                \/ /\ cp'.st[n] = cp.st[n] /\ cp'.ans[n] = cp.ans[n]
                                   /\ cp'.loops[n] = cp.loops[n]
                                \/ cp'.st[n] \in Results /\ work'[n] = "none"
                           /\ \A n \in Nodes : \/ work'[n] \in {work[n], "none"}
                                               \/ /\ work'[n] = "queued" /\ pc = "loop"
                                                  /\ n \notin handed
                           /\ pc' \in {"loop", "wait"} => pc \in {"loop", "wait"}
                           /\ handed \subseteq handed'
<1>1. UNCHANGED <<flow, said, answer, resumed, restored, late, tries, at>>
  BY DEF MainLoop, HandOut, Collect, End, StopCanceled, Close, StopDropped, Cancel, CancelTask,
     threadVars, nodeVars, history
<1>2. ASSUME NEW n \in Nodes
      PROVE  \/ /\ cp'.st[n] = cp.st[n] /\ cp'.ans[n] = cp.ans[n]
                /\ cp'.loops[n] = cp.loops[n]
             \/ cp'.st[n] \in Results /\ work'[n] = "none"
  <2>1. CASE Collect /\ ~\E m \in Uncollected : work[m] = "canceled"
    BY <2>1, Collected DEF Collect, Set, Uncollected
  <2>2. CASE Collect /\ \E m \in Uncollected : work[m] = "canceled"
    BY <2>2, StatusSaved DEF Collect
  <2>3. CASE HandOut \/ Close \/ Cancel
    BY <2>3 DEF HandOut, Close, Cancel, saveVars
  <2>4. CASE CancelTask \/ End \/ StopCanceled \/ StopDropped
    BY <2>4, StatusSaved DEF CancelTask, End, StopCanceled, StopDropped, saveVars
  <2>. QED  BY <2>1, <2>2, <2>3, <2>4 DEF MainLoop
<1>3. /\ \A n \in Nodes : \/ work'[n] \in {work[n], "none"}
                          \/ work'[n] = "queued" /\ pc = "loop" /\ n \notin handed
      /\ pc' \in {"loop", "wait"} => pc \in {"loop", "wait"}
      /\ handed \subseteq handed'
  BY DEF MainLoop, HandOut, Collect, End, StopCanceled, Close, StopDropped, Cancel, CancelTask,
     Set, Finish, threadVars
<1>. QED  BY <1>1, <1>2, <1>3

Open(n) == work[n] = "queued" \/ (pc \in {"loop", "wait"} /\ n \notin handed)

\* Of a node that needs an approval and never runs late: it is only attempted,
\* and only has a mid-run entry, after the last answer was an approval; a resumed
\* run finds that approval on the node; and who is asked has no entry yet.
ApprovedNode(n) ==
    /\ work[n] \in {"ready", "running", "acted"} =>
           said[cp.chain][n] = "approved" /\ answer[n] = "approved"
    /\ cp.st[n] = "active" => cp.ans[n] = "approved" /\ said[cp.chain][n] = "approved"
    /\ store.st[n] = "active" => store.ans[n] = "approved" /\ said[store.chain][n] = "approved"
    /\ cp.st[n] = "active" /\ Open(n) => n \in resumed /\ answer[n] = "approved"
    /\ work[n] = "asking" => cp.st[n] = "absent"
    /\ n \in resumed => cp.st[n] # "absent" /\ store.st[n] # "absent"

Punctual ==
    /\ \A n \in Nodes \ flow.timeout : late[n] = -1
    /\ store.chain = 0 => \A n \in Nodes : store.st[n] = "absent"

Approvals == \A n \in flow.approval \ flow.timeout : ApprovedNode(n)

LEMMA StepPunctual == ASSUME Inv, Punctual, [Next]_vars  PROVE Punctual'
<1>t. late \in [Nodes -> {-1} \cup 0..MaxLoops]
  BY DEF Inv, Typed, TypeOK
<1>1. ASSUME NEW n \in Nodes \ flow'.timeout  PROVE late'[n] = -1
  <2>1. CASE Start \/ Resume
    BY <1>1, <2>1 DEF Start, Resume, Enter, Punctual
  <2>2. CASE Crash
    BY <2>2 DEF Crash
  <2>3. CASE MainLoop \/ Cancel \/ CancelTask
    BY <1>1, <2>3, MainEffect DEF Inv, Punctual
  <2>4. CASE \E m \in Nodes : ByNode(m)
    <3>1. PICK m \in Nodes : ByNode(m)
      BY <2>4
    <3>2. flow' = flow /\ late[n] = -1
      BY <1>1, <3>1, Quiet DEF Inv, Punctual
    <3>3. CASE m = n
      <4>1. CASE Thread(n) \/ Person(n)
        BY <1>1, <3>2, <4>1 DEF Thread, Begin, SeeCancel, Invalid, Attempt, NoClient, Act, Recover,
           Iterated, Succeed, Fail, TimeOut, Person, Answer, GiveUp
      <4>2. CASE LateIterated(n) \/ LateEnds(n)
        BY <3>2, <4>2 DEF LateIterated, LateEnds
      <4>. QED  BY <3>1, <3>3, <4>1, <4>2 DEF ByNode
    <3>4. CASE m # n
      BY <3>1, <3>2, <3>4, NodeEffect DEF Inv
    <3>. QED  BY <3>3, <3>4
  <2>5. CASE UNCHANGED vars
    BY <1>1, <2>5 DEF vars, threadVars, Punctual
  <2>. QED  BY <2>1, <2>2, <2>3, <2>4, <2>5 DEF Next, ByNode
<1>2. store' = store \/ (store' = cp' /\ cp'.chain # 0)
  <2>1. CASE Start \/ Resume
    BY <2>1, Entered DEF Inv
  <2>2. CASE Crash
    BY <2>2 DEF Crash
  <2>3. CASE WithinRun
    <3>1. Continues /\ cp'.chain # 0
      BY <2>3, StepContinues DEF Inv, Shape, Continues
    <3>. QED  BY <3>1 DEF Continues, Follows
  <2>4. CASE UNCHANGED vars
    BY <2>4 DEF vars, saveVars
  <2>. QED  BY <2>1, <2>2, <2>3, <2>4 DEF Next, WithinRun, ByNode
<1>. QED  BY <1>1, <1>2 DEF Punctual

LEMMA InitApprovals == Init => Punctual /\ Approvals
<1>1. \A n \in Nodes : NoSnapshot(0).st[n] = "absent"
  BY DEF NoSnapshot
<1>2. Init => flow \in Flow
  BY FlowAssumption DEF Init
<1>3. Init => \A n \in flow.approval : n \in Nodes
  BY <1>2 DEF Flow
<1>. QED  BY <1>1, <1>3 DEF Init, Punctual, Approvals, ApprovedNode

LEMMA EnterApprovals == ASSUME Inv, Punctual, Approvals, Start \/ Resume  PROVE Approvals'
<1>0. /\ pc' = "loop" /\ flow' = flow /\ work' = work /\ InFlight = {} /\ store \in Snapshot
      /\ store.chain \in Nat /\ \/ store' = cp' \/ store' = store
  BY Entered DEF Inv
<1>s. said \in [1..MaxRuns -> [Nodes -> Answers]] /\ store.chain \in 0..MaxRuns
  BY <1>0, SnapshotFields DEF Inv, Typed, TypeOK
<1>1. ASSUME NEW n \in flow.approval \ flow.timeout  PROVE ApprovedNode(n)'
  <2>1. n \in Nodes /\ ApprovedNode(n) /\ work'[n] = "none" /\ work[n] = "none"
    BY <1>0, <1>1, FlowType DEF Inv, Typed, Approvals, InFlight
  <2>2. CASE Start
    <3>1. cp' = NoSnapshot(store.chain + 1)
      BY <2>2 DEF Start, Enter, Save
    <3>2. cp'.st[n] = "absent" /\ resumed' = {}
      BY <2>1, <2>2, <3>1 DEF NoSnapshot, Start
    <3>3. store'.st[n] = "active" => store' = store /\ store.chain # 0
      BY <1>0, <2>1, <3>2 DEF Punctual
    <3>4. store.chain # 0 => said'[store.chain] = said[store.chain]
      BY <1>0, <1>s, <2>2 DEF Start
    <3>. QED  BY <2>1, <3>2, <3>3, <3>4 DEF ApprovedNode
  <2>3. CASE Resume
    <3>1. /\ cp' = [store EXCEPT !.pending = {}, !.status = "active"] /\ said' = said
          /\ resumed' = resumed \cup {m \in Nodes : store.st[m] # "absent"}
          /\ answer' = [m \in Nodes |-> IF store.ans[m] # "none" THEN store.ans[m] ELSE answer[m]]
      BY <2>3 DEF Resume, Enter, Save
    <3>2. /\ cp'.chain = store.chain /\ cp'.st = store.st /\ cp'.ans = store.ans
      BY <1>0, <3>1, ReopenEdit
    <3>3. store'.chain = store.chain /\ store'.st = store.st /\ store'.ans = store.ans
      BY <1>0, <3>2
    <3>4. store.st[n] = "active" => n \in resumed' /\ answer'[n] = "approved"
      BY <2>1, <3>1 DEF ApprovedNode
    <3>5. n \in resumed' => store.st[n] # "absent"
      BY <2>1, <3>1 DEF ApprovedNode
    <3>. QED  BY <2>1, <3>1, <3>2, <3>3, <3>4, <3>5 DEF ApprovedNode
  <2>. QED  BY <2>2, <2>3
<1>. QED  BY <1>0, <1>1 DEF Approvals

LEMMA MainApprovals == ASSUME Inv, Approvals, MainLoop \/ Cancel \/ CancelTask
                       PROVE  Approvals'
<1>0. /\ flow' = flow /\ cp'.chain = cp.chain /\ (store' = cp' \/ store' = store)
      /\ \A n \in Nodes : Progress(cp.st[n], cp'.st[n])
  BY StepContinues DEF Inv, WithinRun, Continues, Follows
<1>1. ASSUME NEW n \in flow.approval \ flow.timeout  PROVE ApprovedNode(n)'
  <2>1. n \in Nodes /\ ApprovedNode(n) /\ UNCHANGED <<said, answer, resumed>>
    BY <1>1, FlowType, MainEffect DEF Inv, Typed, Approvals
  <2>2. \/ cp'.st[n] = cp.st[n] /\ cp'.ans[n] = cp.ans[n]
        \/ cp'.st[n] \in Results /\ work'[n] = "none"
    BY <2>1, MainEffect DEF Inv
  <2>3. Open(n)' => Open(n)
    BY <2>1, MainEffect DEF Inv, Open
  <2>4. /\ work'[n] \in {work[n], "none", "queued"}
    BY <2>1, MainEffect DEF Inv
  <2>5. /\ work'[n] \in {"ready", "running", "acted"} =>
               said'[cp'.chain][n] = "approved" /\ answer'[n] = "approved"
        /\ work'[n] = "asking" => cp'.st[n] = "absent"
    BY <1>0, <2>1, <2>2, <2>4 DEF ApprovedNode
  <2>6. cp'.st[n] = "active" => cp'.ans[n] = "approved" /\ said'[cp'.chain][n] = "approved"
    BY <1>0, <2>1, <2>2 DEF ApprovedNode, Results
  <2>7. cp'.st[n] = "active" /\ Open(n)' => n \in resumed' /\ answer'[n] = "approved"
    BY <2>1, <2>2, <2>3 DEF ApprovedNode, Results
  <2>8. store'.st[n] = "active" => store'.ans[n] = "approved" /\ said'[store'.chain][n] = "approved"
    BY <1>0, <2>1, <2>6 DEF ApprovedNode
  <2>9. n \in resumed' => cp'.st[n] # "absent" /\ store'.st[n] # "absent"
    BY <1>0, <2>1 DEF ApprovedNode, Progress, Results
  <2>. QED  BY <2>5, <2>6, <2>7, <2>8, <2>9 DEF ApprovedNode
<1>. QED  BY <1>0, <1>1 DEF Approvals

\* The step of the node itself: validate_depends and the approval, the attempt,
\* the iterations.
LEMMA OwnApproval == ASSUME Inv, Punctual, Approvals, NEW n \in flow.approval \ flow.timeout,
                            ByNode(n)
                     PROVE  /\ work'[n] \in {"ready", "running", "acted"} =>
                                   said'[cp.chain][n] = "approved" /\ answer'[n] = "approved"
                            /\ cp'.st[n] = "active" =>
                                   cp'.ans[n] = "approved" /\ said'[cp.chain][n] = "approved"
                            /\ work'[n] = "asking" => cp'.st[n] = "absent"
                            /\ n \in resumed' => n \in resumed
                            /\ said'[cp.chain][n] # said[cp.chain][n] => cp.st[n] = "absent"
                            /\ ~Open(n)'
                            /\ \A c \in 1..MaxRuns \ {cp.chain} : said'[c] = said[c]
<1>0. n \in Nodes /\ ApprovedNode(n) /\ late[n] = -1 /\ TypeOK /\ flow' = flow
  BY FlowType, Quiet DEF Inv, Typed, Approvals, Punctual
<1>1. Thread(n) \/ Person(n)
  BY <1>0 DEF ByNode, LateIterated, LateEnds
<1>2. /\ n \in InFlight /\ n \notin Completed(cp) /\ cp.chain \in 1..MaxRuns /\ cp \in Snapshot
      /\ cp.st[n] \in {"absent", "active"}
  <2>1. n \in InFlight
    BY <1>0, <1>1 DEF Thread, Begin, SeeCancel, Invalid, Attempt, NoClient, Act, Recover, Iterated,
       Succeed, Fail, TimeOut, Person, Answer, GiveUp, InFlight, OnThread
  <2>2. cp \in Snapshot /\ n \notin Completed(cp) /\ cp.chain # 0
    BY <1>0, <2>1 DEF Inv, Work, Shape, TypeOK
  <2>3. cp.chain \in 0..MaxRuns /\ cp.st \in [Nodes -> Results \cup {"absent", "active"}]
    BY <2>2, SnapshotFields
  <2>. QED  BY FlowAssumption, <1>0, <2>1, <2>2, <2>3 DEF Completed
<1>3. n \in handed' \/ pc' \notin {"loop", "wait"}
  BY <1>0, <1>2, Quiet DEF Inv, Work, NoneForgotten, loopVars
<1>4. work \in [Nodes -> OnThread \cup Ended \cup {"none", "queued"}] /\ n \notin flow.timeout
  BY <1>0 DEF TypeOK
<1>5. CASE Begin(n)
  <2>1. /\ work[n] = "queued" /\ answer' = [answer EXCEPT ![n] = Kept(n)]
        /\ UNCHANGED <<resumed, said>> /\ answer'[n] = Kept(n)
    BY <1>0, <1>5 DEF Begin, history, TypeOK
  <2>2. cp'.st = cp.st /\ cp'.ans = cp.ans
    <3>1. UNCHANGED saveVars \/ Save(MarkPending(cp, n))
      BY <1>5 DEF Begin
    <3>. QED  BY <1>0, <3>1, PendingSaved DEF saveVars, Inv
  <2>3. cp.st[n] = "active" => Kept(n) = "approved"
    BY <1>0, <2>1 DEF ApprovedNode, Open, Kept
  <2>4. Kept(n) # "none" => Kept(n) = "approved" /\ cp.st[n] = "active"
    BY <1>0, <1>2, <2>3 DEF ApprovedNode, Kept
  <2>5. /\ work'[n] \in {"skip", "canceled", "ready", "asking"}
        /\ work'[n] = "ready" => Kept(n) = "approved"
        /\ work'[n] = "asking" => Kept(n) = "none"
    BY <1>0, <1>4, <1>5 DEF Begin, Becomes
  <2>6. ~Open(n)'
    BY <1>3, <2>5 DEF Open
  <2>. QED  BY <1>0, <1>2, <2>1, <2>2, <2>3, <2>4, <2>5, <2>6 DEF ApprovedNode
<1>6. CASE \E a \in {"approved", "rejected"} : Answer(n, a)
  <2>1. PICK a \in {"approved", "rejected"} : Answer(n, a)
    BY <1>6
  <2>2. cp'.st = cp.st /\ cp'.ans = cp.ans
    BY <1>0, <2>1, PendingSaved DEF Answer, Inv
  <2>3. /\ work[n] = "asking" /\ resumed' = resumed /\ answer'[n] = a
        /\ said' = [said EXCEPT ![cp.chain][n] = a] /\ said'[cp.chain][n] = a
        /\ work'[n] = IF a = "approved" THEN "ready" ELSE "skip"
    BY <1>0, <1>2, <1>4, <2>1 DEF Answer, Becomes, TypeOK
  <2>4. cp.st[n] = "absent" /\ ~Open(n)'
    BY <1>0, <1>3, <2>3 DEF ApprovedNode, Open
  <2>. QED  BY <1>0, <2>1, <2>2, <2>3, <2>4 DEF TypeOK
<1>7. CASE Iterated(n)
  <2>1. at[n] + 1 \in 0..MaxLoops /\ Save(MidRun(cp, n, at[n] + 1))
    BY FlowAssumption, <1>0, <1>7 DEF Iterated, Inv, Typed, TypeOK, Bounds
  <2>2. cp'.ans[n] = answer[n]
    BY <1>0, <2>1, MidRunSaved DEF Inv
  <2>3. /\ work[n] = "acted" /\ work'[n] = "running" /\ UNCHANGED <<answer, resumed, said>>
    BY <1>0, <1>4, <1>7 DEF Iterated, Becomes, history
  <2>. QED  BY <1>0, <1>3, <2>2, <2>3 DEF ApprovedNode, Open
<1>8. CASE SeeCancel(n) \/ Invalid(n) \/ NoClient(n) \/ Fail(n) \/ GiveUp(n) \/ Succeed(n)
           \/ Attempt(n) \/ Act(n) \/ Recover(n)
  <2>1. /\ UNCHANGED <<cp, said>> /\ resumed' \subseteq resumed
        /\ answer' = answer \/ work'[n] = "success"
    BY <1>0, <1>4, <1>8 DEF SeeCancel, Invalid, NoClient, Fail, GiveUp, Succeed, Attempt, Act,
       Recover, saveVars, nodeVars, history, Becomes
  <2>2. /\ work'[n] \in {"ready", "running", "acted"} => work[n] \in {"ready", "running", "acted"}
        /\ work'[n] # "asking" /\ work'[n] # "queued"
    BY <1>0, <1>4, <1>8, AgainIs DEF SeeCancel, Invalid, NoClient, Fail, GiveUp, Succeed, Attempt,
       Act, Recover, Becomes, OnThread
  <2>3. ~Open(n)'
    BY <1>3, <2>2 DEF Open
  <2>. QED  BY <1>0, <2>1, <2>2, <2>3 DEF ApprovedNode
<1>. QED  BY <1>1, <1>4, <1>5, <1>6, <1>7, <1>8 DEF Thread, Person, TimeOut

LEMMA NodeApprovals == ASSUME Inv, Punctual, Approvals, NEW m \in Nodes, ByNode(m)
                       PROVE  Approvals'
<1>0. /\ Continues /\ cp.chain # 0 /\ flow' = flow /\ cp'.chain = cp.chain
      /\ store' = cp' \/ store' = store
  BY StepContinues DEF Inv, WithinRun, Continues, Follows, Shape
<1>c. /\ cp.chain \in 1..MaxRuns /\ store.chain \in 0..MaxRuns /\ MaxRuns \in Nat
  <2>1. cp \in Snapshot /\ store \in Snapshot
    BY DEF Inv, Typed, TypeOK
  <2>2. cp.chain \in 0..MaxRuns /\ store.chain \in 0..MaxRuns
    BY <2>1, SnapshotFields
  <2>. QED  BY FlowAssumption, <1>0, <2>2
<1>l. UNCHANGED <<pc, handed>>
  BY Quiet DEF Inv, loopVars
<1>1. ASSUME NEW n \in flow.approval \ flow.timeout  PROVE ApprovedNode(n)'
  <2>1. n \in Nodes /\ ApprovedNode(n)
    BY FlowType DEF Inv, Typed, Approvals
  <2>2. Progress(cp.st[n], cp'.st[n]) /\ (store.chain = cp.chain => Progress(store.st[n], cp.st[n]))
    BY <1>0, <2>1 DEF Inv, Behind, Continues
  <2>3. /\ work'[n] \in {"ready", "running", "acted"} =>
               said'[cp'.chain][n] = "approved" /\ answer'[n] = "approved"
        /\ cp'.st[n] = "active" => cp'.ans[n] = "approved" /\ said'[cp'.chain][n] = "approved"
        /\ work'[n] = "asking" => cp'.st[n] = "absent"
        /\ n \in resumed' => n \in resumed
        /\ cp'.st[n] = "active" /\ Open(n)' => n \in resumed' /\ answer'[n] = "approved"
        /\ said'[cp.chain][n] # said[cp.chain][n] => cp.st[n] = "absent"
        /\ \A c \in 1..MaxRuns \ {cp.chain} : said'[c][n] = said[c][n]
    <3>1. CASE m = n
      BY <1>0, <3>1, OwnApproval
    <3>2. CASE m # n
      <4>1. /\ cp'.st[n] = cp.st[n] /\ cp'.ans[n] = cp.ans[n] /\ answer'[n] = answer[n]
            /\ n \in resumed' <=> n \in resumed
            /\ work'[n] = work[n] /\ \A c \in 1..MaxRuns : said'[c][n] = said[c][n]
        BY <2>1, <3>2, NodeEffect DEF Inv
      <4>2. Open(n)' <=> Open(n)
        BY <1>l, <4>1 DEF Open
      <4>. QED  BY <1>0, <1>c, <2>1, <4>1, <4>2 DEF ApprovedNode
    <3>. QED  BY <3>1, <3>2
  <2>4. store'.st[n] = "active" => store'.ans[n] = "approved" /\ said'[store'.chain][n] = "approved"
    <3>1. CASE store' = cp'
      BY <2>3, <3>1
    <3>2. CASE store' = store /\ store.st[n] = "active"
      <4>1. store.chain # 0
        BY <2>1, <3>2 DEF Punctual
      <4>2. CASE store.chain = cp.chain
        BY <2>1, <2>2, <2>3, <3>2, <4>2 DEF ApprovedNode, Progress, Results
      <4>3. CASE store.chain # cp.chain
        BY <1>c, <2>1, <2>3, <3>2, <4>1, <4>3 DEF ApprovedNode
      <4>. QED  BY <4>2, <4>3
    <3>. QED  BY <1>0, <3>1, <3>2
  <2>5. n \in resumed' => cp'.st[n] # "absent" /\ store'.st[n] # "absent"
    BY <1>0, <2>1, <2>2, <2>3 DEF ApprovedNode, Progress, Results
  <2>. QED  BY <2>3, <2>4, <2>5 DEF ApprovedNode
<1>. QED  BY <1>0, <1>1 DEF Approvals

LEMMA StepApprovals == ASSUME Inv, Punctual, Approvals, [Next]_vars  PROVE Approvals'
<1>1. CASE Start \/ Resume
  BY <1>1, EnterApprovals
<1>2. CASE Crash
  <2>1. \A n \in Nodes : cp'.st[n] = "absent"
    BY <1>2 DEF Crash, NoSnapshot
  <2>2. /\ flow' = flow /\ resumed' = {} /\ UNCHANGED <<store, said>>
        /\ \A n \in Nodes : work'[n] = "none"
    BY <1>2 DEF Crash
  <2>3. \A n \in flow.approval : n \in Nodes
    BY FlowType DEF Inv, Typed
  <2>. QED  BY <2>1, <2>2, <2>3 DEF Approvals, ApprovedNode
<1>3. CASE MainLoop \/ Cancel \/ CancelTask
  BY <1>3, MainApprovals
<1>4. CASE \E n \in Nodes : ByNode(n)
  BY <1>4, NodeApprovals
<1>5. CASE UNCHANGED vars
  BY <1>5 DEF vars, loopVars, threadVars, nodeVars, saveVars, history, Approvals, ApprovedNode, Open
<1>. QED  BY <1>1, <1>2, <1>3, <1>4, <1>5 DEF Next, ByNode

\* Of a node that does not time out: nothing is attempted without an approval
\* that was the last answer of this chain of runs.
THEOREM ApprovedFirstHolds == Spec => ApprovedFirst
<1>1. Init => Inv /\ Punctual /\ Approvals
  BY InitInv, InitApprovals
<1>2. (Inv /\ Punctual /\ Approvals) /\ [Next]_vars => (Inv /\ Punctual /\ Approvals)'
  BY StepInv, StepPunctual, StepApprovals
<1>3. Inv /\ Punctual /\ Approvals /\ [Next]_vars =>
        [\A n \in flow.approval \ flow.timeout :
             tries'[n] > tries[n] => said[cp.chain][n] = "approved"]_vars
  <2> SUFFICES ASSUME Inv, Punctual, Approvals, [Next]_vars,
                      NEW n \in flow.approval \ flow.timeout, tries'[n] > tries[n]
               PROVE  said[cp.chain][n] = "approved"
    OBVIOUS
  <2>1. n \in Nodes
    BY FlowType DEF Inv, Typed
  <2>2. work[n] = "ready"
    BY <2>1, Attempts DEF Attempt, NoClient
  <2>. QED  BY <2>2 DEF Approvals, ApprovedNode
<1>. QED  BY <1>1, <1>2, <1>3, PTL DEF Spec, ApprovedFirst

(***************************************************************************)
(* Iterations                                                              *)
(***************************************************************************)

Waiting(n) == Open(n) \/ work[n] = "asking" \/ (work[n] = "ready" /\ tries[n] = 0)

\* The attempt of an agent that is not a retry begins behind no iteration that
\* is saved, and stays there.
Covers(k, n) == cp.loops[n] <= k /\ (store.chain = cp.chain => store.loops[n] <= k)

SavedNode(n) ==
    /\ Waiting(n) /\ n \notin Completed(cp) => Covers(restored[n], n)
    /\ work[n] \in {"running", "acted"} => tries[n] >= 1 /\ (tries[n] = 1 => Covers(at[n], n))
    /\ cp.st[n] = "absent" => cp.loops[n] = 0
    /\ store.st[n] = "absent" => store.loops[n] = 0

Saved == \A n \in (Nodes \cap flow.agents) \ flow.timeout : SavedNode(n)

LEMMA LoopTypes == ASSUME Inv
                   PROVE  \A n \in Nodes :
                              /\ cp.loops[n] \in Nat /\ store.loops[n] \in Nat /\ at[n] \in Nat
                              /\ restored[n] \in Nat /\ tries[n] \in Nat
<1>1. cp \in Snapshot /\ store \in Snapshot
  BY DEF Inv, Typed, TypeOK
<1>2. cp.loops \in [Nodes -> 0..MaxLoops] /\ store.loops \in [Nodes -> 0..MaxLoops]
  BY <1>1, SnapshotFields
<1>. QED  BY FlowAssumption, <1>2 DEF Inv, Typed, TypeOK

LEMMA InitSaved == Init => Saved
<1>1. \A n \in Nodes : NoSnapshot(0).st[n] = "absent" /\ NoSnapshot(0).loops[n] = 0
  BY DEF NoSnapshot
<1>. QED  BY <1>1 DEF Init, Saved, SavedNode, Covers, Waiting, Open

LEMMA EnterSaved == ASSUME Inv, Saved, Start \/ Resume  PROVE Saved'
<1>0. /\ pc' = "loop" /\ flow' = flow /\ work' = work /\ InFlight = {} /\ store \in Snapshot
      /\ store.chain \in Nat /\ (store' = cp' \/ store' = store)
  BY Entered DEF Inv
<1>1. ASSUME NEW n \in (Nodes \cap flow.agents) \ flow.timeout  PROVE SavedNode(n)'
  <2>1. SavedNode(n) /\ work'[n] = "none" /\ restored[n] \in Nat /\ store.loops[n] \in Nat
    BY <1>0, <1>1, LoopTypes DEF Saved, InFlight
  <2>2. CASE Start
    <3>1. cp' = NoSnapshot(store.chain + 1) /\ restored' = restored
      BY <2>2 DEF Start, Enter, Save
    <3>2. cp'.st[n] = "absent" /\ cp'.loops[n] = 0 /\ cp'.chain = store.chain + 1
      BY <1>1, <3>1 DEF NoSnapshot
    <3>. QED  BY <1>0, <2>1, <3>1, <3>2 DEF SavedNode, Covers
  <2>3. CASE Resume
    <3>1. /\ cp' = [store EXCEPT !.pending = {}, !.status = "active"]
          /\ restored'[n] = IF store.st[n] # "absent" THEN store.loops[n] ELSE restored[n]
      BY <1>1, <2>3 DEF Resume, Enter, Save
    <3>2. /\ cp'.chain = store.chain /\ cp'.st = store.st /\ cp'.loops = store.loops
      BY <1>0, <3>1, ReopenEdit
    <3>3. store'.st = store.st /\ store'.loops = store.loops
      BY <1>0, <3>2
    <3>. QED  BY <2>1, <3>1, <3>2, <3>3 DEF SavedNode, Covers
  <2>. QED  BY <2>2, <2>3
<1>. QED  BY <1>0, <1>1 DEF Saved

LEMMA MainSaved == ASSUME Inv, Saved, MainLoop \/ Cancel \/ CancelTask  PROVE Saved'
<1>0. /\ flow' = flow /\ cp'.chain = cp.chain /\ (store' = cp' \/ store' = store)
  BY StepContinues DEF Inv, WithinRun, Continues, Follows
<1>1. ASSUME NEW n \in (Nodes \cap flow.agents) \ flow.timeout  PROVE SavedNode(n)'
  <2>1. SavedNode(n) /\ UNCHANGED <<tries, at, restored>>
    BY <1>1, MainEffect DEF Inv, Saved
  <2>2. \/ cp'.st[n] = cp.st[n] /\ cp'.loops[n] = cp.loops[n]
        \/ cp'.st[n] \in Results /\ work'[n] = "none"
    BY <1>1, MainEffect DEF Inv
  <2>3. /\ work'[n] \in {work[n], "none", "queued"} /\ (Open(n)' => Open(n))
    BY <1>1, MainEffect DEF Inv, Open
  <2>4. CASE cp'.st[n] = cp.st[n] /\ cp'.loops[n] = cp.loops[n]
    <3>1. n \in Completed(cp)' <=> n \in Completed(cp)
      BY <1>1, <2>4 DEF Completed
    <3>2. Waiting(n)' => Waiting(n)
      BY <2>1, <2>3 DEF Waiting
    <3>3. \A k \in Nat : Covers(k, n) => cp'.loops[n] <= k /\ (store'.chain = cp'.chain => store'.loops[n] <= k)
      BY <1>0, <2>4 DEF Covers
    <3>4. restored[n] \in Nat /\ at[n] \in Nat
      BY <1>1, LoopTypes
    <3>. QED  BY <1>0, <2>1, <2>3, <2>4, <3>1, <3>2, <3>3, <3>4 DEF SavedNode, Covers
  <2>5. CASE cp'.st[n] \in Results /\ work'[n] = "none"
    <3>1. n \in Completed(cp)'
      BY <1>1, <2>5 DEF Completed
    <3>. QED  BY <1>0, <2>1, <2>5, <3>1 DEF SavedNode, Results
  <2>. QED  BY <2>2, <2>4, <2>5
<1>. QED  BY <1>0, <1>1 DEF Saved

\* What the thread of an agent does with the iterations behind it.
LEMMA OwnIterations == ASSUME Inv, Punctual, Saved,
                              NEW n \in (Nodes \cap flow.agents) \ flow.timeout, ByNode(n)
                       PROVE  /\ Waiting(n)' => Waiting(n) /\ restored'[n] = restored[n]
                                                /\ cp'.loops[n] = cp.loops[n]
                              /\ work'[n] \in {"running", "acted"} =>
                                     /\ tries'[n] >= 1
                                     /\ tries'[n] = 1 =>
                                           /\ Covers(at'[n], n)
                                           /\ cp'.loops[n] \in {cp.loops[n], at'[n]}
                              /\ cp'.st[n] = "absent" => cp'.loops[n] = cp.loops[n]
<1>0. n \in Nodes /\ SavedNode(n) /\ late[n] = -1 /\ TypeOK /\ flow' = flow
  BY Quiet DEF Inv, Typed, Saved, Punctual
<1>t. /\ cp.loops[n] \in Nat /\ store.loops[n] \in Nat /\ at[n] \in Nat /\ restored[n] \in Nat
      /\ tries[n] \in Nat
  BY LoopTypes
<1>1. Thread(n) \/ Person(n)
  BY <1>0 DEF ByNode, LateIterated, LateEnds
<1>2. n \in InFlight /\ n \notin Completed(cp)
  <2>1. n \in InFlight
    BY <1>0, <1>1 DEF Thread, Begin, SeeCancel, Invalid, Attempt, NoClient, Act, Recover, Iterated,
       Succeed, Fail, TimeOut, Person, Answer, GiveUp, InFlight, OnThread
  <2>. QED  BY <2>1 DEF Inv, Work
<1>3. n \in handed' \/ pc' \notin {"loop", "wait"}
  BY <1>0, <1>2, Quiet DEF Inv, Work, NoneForgotten, loopVars
<1>w. work \in [Nodes -> OnThread \cup Ended \cup {"none", "queued"}]
  BY <1>0 DEF TypeOK
<1>4. CASE Begin(n) \/ Person(n)
  <2>1. cp'.st = cp.st /\ cp'.loops = cp.loops /\ restored' = restored
    <3>1. UNCHANGED saveVars \/ Save(MarkPending(cp, n)) \/ Save(ClearPending(cp, n))
      BY <1>4 DEF Begin, Person, Answer, GiveUp
    <3>. QED  BY <1>0, <1>4, <3>1, PendingSaved DEF saveVars, Inv, Begin, Person, Answer, GiveUp, nodeVars
  <2>2. /\ work'[n] \notin {"running", "acted", "queued"}
        /\ work[n] \in {"queued", "asking"}
    BY <1>0, <1>w, <1>4 DEF Begin, Person, Answer, GiveUp, Becomes
  <2>3. Waiting(n)
    BY <2>2 DEF Waiting, Open
  <2>. QED  BY <2>1, <2>2, <2>3
<1>5. CASE Attempt(n)
  <2>1. /\ work[n] = "ready" /\ work'[n] = "running" /\ UNCHANGED cp
        /\ tries'[n] = tries[n] + 1 /\ at'[n] = restored[n]
    BY <1>0, <1>w, <1>5 DEF Attempt, Becomes, saveVars, TypeOK
  <2>2. tries'[n] = 1 => Covers(restored[n], n)
    BY <1>0, <1>2, <1>t, <2>1 DEF SavedNode, Waiting
  <2>3. ~Waiting(n)'
    BY <1>3, <2>1 DEF Waiting, Open
  <2>. QED  BY <1>t, <2>1, <2>2, <2>3
<1>6. CASE Recover(n)
  <2>1. work[n] = "running" /\ UNCHANGED <<cp, tries, work>> /\ at'[n] = at[n] + 1
    BY <1>0, <1>6 DEF Recover, saveVars, TypeOK
  <2>2. ~Waiting(n)'
    BY <1>3, <2>1 DEF Waiting, Open
  <2>3. Covers(at[n], n) => Covers(at'[n], n)
    BY <1>t, <2>1 DEF Covers
  <2>. QED  BY <1>0, <2>1, <2>2, <2>3 DEF SavedNode
<1>7. CASE Iterated(n)
  <2>1. at[n] + 1 \in 0..MaxLoops /\ Save(MidRun(cp, n, at[n] + 1))
    BY FlowAssumption, <1>0, <1>7 DEF Iterated, Inv, Typed, TypeOK, Bounds
  <2>2. /\ cp'.loops[n] = at[n] + 1
        /\ cp'.st[n] = IF cp.st[n] = "absent" THEN "active" ELSE cp.st[n]
    BY <1>0, <2>1, MidRunSaved DEF Inv
  <2>3. /\ work[n] = "acted" /\ work'[n] = "running" /\ UNCHANGED tries /\ at'[n] = at[n] + 1
    BY <1>0, <1>w, <1>7 DEF Iterated, Becomes, TypeOK
  <2>4. ~Waiting(n)'
    BY <1>3, <2>3 DEF Waiting, Open
  <2>5. Covers(at[n], n) => Covers(at'[n], n)
    BY <1>t, <2>3 DEF Covers
  <2>. QED  BY <1>0, <2>2, <2>3, <2>4, <2>5 DEF SavedNode
<1>8. CASE Act(n)
  <2>1. work[n] = "running" /\ UNCHANGED <<cp, tries, at>> /\ work'[n] = "acted"
    BY <1>0, <1>w, <1>8 DEF Act, saveVars, Becomes
  <2>2. ~Waiting(n)'
    BY <1>3, <2>1 DEF Waiting, Open
  <2>. QED  BY <1>0, <2>1, <2>2 DEF SavedNode
<1>9. CASE SeeCancel(n) \/ Invalid(n) \/ Fail(n) \/ Succeed(n) \/ NoClient(n)
  <2>1. UNCHANGED <<cp, at, restored>> /\ work'[n] \in {"ready", "failure", "canceled", "success"}
    BY <1>0, <1>w, <1>9, AgainIs DEF SeeCancel, Invalid, Fail, Succeed, NoClient, Becomes,
       saveVars, nodeVars
  <2>2. work'[n] = "ready" => tries'[n] # 0
    <3>1. CASE Fail(n)
      BY <1>0, <1>t, <3>1 DEF Fail, SavedNode
    <3>2. CASE NoClient(n)
      BY <1>0, <1>t, <3>2 DEF NoClient, TypeOK
    <3>3. CASE SeeCancel(n) \/ Invalid(n) \/ Succeed(n)
      BY <1>0, <1>w, <3>3 DEF SeeCancel, Invalid, Succeed, Becomes
    <3>. QED  BY <1>9, <3>1, <3>2, <3>3
  <2>3. ~Waiting(n)'
    BY <1>3, <2>1, <2>2 DEF Waiting, Open
  <2>. QED  BY <2>1, <2>3
<1>. QED  BY <1>0, <1>1, <1>4, <1>5, <1>6, <1>7, <1>8, <1>9 DEF Thread, TimeOut

LEMMA NodeSaved == ASSUME Inv, Punctual, Saved, NEW m \in Nodes, ByNode(m)  PROVE Saved'
<1>0. /\ Continues /\ flow' = flow /\ cp'.chain = cp.chain /\ (store' = cp' \/ store' = store)
  BY StepContinues DEF Inv, WithinRun, Continues, Follows
<1>l. UNCHANGED <<pc, handed>>
  BY Quiet DEF Inv, loopVars
<1>1. ASSUME NEW n \in (Nodes \cap flow.agents) \ flow.timeout  PROVE SavedNode(n)'
  <2>0. SavedNode(n) /\ Progress(cp.st[n], cp'.st[n])
    BY <1>0, <1>1 DEF Saved, Continues
  <2>t. /\ cp.loops[n] \in Nat /\ store.loops[n] \in Nat /\ at[n] \in Nat /\ restored[n] \in Nat
        /\ tries[n] \in Nat
    BY LoopTypes
  <2>1. /\ Waiting(n)' => Waiting(n) /\ restored'[n] = restored[n] /\ cp'.loops[n] = cp.loops[n]
        /\ work'[n] \in {"running", "acted"} =>
               /\ tries'[n] >= 1
               /\ tries'[n] = 1 => Covers(at'[n], n) /\ cp'.loops[n] \in {cp.loops[n], at'[n]}
        /\ cp'.st[n] = "absent" => cp'.loops[n] = cp.loops[n]
    <3>1. CASE m = n
      BY <3>1, OwnIterations
    <3>2. CASE m # n
      <4>1. /\ cp'.loops[n] = cp.loops[n] /\ tries'[n] = tries[n] /\ at'[n] = at[n]
            /\ restored'[n] = restored[n] /\ work'[n] = work[n]
        BY <1>1, <3>2, NodeEffect DEF Inv
      <4>2. Waiting(n)' <=> Waiting(n)
        BY <1>l, <4>1 DEF Waiting, Open
      <4>. QED  BY <2>0, <4>1, <4>2 DEF SavedNode
    <3>. QED  BY <3>1, <3>2
  <2>2. n \notin Completed(cp)' => n \notin Completed(cp)
    BY <1>1, <2>0 DEF Completed, Progress, Results
  <2>3. at'[n] \in Nat
    <3>1. [Next]_vars
      BY DEF Next, ByNode
    <3>2. Inv'
      BY <3>1, StepInv
    <3>3. at' \in [Nodes -> 0..MaxLoops]
      BY <3>2 DEF Inv, Typed, TypeOK
    <3>. QED  BY FlowAssumption, <3>3
  <2>4. Waiting(n)' /\ n \notin Completed(cp)' => Covers(restored[n], n)'
    BY <1>0, <2>0, <2>1, <2>2, <2>t DEF SavedNode, Covers
  <2>5. work'[n] \in {"running", "acted"} => tries'[n] >= 1 /\ (tries'[n] = 1 => Covers(at[n], n)')
    BY <1>0, <2>1, <2>3, <2>t DEF Covers
  <2>6. cp'.st[n] = "absent" => cp'.loops[n] = 0
    BY <2>0, <2>1 DEF SavedNode, Progress, Results
  <2>7. store'.st[n] = "absent" => store'.loops[n] = 0
    BY <1>0, <2>0, <2>6 DEF SavedNode
  <2>. QED  BY <2>4, <2>5, <2>6, <2>7 DEF SavedNode
<1>. QED  BY <1>0, <1>1 DEF Saved

LEMMA StepSaved == ASSUME Inv, Punctual, Saved, [Next]_vars  PROVE Saved'
<1>1. CASE Start \/ Resume
  BY <1>1, EnterSaved
<1>2. CASE Crash
  <2>1. cp' = NoSnapshot(0) /\ flow' = flow /\ store' = store /\ pc' = "off"
        /\ \A n \in Nodes : work'[n] = "none"
    BY <1>2 DEF Crash
  <2>2. \A n \in Nodes : cp'.st[n] = "absent" /\ cp'.loops[n] = 0
    BY <2>1 DEF NoSnapshot
  <2>. QED  BY <2>1, <2>2 DEF Saved, SavedNode, Waiting, Open
<1>3. CASE MainLoop \/ Cancel \/ CancelTask
  BY <1>3, MainSaved
<1>4. CASE \E n \in Nodes : ByNode(n)
  BY <1>4, NodeSaved
<1>5. CASE UNCHANGED vars
  BY <1>5 DEF vars, loopVars, threadVars, nodeVars, saveVars, Saved, SavedNode, Waiting, Open,
              Covers, Completed
<1>. QED  BY <1>1, <1>2, <1>3, <1>4, <1>5 DEF Next, ByNode

\* An iteration that the latest snapshot of the chain has is repeated by a retry
\* only, of a node that does not time out.
THEOREM SavedIterationNeverRepeatsHolds == Spec => SavedIterationNeverRepeats
<1>1. Init => Inv /\ Punctual /\ Saved
  BY InitInv, InitApprovals, InitSaved
<1>2. (Inv /\ Punctual /\ Saved) /\ [Next]_vars => (Inv /\ Punctual /\ Saved)'
  BY StepInv, StepPunctual, StepSaved
<1>3. Inv /\ Punctual /\ Saved /\ [Next]_vars =>
        [\A n \in Nodes \ flow.timeout :
             work[n] = "running" /\ work'[n] = "acted" /\ cp.chain = store.chain
                 => at[n] >= store.loops[n] \/ tries[n] > 1]_vars
  <2> SUFFICES ASSUME Inv, Punctual, Saved, [Next]_vars, NEW n \in Nodes \ flow.timeout,
                      work[n] = "running", work'[n] = "acted", cp.chain = store.chain
               PROVE  at[n] >= store.loops[n] \/ tries[n] > 1
    OBVIOUS
  <2>w. work \in [Nodes -> OnThread \cup Ended \cup {"none", "queued"}]
    BY DEF Inv, Typed, TypeOK
  <2>1. n \in flow.agents
    <3>1. ~(Start \/ Resume \/ Crash \/ MainLoop \/ Cancel \/ CancelTask \/ UNCHANGED vars)
      BY MainEffect DEF Inv, Start, Resume, Enter, Crash, vars, threadVars
    <3>2. PICK m \in Nodes : ByNode(m)
      BY <3>1 DEF Next, ByNode
    <3>3. m = n
      BY <3>2, Quiet DEF Inv
    <3>4. Act(n)
      BY <2>w, <3>2, <3>3, AgainIs DEF ByNode, Thread, Person, Begin, SeeCancel, Invalid, Attempt,
         NoClient, Recover, Iterated, Succeed, Fail, TimeOut, Answer, GiveUp, LateIterated,
         LateEnds, Becomes
    <3>. QED  BY <3>4 DEF Act
  <2>. QED  BY <2>1, LoopTypes DEF Saved, SavedNode, Covers
<1>. QED  BY <1>1, <1>2, <1>3, PTL DEF Spec, SavedIterationNeverRepeats
=============================================================================
