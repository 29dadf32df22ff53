---------------------- MODULE WorkflowLifecycleProofs ----------------------
(***************************************************************************)
(* Invariants of WorkflowLifecycle for every set of sessions, definitions  *)
(* and names, and every bound on the number of versions; and, in the second *)
(* part, of SelfHeal, for every number of jobs and every pair of timeouts  *)
(* with JobTimeout < LockTTL: types, mutual exclusion, that a patch follows *)
(* the version it was made for, and the ledger refinement.                 *)
(***************************************************************************)
EXTENDS SelfHeal, SequenceTheorems, TLAPS

(***************************************************************************)
(* Type correctness                                                        *)
(***************************************************************************)

\* A commit writes a row whenever the session holds two rows.
LEMMA FlushIsRow ==
    ASSUME NEW old \in Row, NEW new \in Row, wf \in Row
    PROVE  Flush(old, new) \in Row
BY DEF Flush, Written, Row

\* An edit of a loaded row is a row, and the version it inserts is a version.
LEMMA EditIsTyped ==
    ASSUME NEW row \in Row, NEW name \in Names
    PROVE  EditedRow(row, name) \in Row
<1>1. row.current + 1 \in Nat
  BY DEF Row
<1>2. [row EXCEPT !.current = @ + 1] \in Row
  BY <1>1 DEF Row
<1>. QED  BY <1>2 DEF EditedRow, Row

\* A finished request leaves its session well typed.
LEMMA DoneIsTyped ==
    ASSUME TypeOK, NEW s \in Sessions, Done(s)
    PROVE  /\ pc' \in [Sessions -> PCs]
           /\ seen' \in [Sessions -> Row]
           /\ latest' \in [Sessions -> Nat]
           /\ text' \in [Sessions -> Version]
<1>1. InitRow \in Row /\ InitVersion \in Version /\ "idle" \in PCs
  BY ConstantsAssumption DEF InitRow, InitVersion, Row, Version, PCs, Policies
<1>. QED  BY <1>1 DEF Done, TypeOK

\* A commit of an edit leaves the row and the versions well typed.
LEMMA CommitEditIsTyped ==
    ASSUME TypeOK, NEW old \in Row, NEW name \in Names, NEW body \in Bodies,
           CommitEdit(old, name, body)
    PROVE  wf' \in Row /\ versions' \subseteq Version
<1> DEFINE row == EditedRow(old, name)
<1>1. old \in Row
  BY DEF TypeOK
<1>2. row \in Row
  BY <1>1, EditIsTyped
<1>3. Flush(old, row) \in Row
  BY <1>1, <1>2, FlushIsRow DEF TypeOK
<1>4. [no |-> row.current, name |-> name, body |-> body] \in Version
  BY <1>2 DEF Row, Version
<1>. HIDE DEF row
<1>. QED  BY <1>3, <1>4 DEF CommitEdit, TypeOK, row

\* The rows create_workflow commits are well typed.
LEMMA TypeInit == Init => TypeOK
<1>1. InitRow \in Row /\ InitVersion \in Version
  BY ConstantsAssumption DEF InitRow, InitVersion, Row, Version, Policies
<1> SUFFICES ASSUME Init PROVE TypeOK
  OBVIOUS
<1>2. wf \in Row /\ versions \subseteq Version /\ connected \in BOOLEAN
  BY <1>1 DEF Init
<1>3. tested \subseteq Nat /\ fired \subseteq [no : Nat, way : AllWays]
  BY DEF Init
<1>4. pc \in [Sessions -> PCs] /\ latest \in [Sessions -> Nat]
  BY DEF Init, PCs
<1>5. seen \in [Sessions -> Row] /\ text \in [Sessions -> Version]
  BY <1>1 DEF Init
<1>. QED  BY <1>2, <1>3, <1>4, <1>5 DEF TypeOK

\* Every request statement keeps the rows and the session variables well typed.
LEMMA TypeStep == TypeOK /\ [Next]_vars => TypeOK'
<1> SUFFICES ASSUME TypeOK, [Next]_vars PROVE TypeOK'
  OBVIOUS
<1>1. CASE UNCHANGED vars
  BY <1>1 DEF vars, TypeOK
<1>2. CASE ConnectionChanges
  BY <1>2 DEF ConnectionChanges, db, sess, TypeOK
<1>3. ASSUME NEW s \in Sessions, Request(s) PROVE TypeOK'
  <2>. seen[s] \in Row /\ latest[s] \in Nat /\ text[s] \in Version /\ wf \in Row
    BY DEF TypeOK
  <2>1. ASSUME NEW op \in Ops, Begin(s, op) PROVE TypeOK'
    <3>1. op \in PCs
      BY ConstantsAssumption DEF AllOps, PCs
    <3>. QED  BY <2>1, <3>1 DEF Begin, Goto, db, TypeOK
  <2>2. CASE Update(s)
    BY <2>2, DoneIsTyped, CommitEditIsTyped DEF Update, TypeOK
  <2>3. CASE RollbackTarget(s)
    <3>1. CASE Done(s)
      BY <2>3, <3>1, DoneIsTyped DEF RollbackTarget, db, TypeOK
    <3>2. CASE ~Done(s)
      BY <2>3, <3>2 DEF RollbackTarget, Goto, db, TypeOK, PCs
    <3>. QED  BY <3>1, <3>2
  <2>4. CASE RollbackRefetch(s)
    <3>1. CASE wf.deleted
      BY <2>4, <3>1, DoneIsTyped DEF RollbackRefetch, db, TypeOK
    <3>2. CASE ~wf.deleted
      BY <2>4, <3>2 DEF RollbackRefetch, Goto, db, TypeOK, PCs
    <3>. QED  BY <3>1, <3>2
  <2>5. CASE RollbackCommit(s)
    <3>1. text[s].name \in Names /\ text[s].body \in Bodies
      BY DEF Version
    <3>. QED  BY <2>5, <3>1, DoneIsTyped, CommitEditIsTyped DEF RollbackCommit, TypeOK
  <2>6. CASE RenameLatest(s)
    BY <2>6 DEF RenameLatest, IsLatest, Goto, db, TypeOK, PCs
  <2>7. CASE RenameCommit(s)
    <3>1. PICK name \in Names :
            /\ wf' = Flush(seen[s], [seen[s] EXCEPT !.name = name])
            /\ versions' = IF name = text[s].name THEN versions
                           ELSE RenamedVersions(text[s], name)
      BY <2>7 DEF RenameCommit
    <3>2. [seen[s] EXCEPT !.name = name] \in Row
      BY DEF Row
    <3>3. wf' \in Row
      BY <3>1, <3>2, FlushIsRow
    <3>4. RenamedVersions(text[s], name) \subseteq Version
      <4>1. [text[s] EXCEPT !.name = name] \in Version
        BY DEF Version
      <4>. QED  BY <4>1 DEF RenamedVersions, TypeOK
    <3>. QED  BY <2>7, <3>1, <3>3, <3>4, DoneIsTyped DEF RenameCommit, TypeOK
  <2>8. CASE PublishLatest(s)
    BY <2>8 DEF PublishLatest, IsLatest, Goto, db, TypeOK, PCs, Version
  <2>9. CASE PublishGate(s)
    <3>1. CASE Validated(latest[s])
      BY <2>9, <3>1 DEF PublishGate, Goto, db, TypeOK, PCs
    <3>2. CASE ~Validated(latest[s])
      BY <2>9, <3>2, DoneIsTyped DEF PublishGate, db, TypeOK
    <3>. QED  BY <3>1, <3>2
  <2>10. CASE PublishRequirements(s)
    <3>1. CASE ~Missing(latest[s])
      BY <2>10, <3>1 DEF PublishRequirements, Goto, db, TypeOK, PCs
    <3>2. CASE Missing(latest[s])
      BY <2>10, <3>2, DoneIsTyped DEF PublishRequirements, db, TypeOK
    <3>. QED  BY <3>1, <3>2
  <2>11. CASE PublishCommit(s)
    <3>1. [seen[s] EXCEPT !.status = "published", !.published = latest[s]] \in Row
      BY DEF Row
    <3>. QED  BY <2>11, <3>1, FlushIsRow, DoneIsTyped DEF PublishCommit, TypeOK
  <2>12. CASE Unpublish(s)
    <3>1. [seen[s] EXCEPT !.status = "draft", !.published = 0] \in Row
      BY DEF Row
    <3>. QED  BY <2>12, <3>1, FlushIsRow, DoneIsTyped DEF Unpublish, TypeOK
  <2>13. CASE SetSelfHeal(s)
    <3>1. \A policy \in Policies : [seen[s] EXCEPT !.self_heal = policy] \in Row
      BY DEF Row
    <3>. QED  BY <2>13, <3>1, FlushIsRow, DoneIsTyped DEF SetSelfHeal, TypeOK
  <2>14. CASE SoftDelete(s)
    <3>1. [seen[s] EXCEPT !.deleted = TRUE] \in Row
      BY DEF Row
    <3>. QED  BY <2>14, <3>1, FlushIsRow, DoneIsTyped DEF SoftDelete, TypeOK
  <2>15. CASE RunLatest(s)
    BY <2>15 DEF RunLatest, IsLatest, Goto, db, TypeOK, PCs, Version
  <2>16. CASE RunFire(s)
    BY <2>16, ConstantsAssumption DEF RunFire, db, sess, TypeOK
  <2>17. CASE RunCompleted(s)
    BY <2>17, DoneIsTyped DEF RunCompleted, TypeOK
  <2>18. CASE RunNotCompleted(s)
    BY <2>18, DoneIsTyped DEF RunNotCompleted, db, TypeOK
  <2>. QED  BY <1>3, <2>1, <2>2, <2>3, <2>4, <2>5, <2>6, <2>7, <2>8, <2>9, <2>10,
               <2>11, <2>12, <2>13, <2>14, <2>15, <2>16, <2>17, <2>18 DEF Request
<1>. QED  BY <1>1, <1>2, <1>3 DEF Next

\* The rows and session variables keep their types, whichever request moves.
THEOREM TypeCorrect == Spec => []TypeOK
BY TypeInit, TypeStep, PTL DEF Spec

(***************************************************************************)
(* The inductive invariant                                                 *)
(***************************************************************************)

\* Executions are of existing versions; a published row has a tested
\* version behind it.
RowInv ==
    /\ wf.current >= 1
    /\ \A tst \in tested : tst \in 1..wf.current
    /\ wf.status = "published" => tested # {}

\* What a session read may be stale, but only in the way time makes it: the row
\* it loaded has an older version number, the version it read exists, what it
\* found tested is tested, and the definition it read is still the body of that
\* version.
SessionInv(s) ==
    /\ seen[s].current \in 1..wf.current
    /\ seen[s].published = 0 \/ seen[s].published \in tested
    /\ seen[s].status = "published" => \E tst \in tested : tst <= seen[s].current
    /\ pc[s] \in {"gate", "requirements", "publish_commit", "testing", "running"}
          => latest[s] \in seen[s].current..wf.current
    /\ pc[s] \in {"requirements", "publish_commit"} => latest[s] \in tested
    /\ pc[s] = "rename_commit"
          => \E v \in versions : v.no = text[s].no /\ v.body = text[s].body

Inv == /\ TypeOK
       /\ VersionsAreLog
       /\ PublishedIsTested
       /\ ActionsFollowTests
       /\ RowInv
       /\ \A s \in Sessions : SessionInv(s)

\* The versions a step keeps, with their bodies.
BodiesKept == \A v \in versions : \E w \in versions' : w.no = v.no /\ w.body = v.body

\* What no step takes back.
Grows == wf'.current >= wf.current /\ tested \subseteq tested' /\ BodiesKept

\* A step of one session moves no other session's variables.
OthersWait(s) == \A t \in Sessions \ {s} :
    pc'[t] = pc[t] /\ seen'[t] = seen[t] /\ latest'[t] = latest[t] /\ text'[t] = text[t]

\* The facts a session relies on survive what other sessions commit.
LEMMA SessionKeeps ==
    ASSUME TypeOK, TypeOK', NEW t \in Sessions, SessionInv(t), Grows,
           pc'[t] = pc[t], seen'[t] = seen[t], latest'[t] = latest[t], text'[t] = text[t]
    PROVE  SessionInv(t)'
<1>. seen[t] \in Row /\ latest[t] \in Nat /\ wf \in Row /\ wf' \in Row
  BY DEF TypeOK
<1>. wf.current \in Nat /\ wf'.current \in Nat /\ seen[t].current \in Nat
  BY DEF Row
<1>1. seen[t].current \in 1..wf'.current
  BY DEF SessionInv, Grows
<1>2. seen[t].published = 0 \/ seen[t].published \in tested'
  BY DEF SessionInv, Grows
<1>3. seen[t].status = "published" => \E tst \in tested' : tst <= seen[t].current
  BY DEF SessionInv, Grows
<1>4. pc[t] \in {"gate", "requirements", "publish_commit", "testing", "running"}
        => latest[t] \in seen[t].current..wf'.current
  BY DEF SessionInv, Grows
<1>5. pc[t] \in {"requirements", "publish_commit"} => latest[t] \in tested'
  BY DEF SessionInv, Grows
<1>6. pc[t] = "rename_commit"
        => \E v \in versions' : v.no = text[t].no /\ v.body = text[t].body
  BY DEF SessionInv, Grows, BodiesKept
<1>. QED  BY <1>1, <1>2, <1>3, <1>4, <1>5, <1>6 DEF SessionInv

\* A session that has answered its request relies on nothing.
LEMMA SessionForgets ==
    ASSUME TypeOK, TypeOK', NEW s \in Sessions, Done(s), wf'.current >= 1
    PROVE  SessionInv(s)'
<1>1. pc'[s] = "idle" /\ seen'[s] = InitRow
  BY DEF Done, TypeOK
<1>2. wf'.current \in Nat
  BY DEF TypeOK, Row
<1>. QED  BY <1>1, <1>2 DEF SessionInv, InitRow

\* Every action but a commit of edits: it suffices to look at the row, the
\* tests, the side effects and the session that moved.
LEMMA StepOfSession ==
    ASSUME Inv, TypeOK', NEW s \in Sessions, OthersWait(s), Grows,
           VersionsAreLog', PublishedIsTested', ActionsFollowTests', RowInv',
           SessionInv(s)'
    PROVE  Inv'
<1>1. ASSUME NEW t \in Sessions, t # s PROVE SessionInv(t)'
  BY <1>1, SessionKeeps DEF Inv, OthersWait
<1>. QED  BY <1>1 DEF Inv

\* The unique constraint serialises edits: one that commits was made on the row
\* as it is, so it adds the next number and loses no other edit.
LEMMA EditAppends ==
    ASSUME TypeOK, NEW old \in Row, NEW name \in Names, NEW body \in Bodies,
           VersionsAreLog, RowInv, old.current <= wf.current, CommitEdit(old, name, body)
    PROVE  /\ VersionsAreLog'
           /\ wf'.current \in {wf.current, wf.current + 1}
           /\ VersionFree(old.current + 1)
                => old.current = wf.current /\ wf'.current = wf.current + 1
           /\ wf'.published \in {0, wf.published}
           /\ wf'.status = "published" => wf.status = "published"
           /\ BodiesKept
<1> DEFINE row == EditedRow(old, name)
<1>1. old \in Row /\ wf \in Row
  BY DEF TypeOK
<1>2. /\ row.current = old.current + 1
      /\ row.published = 0
      /\ row.status = "draft"
      /\ row.current \in Nat
  BY <1>1 DEF EditedRow, Row
<1>3. CASE VersionFree(row.current)
  <2>1. row.current \notin 1..wf.current
    BY <1>3 DEF VersionFree, VersionsAreLog
  <2>2. row.current = wf.current + 1
    BY <1>1, <1>2, <2>1 DEF Row
  <2>3. /\ wf'.current = row.current
        /\ wf'.published \in {0, wf.published}
        /\ wf'.status = "published" => wf.status = "published"
    <3>. wf' = Flush(old, row)
      BY <1>3 DEF CommitEdit
    <3>. row.current # old.current
      BY <1>1, <1>2 DEF Row
    <3>. HIDE DEF row
    <3>. QED  BY <1>2 DEF Flush, Written
  <2>4. PICK new : /\ new.no = row.current
                   /\ versions' = versions \cup {new}
    BY <1>3 DEF CommitEdit
  <2>5. VersionsAreLog'
    <3>. HIDE DEF row
    <3>. wf.current \in Nat
      BY <1>1 DEF Row
    <3>1. \A v \in versions' : v.no \in 1..wf'.current
      BY <2>2, <2>3, <2>4 DEF VersionsAreLog, RowInv
    <3>2. \A no \in 1..wf'.current : \E v \in versions' : v.no = no
      BY <2>2, <2>3, <2>4 DEF VersionsAreLog, RowInv
    <3>3. \A v, w \in versions' : v.no = w.no => v = w
      BY <1>3, <2>4 DEF VersionsAreLog, VersionFree
    <3>. QED  BY <3>1, <3>2, <3>3 DEF VersionsAreLog
  <2>6. old.current = wf.current
    BY <1>1, <1>2, <2>2 DEF Row
  <2>. HIDE DEF row
  <2>. QED  BY <2>2, <2>3, <2>4, <2>5, <2>6 DEF BodiesKept
<1>4. CASE ~VersionFree(row.current)
  <2>1. ~VersionFree(old.current + 1) /\ UNCHANGED <<wf, versions>>
    BY <1>2, <1>4 DEF CommitEdit
  <2>. QED  BY <1>1, <2>1 DEF VersionsAreLog, BodiesKept, Row
<1>. QED  BY <1>3, <1>4

\* A step that commits nothing keeps the invariant if it keeps what its own
\* session relies on.
LEMMA StepThatReads ==
    ASSUME Inv, TypeOK', NEW s \in Sessions, OthersWait(s), UNCHANGED <<db, fired>>,
           SessionInv(s)'
    PROVE  Inv'
<1>1. wf.current \in Nat
  BY DEF Inv, TypeOK, Row
<1>2. Grows
  BY <1>1 DEF Grows, BodiesKept, db
<1>3. VersionsAreLog' /\ PublishedIsTested' /\ ActionsFollowTests' /\ RowInv'
  BY DEF Inv, VersionsAreLog, PublishedIsTested, ActionsFollowTests, RowInv, db
<1>. QED  BY <1>2, <1>3, StepOfSession

\* A commit of the row alone that leaves the version number keeps the
\* invariant if the version it publishes, if any, is tested.
LEMMA StepThatFlushes ==
    ASSUME Inv, TypeOK', NEW s \in Sessions, OthersWait(s), Done(s),
           wf'.current = wf.current,
           wf'.published \in {0, wf.published} \cup tested,
           wf'.status = "published" => wf.status = "published" \/ tested # {},
           VersionsAreLog', BodiesKept, UNCHANGED <<tested, fired>>
    PROVE  Inv'
<1>1. wf.current \in Nat /\ wf.current >= 1
  BY DEF Inv, TypeOK, Row, RowInv
<1>2. Grows /\ SessionInv(s)'
  BY <1>1, SessionForgets DEF Grows, Inv
<1>3. PublishedIsTested' /\ ActionsFollowTests' /\ RowInv'
  BY <1>1 DEF Inv, PublishedIsTested, ActionsFollowTests, RowInv
<1>. QED  BY <1>2, <1>3, StepOfSession

LEMMA InvInit == Init => Inv
<1> SUFFICES ASSUME Init PROVE Inv
  OBVIOUS
<1>1. TypeOK
  BY TypeInit
<1>2. VersionsAreLog
  BY DEF Init, VersionsAreLog, InitRow, InitVersion
<1>3. PublishedIsTested /\ ActionsFollowTests /\ RowInv
  BY DEF Init, PublishedIsTested, ActionsFollowTests, RowInv, InitRow
<1>4. ASSUME NEW s \in Sessions PROVE SessionInv(s)
  BY <1>4 DEF Init, SessionInv, InitRow
<1>. QED  BY <1>1, <1>2, <1>3, <1>4 DEF Inv

\* No statement of any request breaks the invariant.
LEMMA InvStep == Inv /\ [Next]_vars => Inv'
<1> SUFFICES ASSUME Inv, [Next]_vars PROVE Inv'
  OBVIOUS
<1>0. TypeOK /\ TypeOK'
  BY TypeStep DEF Inv
<1>1. CASE UNCHANGED vars
  BY <1>1 DEF vars, Inv, TypeOK, VersionsAreLog, PublishedIsTested, ActionsFollowTests,
              RowInv, SessionInv
<1>2. CASE ConnectionChanges
  BY <1>0, <1>2 DEF ConnectionChanges, db, sess, Inv, VersionsAreLog,
                    PublishedIsTested, ActionsFollowTests, RowInv, SessionInv
<1>3. ASSUME NEW s \in Sessions, Request(s) PROVE Inv'
  <2>. seen[s] \in Row /\ latest[s] \in Nat /\ text[s] \in Version /\ wf \in Row
    BY <1>0 DEF TypeOK
  <2>. wf.current \in Nat /\ wf.current >= 1 /\ seen[s].current \in Nat
    BY DEF Row, Inv, RowInv
  <2>0. SessionInv(s) /\ VersionsAreLog /\ RowInv
    BY DEF Inv
  <2>e. ASSUME Done(s) PROVE OthersWait(s)
    BY <1>0, <2>e DEF Done, OthersWait, TypeOK
  <2>d. ASSUME Done(s), UNCHANGED <<db, fired>> PROVE Inv'
    <3>1. wf'.current >= 1
      BY <2>d DEF db
    <3>. QED  BY <1>0, <2>d, <2>e, <3>1, SessionForgets, StepThatReads
  <2>1. ASSUME NEW op \in Ops, Begin(s, op) PROVE Inv'
    <3>1. OthersWait(s)
      BY <1>0, <2>1 DEF Begin, Goto, OthersWait, TypeOK
    <3>2. seen'[s] = wf /\ pc'[s] = op /\ UNCHANGED <<db, fired>>
      BY <1>0, <2>1 DEF Begin, Goto, TypeOK
    <3>3. op \notin {"gate", "requirements", "publish_commit", "testing", "running",
                     "rename_commit"}
      BY ConstantsAssumption DEF AllOps
    <3>4. SessionInv(s)'
      BY <2>0, <3>2, <3>3 DEF SessionInv, RowInv, Inv, PublishedIsTested, db
    <3>. QED  BY <1>0, <3>1, <3>2, <3>4, StepThatReads
  <2>a. ASSUME NEW name \in Names, NEW body \in Bodies, CommitEdit(seen[s], name, body),
               Done(s), UNCHANGED <<tested, fired>>
        PROVE  Inv'
    <3>1. /\ VersionsAreLog'
          /\ wf'.current \in {wf.current, wf.current + 1}
          /\ wf'.published \in {0, wf.published}
          /\ wf'.status = "published" => wf.status = "published"
          /\ BodiesKept
      <4>1. seen[s].current <= wf.current
        BY <2>0 DEF SessionInv
      <4>. QED  BY <1>0, <2>0, <2>a, <4>1, EditAppends
    <3>2. wf'.current \in Nat /\ wf'.current >= 1
      BY <1>0, <3>1 DEF TypeOK, Row
    <3>3. Grows /\ SessionInv(s)'
      BY <1>0, <2>a, <3>1, <3>2, SessionForgets DEF Grows
    <3>4. PublishedIsTested' /\ ActionsFollowTests' /\ RowInv'
      BY <2>a, <3>1, <3>2 DEF Inv, PublishedIsTested, ActionsFollowTests, RowInv
    <3>. QED  BY <1>0, <2>a, <2>e, <3>1, <3>3, <3>4, StepOfSession
  <2>2. CASE Update(s)
    BY <2>2, <2>a DEF Update
  <2>3. CASE RollbackTarget(s)
    <3>1. CASE Done(s)
      BY <2>3, <2>d, <3>1 DEF RollbackTarget
    <3>2. CASE ~Done(s)
      <4>1. OthersWait(s) /\ pc'[s] = "refetch" /\ seen'[s] = seen[s]
            /\ UNCHANGED <<db, fired>>
        BY <1>0, <2>3, <3>2 DEF RollbackTarget, Goto, OthersWait, TypeOK
      <4>2. SessionInv(s)'
        BY <2>0, <4>1 DEF SessionInv, db
      <4>. QED  BY <1>0, <4>1, <4>2, StepThatReads
    <3>. QED  BY <3>1, <3>2
  <2>4. CASE RollbackRefetch(s)
    <3>1. CASE wf.deleted
      BY <2>4, <2>d, <3>1 DEF RollbackRefetch
    <3>2. CASE ~wf.deleted
      <4>1. OthersWait(s) /\ pc'[s] = "rollback_commit" /\ seen'[s] = seen[s]
            /\ UNCHANGED <<db, fired>>
        BY <1>0, <2>4, <3>2 DEF RollbackRefetch, Goto, OthersWait, TypeOK
      <4>2. SessionInv(s)'
        BY <2>0, <4>1 DEF SessionInv, db
      <4>. QED  BY <1>0, <4>1, <4>2, StepThatReads
    <3>. QED  BY <3>1, <3>2
  <2>5. CASE RollbackCommit(s)
    <3>1. text[s].name \in Names /\ text[s].body \in Bodies
      BY DEF Version
    <3>. QED  BY <2>5, <2>a, <3>1 DEF RollbackCommit
  <2>6. CASE RenameLatest(s)
    <3>1. OthersWait(s) /\ pc'[s] = "rename_commit" /\ seen'[s] = seen[s]
          /\ text'[s] \in versions /\ UNCHANGED <<db, fired>>
      BY <1>0, <2>6 DEF RenameLatest, IsLatest, Goto, OthersWait, TypeOK
    <3>2. SessionInv(s)'
      BY <2>0, <3>1 DEF SessionInv, db
    <3>. QED  BY <1>0, <3>1, <3>2, StepThatReads
  <2>7. CASE RenameCommit(s)
    <3>1. PICK name \in Names :
            /\ wf' = Flush(seen[s], [seen[s] EXCEPT !.name = name])
            /\ versions' = IF name = text[s].name THEN versions
                           ELSE RenamedVersions(text[s], name)
      BY <2>7 DEF RenameCommit
    <3> DEFINE new == [text[s] EXCEPT !.name = name]
    <3>2. wf'.current = wf.current /\ wf'.published = wf.published
          /\ wf'.status = wf.status
      BY <3>1 DEF Flush, Written, Row
    <3>3. new.no = text[s].no /\ new.body = text[s].body
      BY DEF Version
    <3>4. \A v \in versions : v.no = text[s].no => v.body = text[s].body
      BY <2>0, <2>7 DEF RenameCommit, SessionInv, VersionsAreLog
    <3>5. CASE name = text[s].name
      BY <1>0, <2>0, <2>7, <2>e, <3>1, <3>2, <3>5, StepThatFlushes
         DEF RenameCommit, VersionsAreLog, BodiesKept
    <3>6. CASE name # text[s].name
      <4>. HIDE DEF new
      <4>1. versions' = {IF v.no = text[s].no THEN new ELSE v : v \in versions}
        BY <3>1, <3>6 DEF RenamedVersions, new
      <4>2. BodiesKept
        BY <3>3, <3>4, <4>1 DEF BodiesKept
      <4>3. VersionsAreLog'
        BY <2>0, <3>2, <3>3, <4>1 DEF VersionsAreLog
      <4>. QED  BY <1>0, <2>7, <2>e, <3>2, <4>2, <4>3, StepThatFlushes DEF RenameCommit
    <3>. QED  BY <3>5, <3>6
  <2>8. CASE PublishLatest(s)
    <3>1. OthersWait(s) /\ pc'[s] = "gate" /\ seen'[s] = seen[s] /\ UNCHANGED <<db, fired>>
      BY <1>0, <2>8 DEF PublishLatest, Goto, OthersWait, TypeOK
    <3>2. latest'[s] = wf.current
      BY <1>0, <2>0, <2>8 DEF PublishLatest, IsLatest, VersionsAreLog, TypeOK
    <3>3. SessionInv(s)'
      BY <2>0, <3>1, <3>2 DEF SessionInv, db
    <3>. QED  BY <1>0, <3>1, <3>3, StepThatReads
  <2>9. CASE PublishGate(s)
    <3>1. CASE Validated(latest[s])
      <4>1. OthersWait(s) /\ pc[s] = "gate" /\ pc'[s] = "requirements"
            /\ seen'[s] = seen[s] /\ latest'[s] = latest[s] /\ UNCHANGED <<db, fired>>
        BY <1>0, <2>9, <3>1 DEF PublishGate, Goto, OthersWait, TypeOK
      <4>2. SessionInv(s)'
        BY <2>0, <3>1, <4>1 DEF SessionInv, db, Validated
      <4>. QED  BY <1>0, <4>1, <4>2, StepThatReads
    <3>2. CASE ~Validated(latest[s])
      BY <2>9, <2>d, <3>2 DEF PublishGate
    <3>. QED  BY <3>1, <3>2
  <2>10. CASE PublishRequirements(s)
    <3>1. CASE ~Missing(latest[s])
      <4>1. OthersWait(s) /\ pc[s] = "requirements" /\ pc'[s] = "publish_commit"
            /\ seen'[s] = seen[s] /\ latest'[s] = latest[s] /\ UNCHANGED <<db, fired>>
        BY <1>0, <2>10, <3>1 DEF PublishRequirements, Goto, OthersWait, TypeOK
      <4>2. SessionInv(s)'
        BY <2>0, <4>1 DEF SessionInv, db
      <4>. QED  BY <1>0, <4>1, <4>2, StepThatReads
    <3>2. CASE Missing(latest[s])
      BY <2>10, <2>d, <3>2 DEF PublishRequirements
    <3>. QED  BY <3>1, <3>2
  <2>11. CASE PublishCommit(s)
    <3> DEFINE new == [seen[s] EXCEPT !.status = "published", !.published = latest[s]]
    <3>1. latest[s] \in tested
      BY <2>0, <2>11 DEF PublishCommit, SessionInv
    <3>2. new.current = seen[s].current /\ new.published = latest[s]
      BY DEF Row
    <3>3. wf' = Flush(seen[s], new)
      BY <2>11 DEF PublishCommit
    <3>4. wf'.current = wf.current /\ wf'.published \in {wf.published, latest[s]}
      <4>. HIDE DEF new
      <4>. QED  BY <3>2, <3>3 DEF Flush, Written
    <3>. QED  BY <1>0, <2>0, <2>11, <2>e, <3>1, <3>4, StepThatFlushes
              DEF PublishCommit, VersionsAreLog, BodiesKept
  <2>12. CASE Unpublish(s)
    <3> DEFINE new == [seen[s] EXCEPT !.status = "draft", !.published = 0]
    <3>1. new.current = seen[s].current /\ new.published = 0 /\ new.status = "draft"
      BY DEF Row
    <3>2. wf' = Flush(seen[s], new)
      BY <2>12 DEF Unpublish
    <3>3. wf'.current = wf.current /\ wf'.published \in {wf.published, 0}
          /\ wf'.status \in {wf.status, "draft"}
      <4>. HIDE DEF new
      <4>. QED  BY <3>1, <3>2 DEF Flush, Written
    <3>. QED  BY <1>0, <2>0, <2>12, <2>e, <3>3, StepThatFlushes
              DEF Unpublish, VersionsAreLog, BodiesKept
  <2>13. CASE SetSelfHeal(s)
    <3>1. wf'.current = wf.current /\ wf'.published = wf.published /\ wf'.status = wf.status
      BY <2>13 DEF SetSelfHeal, Flush, Written, Row
    <3>. QED  BY <1>0, <2>0, <2>13, <2>e, <3>1, StepThatFlushes
              DEF SetSelfHeal, VersionsAreLog, BodiesKept
  <2>14. CASE SoftDelete(s)
    <3>1. wf'.current = wf.current /\ wf'.published = wf.published /\ wf'.status = wf.status
      BY <2>14 DEF SoftDelete, Flush, Written, Row
    <3>. QED  BY <1>0, <2>0, <2>14, <2>e, <3>1, StepThatFlushes
              DEF SoftDelete, VersionsAreLog, BodiesKept
  <2>15. CASE RunLatest(s)
    <3>1. OthersWait(s) /\ pc'[s] \in {"testing", "running"} /\ seen'[s] = seen[s]
          /\ UNCHANGED <<db, fired>>
      BY <1>0, <2>15 DEF RunLatest, Goto, OthersWait, TypeOK
    <3>2. latest'[s] = wf.current
      BY <1>0, <2>0, <2>15 DEF RunLatest, IsLatest, VersionsAreLog, TypeOK
    <3>3. SessionInv(s)'
      BY <2>0, <3>1, <3>2 DEF SessionInv, db
    <3>. QED  BY <1>0, <3>1, <3>3, StepThatReads
  <2>16. CASE RunFire(s)
    <3>1. OthersWait(s) /\ UNCHANGED <<db, sess>>
      BY <2>16 DEF RunFire, OthersWait, sess
    <3>2. ASSUME Live(s) PROVE \E tst \in tested : tst <= latest[s]
      <4>1. PICK tst \in tested : tst <= seen[s].current
        BY <2>0, <3>2 DEF Live, SessionInv
      <4>2. tst \in Nat /\ seen[s].current <= latest[s]
        BY <1>0, <2>0, <2>16 DEF RunFire, SessionInv, TypeOK
      <4>. QED  BY <4>1, <4>2
    <3>3. ActionsFollowTests'
      <4>1. PICK way \in Ways :
                 /\ way = "gated" => Live(s)
                 /\ fired' = fired \cup {[no |-> latest[s], way |-> way]}
        BY <2>16 DEF RunFire
      <4>. QED  BY <3>1, <3>2, <4>1 DEF Inv, ActionsFollowTests, db
    <3>4. Grows
      BY <3>1 DEF Grows, BodiesKept, db
    <3>5. VersionsAreLog' /\ PublishedIsTested' /\ RowInv' /\ SessionInv(s)'
      BY <2>0, <3>1 DEF Inv, VersionsAreLog, PublishedIsTested, RowInv, SessionInv, db, sess
    <3>. QED  BY <1>0, <3>1, <3>3, <3>4, <3>5, StepOfSession
  <2>17. CASE RunCompleted(s)
    <3>1. latest[s] \in 1..wf.current
      BY <2>0, <2>17 DEF RunCompleted, SessionInv
    <3>2. Grows /\ SessionInv(s)'
      BY <1>0, <2>17, SessionForgets DEF RunCompleted, Grows, BodiesKept
    <3>3. VersionsAreLog' /\ PublishedIsTested' /\ ActionsFollowTests' /\ RowInv'
      BY <2>17, <3>1 DEF RunCompleted, Inv, VersionsAreLog, PublishedIsTested,
                         ActionsFollowTests, RowInv
    <3>. QED  BY <1>0, <2>17, <2>e, <3>2, <3>3, StepOfSession DEF RunCompleted
  <2>18. CASE RunNotCompleted(s)
    BY <2>18, <2>d DEF RunNotCompleted
  <2>. QED  BY <1>3, <2>1, <2>2, <2>3, <2>4, <2>5, <2>6, <2>7, <2>8, <2>9, <2>10, <2>11,
               <2>12, <2>13, <2>14, <2>15, <2>16, <2>17, <2>18 DEF Request
<1>. QED  BY <1>1, <1>2, <1>3 DEF Next

\* The invariant holds in every reachable state.
THEOREM Invariance == Spec => []Inv
BY InvInit, InvStep, PTL DEF Spec

(***************************************************************************)
(* What follows                                                            *)
(***************************************************************************)

\* However many edits, rollbacks and renames race, the unique constraint on
\* (workflow_id, version) makes the versions a log: 1..current_version, each
\* number once.
THEOREM VersionLog == Spec => []VersionsAreLog
<1>1. Inv => VersionsAreLog
  BY DEF Inv
<1>. QED  BY <1>1, Invariance, PTL

\* publish_workflow's gate holds at the commit too: executions are never
\* deleted, so what the gate saw is still true.
THEOREM PublishGateHolds == Spec => []PublishedIsTested
<1>1. Inv => PublishedIsTested
  BY DEF Inv
<1>. QED  BY <1>1, Invariance, PTL

\* The publish gate of execute_workflow, from a row that may be stale, still lets no
\* action node act before a successful run of this or an earlier version.  (Of what
\* the gate does not reach, agents' tools above all, this says nothing.)
THEOREM ActionsFollow == Spec => []ActionsFollowTests
<1>1. Inv => ActionsFollowTests
  BY DEF Inv
<1>. QED  BY <1>1, Invariance, PTL

\* A step of any request writes no version anew, save its name.
LEMMA BodiesStep == Inv /\ [Next]_vars => BodiesKept
<1> SUFFICES ASSUME Inv, [Next]_vars PROVE BodiesKept
  OBVIOUS
<1>1. CASE versions' = versions
  BY <1>1 DEF BodiesKept
<1>2. CASE versions' # versions
  <2>1. PICK s \in Sessions : Update(s) \/ RollbackCommit(s) \/ RenameCommit(s)
    BY <1>2 DEF Next, vars, db, ConnectionChanges, Request, Begin, RollbackTarget,
                RollbackRefetch, RenameLatest, PublishLatest, PublishGate,
                PublishRequirements, PublishCommit, Unpublish, SetSelfHeal, SoftDelete,
                RunLatest, RunFire, RunCompleted, RunNotCompleted
  <2>2. ASSUME NEW name, NEW body, CommitEdit(seen[s], name, body) PROVE BodiesKept
    BY <2>2 DEF CommitEdit, BodiesKept
  <2>3. CASE Update(s) \/ RollbackCommit(s)
    BY <2>2, <2>3 DEF Update, RollbackCommit
  <2>4. CASE RenameCommit(s)
    <3>1. PICK name \in Names : versions' = RenamedVersions(text[s], name)
      BY <1>2, <2>4 DEF RenameCommit
    <3>2. \A v \in versions : v.no = text[s].no => v.body = text[s].body
      BY <2>4 DEF RenameCommit, Inv, SessionInv, VersionsAreLog
    <3> DEFINE new == [text[s] EXCEPT !.name = name]
    <3>3. new.no = text[s].no /\ new.body = text[s].body
      BY DEF Inv, TypeOK, Version
    <3>4. versions' = {IF v.no = text[s].no THEN new ELSE v : v \in versions}
      BY <3>1 DEF RenamedVersions
    <3>. HIDE DEF new
    <3>. QED  BY <3>2, <3>3, <3>4 DEF BodiesKept
  <2>. QED  BY <2>1, <2>3, <2>4
<1>. QED  BY <1>1, <1>2

\* Renaming is the only in-place change of a version, and it writes back the
\* definition it read, which is still the definition of that version.
THEOREM VersionsKeepTheirBodies == Spec => BodiesImmutable
BY BodiesStep, Invariance, PTL DEF Spec, BodiesImmutable, BodiesKept

(***************************************************************************)
(* The workflow store implements the ledger                                *)
(***************************************************************************)

\* A commit on the rows as a reader of the ledger may see it: an edit ...
Edits == /\ wf'.current = wf.current + 1
         /\ wf'.published \in {0, wf.published}
         /\ tested' = tested
\* ... a change of what is live ...
Releases == /\ wf'.current = wf.current
            /\ wf'.published \in {0, wf.published} \cup tested
            /\ tested' = tested
\* ... or the end of a run of a version that exists.
Completes == /\ wf' = wf
             /\ \E v \in 1..wf.current : tested' = tested \cup {v}

\* The row and the versions a reader finds.
LedgerInv == TypeOK /\ VersionsAreLog /\ wf.current >= 1

\* A version that a step keeps is read as it was.
LEMMA BodyKept ==
    ASSUME VersionsAreLog, VersionsAreLog', BodiesKept, NEW no \in 1..wf.current
    PROVE  Body(no)' = Body(no)
<1> DEFINE v == CHOOSE w \in versions : w.no = no
           u == CHOOSE w \in versions' : w.no = no
<1>1. v \in versions /\ v.no = no
  BY DEF VersionsAreLog
<1>2. PICK w \in versions' : w.no = no /\ w.body = v.body
  BY <1>1 DEF BodiesKept
<1>3. u \in versions' /\ u.no = no
  BY <1>2
<1>4. u = w
  BY <1>2, <1>3 DEF VersionsAreLog
<1>. QED  BY <1>2, <1>4 DEF Body

\* The log of the versions is a sequence of definitions.
LEMMA LogIsSeq ==
    ASSUME LedgerInv
    PROVE  Log \in Seq(Bodies) /\ Len(Log) = wf.current
<1>1. wf.current \in Nat
  BY DEF LedgerInv, TypeOK, Row
<1>2. ASSUME NEW no \in 1..wf.current PROVE Body(no) \in Bodies
  <2>1. PICK v \in versions : v.no = no
    BY DEF LedgerInv, VersionsAreLog
  <2> DEFINE u == CHOOSE w \in versions : w.no = no
  <2>2. u \in versions
    BY <2>1
  <2>3. u.body \in Bodies
    BY <2>2 DEF LedgerInv, TypeOK, Version
  <2>. QED  BY <2>3 DEF Body
<1>3. Log \in [1..wf.current -> Bodies]
  BY <1>2 DEF Log
<1>. QED  BY <1>1, <1>3

LEMMA LogIsSeqThen == (LedgerInv => Log \in Seq(Bodies) /\ Len(Log) = wf.current)'

<1>1. LedgerInv => Log \in Seq(Bodies) /\ Len(Log) = wf.current
  BY LogIsSeq
<1>. QED  BY <1>1, PTL

\* An edit appends to the log, every other step leaves it.
LEMMA LogGrows ==
    ASSUME LedgerInv, LedgerInv', BodiesKept
    PROVE  /\ wf'.current = wf.current => Log' = Log
           /\ wf'.current = wf.current + 1 => \E b \in Bodies : Log' = Append(Log, b)
<1>. wf.current \in Nat /\ wf'.current \in Nat
  BY DEF LedgerInv, TypeOK, Row
<1>. Log \in Seq(Bodies) /\ Len(Log) = wf.current
  BY LogIsSeq
<1>. Log' \in Seq(Bodies) /\ Len(Log') = wf'.current
  BY LogIsSeqThen
<1>1. \A no \in 1..wf.current : Log[no] = Body(no) /\ Body(no)' = Body(no)
  BY BodyKept DEF Log, LedgerInv
<1>2. \A no \in 1..wf'.current : Log'[no] = Body(no)'
  BY DEF Log
<1>3. ASSUME wf'.current = wf.current PROVE Log' = Log
  BY <1>1, <1>2, <1>3, SeqEqual
<1>4. ASSUME wf'.current = wf.current + 1 PROVE \E b \in Bodies : Log' = Append(Log, b)
  <2> DEFINE b == Log'[wf'.current]
  <2>1. b \in Bodies
    BY <1>4, ElementOfSeq
  <2>2. /\ Append(Log, b) \in Seq(Bodies)
        /\ Len(Append(Log, b)) = wf.current + 1
        /\ \A i \in 1..wf.current : Append(Log, b)[i] = Log[i]
        /\ Append(Log, b)[wf.current + 1] = b
    BY <2>1, AppendProperties
  <2>3. \A i \in 1..wf'.current : Log'[i] = Append(Log, b)[i]
    BY <1>1, <1>2, <1>4, <2>2
  <2>4. Log' = Append(Log, b)
    <3>. HIDE DEF b
    <3>. QED  BY <1>4, <2>2, <2>3, SeqEqual
  <2>. QED  BY <2>1, <2>4
<1>. QED  BY <1>3, <1>4

\* What a commit may do to the rows is a step of the ledger, or none.
LEMMA LedgerStep ==
    ASSUME LedgerInv, LedgerInv', BodiesKept, Edits \/ Releases \/ Completes
    PROVE  [Ledger!Next]_(Ledger!vars)
<1>1. CASE Edits
  <2>1. \E b \in Bodies : Log' = Append(Log, b)
    BY <1>1, LogGrows DEF Edits
  <2>. QED  BY <1>1, <2>1 DEF Edits, Ledger!Next, Ledger!Edit
<1>2. CASE Releases
  <2>1. Log' = Log
    BY <1>2, LogGrows DEF Releases
  <2>. QED  BY <1>2, <2>1
            DEF Releases, Ledger!Next, Ledger!GoLive, Ledger!TakeOffline, Ledger!vars
<1>3. CASE Completes
  <2>1. Log' = Log /\ Len(Log) = wf.current
    BY <1>3, LogGrows, LogIsSeq DEF Completes
  <2>. QED  BY <1>3, <2>1 DEF Completes, Ledger!Next, Ledger!Test
<1>. QED  BY <1>1, <1>2, <1>3

\* The workflow is created with one version, untested and not live.
LEMMA LedgerInit == Init => Ledger!Init
<1> SUFFICES ASSUME Init PROVE Ledger!Init
  OBVIOUS
<1>1. LedgerInv
  BY InvInit DEF Inv, RowInv, LedgerInv
<1>2. Log \in Seq(Bodies) /\ Len(Log) = 1
  BY <1>1, LogIsSeq DEF Init, InitRow
<1>3. Log[1] \in Bodies /\ Log = <<Log[1]>>
  BY <1>2
<1>. QED  BY <1>3 DEF Init, InitRow, Ledger!Init

\* Each statement of a request is an edit, a release, the end of a run or
\* nothing that the ledger shows.
LEMMA RequestIsCommit ==
    ASSUME Inv, [Next]_vars
    PROVE  Edits \/ Releases \/ Completes
<1>. wf \in Row /\ wf.current \in Nat /\ TypeOK /\ VersionsAreLog /\ RowInv
  BY DEF Inv, TypeOK, Row
<1>1. CASE wf' = wf /\ tested' = tested
  BY <1>1 DEF Releases
<1>2. ASSUME NEW s \in Sessions, Request(s), ~(wf' = wf /\ tested' = tested)
      PROVE  Edits \/ Releases \/ Completes
  <2>. seen[s] \in Row /\ latest[s] \in Nat /\ text[s] \in Version /\ SessionInv(s)
    BY DEF Inv, TypeOK
  <2>. seen[s].current \in Nat
    BY DEF Row
  <2>1. ASSUME NEW name \in Names, NEW body \in Bodies, CommitEdit(seen[s], name, body),
               tested' = tested
        PROVE  Edits \/ Releases
    <3>1. seen[s].current <= wf.current
      BY DEF SessionInv
    <3>. QED  BY <2>1, <3>1, EditAppends DEF Edits, Releases
  <2>2. CASE Update(s)
    BY <2>1, <2>2 DEF Update
  <2>3. CASE RollbackCommit(s)
    <3>1. text[s].name \in Names /\ text[s].body \in Bodies
      BY DEF Version
    <3>. QED  BY <2>1, <2>3, <3>1 DEF RollbackCommit
  <2>4. CASE RenameCommit(s) \/ SetSelfHeal(s) \/ SoftDelete(s)
    <3>1. ASSUME NEW new \in Row, wf' = Flush(seen[s], new), tested' = tested,
                 new.current = seen[s].current, new.published = seen[s].published
          PROVE  Releases
      BY <3>1 DEF Flush, Written, Releases
    <3>2. CASE RenameCommit(s)
      BY <3>1, <3>2 DEF RenameCommit, Row
    <3>3. CASE SetSelfHeal(s)
      BY <3>1, <3>3 DEF SetSelfHeal, Row
    <3>4. CASE SoftDelete(s)
      BY <3>1, <3>4 DEF SoftDelete, Row
    <3>. QED  BY <2>4, <3>2, <3>3, <3>4
  <2>5. CASE PublishCommit(s)
    <3>1. latest[s] \in tested
      BY <2>5 DEF PublishCommit, SessionInv
    <3>2. wf'.current = wf.current /\ wf'.published \in {wf.published, latest[s]}
      BY <2>5 DEF PublishCommit, Flush, Written, Row
    <3>. QED  BY <2>5, <3>1, <3>2 DEF Releases, PublishCommit
  <2>6. CASE Unpublish(s)
    <3>1. wf'.current = wf.current /\ wf'.published \in {wf.published, 0}
      BY <2>6 DEF Unpublish, Flush, Written, Row
    <3>. QED  BY <2>6, <3>1 DEF Releases, Unpublish
  <2>7. CASE RunCompleted(s)
    BY <2>7 DEF Completes, RunCompleted, SessionInv
  <2>. QED  BY <1>2, <2>2, <2>3, <2>4, <2>5, <2>6, <2>7
            DEF Request, db, Begin, RollbackTarget, RollbackRefetch, RenameLatest,
                PublishLatest, PublishGate, PublishRequirements, RunLatest, RunFire,
                RunNotCompleted
<1>. QED  BY <1>1, <1>2 DEF Next, vars, db, ConnectionChanges

\* Requests that race statement by statement implement an atomic ledger: a log
\* of definitions that only grows and a live version that was tested.
THEOREM RequestsImplementLedger == Spec => ImplementsLedger
<1>1. Inv => LedgerInv
  BY DEF Inv, RowInv, LedgerInv
<1>2. Inv /\ Inv' /\ [Next]_vars => [Ledger!Next]_(Ledger!vars)
  <2>1. Inv' => LedgerInv'
    BY <1>1, PTL
  <2>. QED  BY <1>1, <2>1, BodiesStep, RequestIsCommit, LedgerStep
<1>. QED  BY <1>2, LedgerInit, Invariance, PTL DEF Spec, ImplementsLedger, Ledger!Spec
-----------------------------------------------------------------------------
(***************************************************************************)
(* Types of heal jobs                                                      *)
(***************************************************************************)

LEMMA RowsAreTyped == InitRow \in Row /\ InitVersion \in Version /\ NoVersion \in Version
<1>1. InitRow \in Row /\ InitVersion \in Version
  BY ConstantsAssumption DEF InitRow, InitVersion, Row, Version, Policies
<1>. QED  BY <1>1 DEF NoVersion, Version

\* The values a job passes through.
LEMMA NewJobIsTyped == NewJob \in Job
  BY RowsAreTyped, HealAssumption DEF NewJob, Job, HPCs, Policies, Notes

LEMMA OverIsTyped == ASSUME NEW note \in Notes PROVE Over(note) \in Job
  BY NewJobIsTyped DEF Over, Job

LEMMA EndsIsTyped == ASSUME NEW j \in Job, NEW note \in Notes PROVE Ends(j, note) \in Job
  BY DEF Ends, Job, HPCs

LEMMA AtIsTyped ==
    ASSUME NEW j \in Job, NEW label \in HPCs PROVE [j EXCEPT !.pc = label] \in Job
  BY DEF Job

LEMMA RollbackIsTyped == ASSUME NEW j \in Job PROVE Rollback(j) \in Job
<1>1. Ends(j, "left_draft") \in Job /\ Ends(j, "rolled_back") \in Job
  BY EndsIsTyped DEF Notes
<1>2. [j EXCEPT !.pc = "refetch", !.restoring = TRUE] \in Job
  BY DEF Job, HPCs
<1>. QED  BY <1>1, <1>2 DEF Rollback

\* A step of one job that gives it a typed value and commits typed rows.
LEMMA JobStepIsTyped ==
    ASSUME HealTypeOK, NEW h \in Healers, NEW new \in Job, Becomes(h, new),
           wf' \in Row, versions' \subseteq Version, tested' \subseteq Nat,
           lock' \in 0..LockTTL, cooldown' \in BOOLEAN,
           UNCHANGED <<connected, sess, fired, kept>>
    PROVE  HealTypeOK'
<1>1. TypeOK'
  BY DEF HealTypeOK, TypeOK, sess
<1>2. job' \in [Healers -> Job]
  BY DEF HealTypeOK, Becomes
<1>. QED  BY <1>1, <1>2 DEF HealTypeOK

\* The same for a step that commits nothing and leaves the lock alone.
LEMMA OnlyJobIsTyped ==
    ASSUME HealTypeOK, NEW h \in Healers, NEW new \in Job, Becomes(h, new), OnlyJob,
           UNCHANGED <<connected, sess, fired, kept>>
    PROVE  HealTypeOK'
<1>1. /\ wf' \in Row /\ versions' \subseteq Version /\ tested' \subseteq Nat
      /\ lock' \in 0..LockTTL /\ cooldown' \in BOOLEAN
  BY DEF OnlyJob, db, HealTypeOK, TypeOK
<1>. QED  BY <1>1, JobStepIsTyped

LEMMA PublishRaisedIsTyped ==
    ASSUME HealTypeOK, NEW h \in Healers, PublishRaised(h)
    PROVE  \E new \in Job : Becomes(h, new)
<1>1. job[h] \in Job
  BY DEF HealTypeOK
<1>2. Ends(job[h], "offline") \in Job /\ Rollback(job[h]) \in Job
  BY <1>1, EndsIsTyped, RollbackIsTyped DEF Notes
<1>. QED  BY <1>2 DEF PublishRaised

LEMMA MovesIsTyped ==
    ASSUME HealTypeOK, NEW h \in Healers, NEW label \in HPCs, Moves(h, label)
    PROVE  \E new \in Job : Becomes(h, new)
  BY AtIsTyped DEF Moves, HealTypeOK

LEMMA ReportsIsTyped ==
    ASSUME HealTypeOK, NEW h \in Healers, NEW note \in Notes, Reports(h, note)
    PROVE  \E new \in Job : Becomes(h, new)
<1>1. job[h] \in Job
  BY DEF HealTypeOK
<1>2. [job[h] EXCEPT !.pc = "record", !.note = note] \in Job
  BY <1>1 DEF Job, HPCs
<1>. QED  BY <1>2 DEF Reports

LEMMA HealTypeInit == HealInit => HealTypeOK
<1> SUFFICES ASSUME HealInit PROVE HealTypeOK
  OBVIOUS
<1>1. TypeOK
  BY TypeInit DEF HealInit
<1>2. job \in [Healers -> Job]
  BY NewJobIsTyped DEF HealInit
<1>3. lock \in 0..LockTTL
  BY HealAssumption DEF HealInit
<1>4. cooldown \in BOOLEAN /\ kept \in BOOLEAN
  BY DEF HealInit
<1>. QED  BY <1>1, <1>2, <1>3, <1>4 DEF HealTypeOK

\* A latest version has a natural number, and a typed definition.
LEMMA LatestIsTyped ==
    ASSUME TypeOK, NEW v \in versions PROVE v \in Version /\ v.no \in Nat
  BY DEF TypeOK, Version

\* Each step of a job, as the value the job takes.
LEMMA JobValueIsTyped ==
    ASSUME HealTypeOK, NEW h \in Healers, Flag(h) \/ HealJob(h)
    PROVE  \E new \in Job : Becomes(h, new)
<1>. job[h] \in Job /\ wf \in Row /\ TypeOK
  BY DEF HealTypeOK, TypeOK
<1>1. CASE Flag(h)
  <2>1. [NewJob EXCEPT !.pc = "load", !.policy = Effective(wf.self_heal)] \in Job
    BY NewJobIsTyped DEF Job, HPCs, Effective, Policies
  <2>. QED  BY <1>1, <2>1 DEF Flag
<1>2. CASE HealLoad(h)
  <2>1. [job[h] EXCEPT !.pc = "patch", !.seen = wf, !.base = wf.current] \in Job
    BY DEF Job, HPCs, Row
  <2>. QED  BY <1>2, <2>1, OverIsTyped DEF HealLoad, Notes
<1>3. CASE HealDiagnosisFails(h)
  BY <1>3, OverIsTyped DEF HealDiagnosisFails, Notes
<1>4. CASE HealNoPatch(h)
  BY <1>4, ReportsIsTyped DEF HealNoPatch, Notes
<1>5. CASE HealPatch(h)
  <2>1. PICK v \in versions :
          IF job[h].policy = "safe" /\ job[h].seen.status = "published"
          THEN Reports(h, "left_live")
          ELSE Becomes(h, [job[h] EXCEPT !.pc = "lock", !.text = v])
    BY <1>5 DEF HealPatch
  <2>2. [job[h] EXCEPT !.pc = "lock", !.text = v] \in Job
    BY LatestIsTyped DEF Job, HPCs
  <2>. QED  BY <2>1, <2>2, ReportsIsTyped DEF Notes
<1>6. CASE HealLock(h)
  BY <1>6, ReportsIsTyped, MovesIsTyped DEF HealLock, Notes, HPCs
<1>7. CASE HealGuard(h)
  <2> DEFINE live == {v \in versions : /\ job[h].seen.status = "published"
                                       /\ v.no = job[h].seen.published}
             prior == IF live = {} THEN NoVersion ELSE CHOOSE v \in live : TRUE
             new == [job[h] EXCEPT !.pc = "apply", !.was = job[h].seen.status,
                                   !.prior = prior]
  <2>1. prior \in Version
    BY RowsAreTyped, LatestIsTyped
  <2>2. new \in Job
    BY <2>1 DEF Job, HPCs, Row
  <2>3. Ends(job[h], "skipped") \in Job
    BY EndsIsTyped DEF Notes
  <2>4. Becomes(h, Ends(job[h], "skipped")) \/ Moves(h, "raise") \/ Becomes(h, new)
    BY <1>7 DEF HealGuard
  <2>. QED  BY <2>2, <2>3, <2>4, MovesIsTyped DEF HPCs
<1>8. CASE HealApply(h)
  BY <1>8, EndsIsTyped, MovesIsTyped DEF HealApply, Notes, HPCs
<1>9. CASE HealRefresh(h)
  <2> DEFINE j == [job[h] EXCEPT !.seen = wf]
  <2>1. j \in Job
    BY DEF Job
  <2>2. Ends(j, "drafted") \in Job /\ [j EXCEPT !.pc = "verify"] \in Job
    BY <2>1, EndsIsTyped, AtIsTyped DEF Notes, HPCs
  <2>. QED  BY <1>9, <2>2 DEF HealRefresh
<1>10. CASE HealVerify(h)
  <2>1. \A v \in versions : [job[h] EXCEPT !.pc = "judge", !.latest = v.no] \in Job
    BY LatestIsTyped DEF Job, HPCs
  <2>2. [job[h] EXCEPT !.pc = "publish"] \in Job /\ Rollback(job[h]) \in Job
    BY AtIsTyped, RollbackIsTyped DEF HPCs
  <2>. QED  BY <1>10, <2>1, <2>2 DEF HealVerify
<1>11. CASE HealPasses(h) \/ HealVerdictFails(h) \/ HealJudgeRaises(h)
  <2>1. [job[h] EXCEPT !.pc = "publish"] \in Job /\ Rollback(job[h]) \in Job
        /\ Ends(job[h], "left_draft") \in Job
    BY AtIsTyped, EndsIsTyped, RollbackIsTyped DEF HPCs, Notes
  <2>. QED  BY <1>11, <2>1, MovesIsTyped DEF HealPasses, HealVerdictFails, HealJudgeRaises, Accept, HPCs
<1>12. CASE HealRefetch(h)
  BY <1>12, EndsIsTyped, MovesIsTyped DEF HealRefetch, HPCs, Notes
<1>13. CASE HealPublish(h)
  <2>1. \A v \in versions : [job[h] EXCEPT !.pc = "gate", !.latest = v.no] \in Job
    BY LatestIsTyped DEF Job, HPCs
  <2>. QED  BY <1>13, <2>1, PublishRaisedIsTyped DEF HealPublish
<1>14. CASE HealPublishGate(h) \/ HealRequirements(h)
  BY <1>14, MovesIsTyped, PublishRaisedIsTyped DEF HealPublishGate, HealRequirements, HPCs
<1>15. CASE HealPublishCommit(h)
  BY <1>15, EndsIsTyped DEF HealPublishCommit, Notes
<1>16. CASE HealRelease(h) \/ HealRaise(h)
  BY <1>16, MovesIsTyped, OverIsTyped DEF HealRelease, HealRaise, HPCs, Notes
<1>17. CASE HealRecord(h)
  <2>1. job[h].note \in Notes
    BY DEF Job
  <2>. QED  BY <1>17, <2>1, OverIsTyped DEF HealRecord
<1>. QED  BY <1>1, <1>2, <1>3, <1>4, <1>5, <1>6, <1>7, <1>8, <1>9, <1>10, <1>11, <1>12,
             <1>13, <1>14, <1>15, <1>16, <1>17 DEF HealJob

\* What a step of a job commits is typed, and so is the lock it leaves.
LEMMA JobCommitIsTyped ==
    ASSUME HealTypeOK, NEW h \in Healers, Flag(h) \/ HealJob(h),
           UNCHANGED <<connected, sess, fired, kept>>
    PROVE  /\ wf' \in Row /\ versions' \subseteq Version /\ tested' \subseteq Nat
           /\ lock' \in 0..LockTTL /\ cooldown' \in BOOLEAN
<1>. TypeOK /\ wf \in Row /\ versions \subseteq Version /\ tested \subseteq Nat
     /\ lock \in 0..LockTTL /\ cooldown \in BOOLEAN
  BY DEF HealTypeOK, TypeOK
<1>. job[h].seen \in Row /\ job[h].prior \in Version /\ job[h].latest \in Nat
  BY DEF HealTypeOK, Job
<1>1. CASE UNCHANGED <<db, lock, cooldown>>
  BY <1>1 DEF db
<1>2. CASE HealLock(h)
  BY <1>2, HealAssumption DEF HealLock, db
<1>3. CASE HealApply(h)
  <2>1. PICK name \in Names, body \in Bodies : CommitEdit(job[h].seen, name, body)
    BY <1>3 DEF HealApply, Version
  <2>. QED  BY <1>3, <2>1, CommitEditIsTyped DEF HealApply
<1>4. CASE HealPasses(h) \/ HealVerdictFails(h) \/ HealJudgeRaises(h)
  BY <1>4 DEF HealPasses, HealVerdictFails, HealJudgeRaises
<1>5. CASE HealPublishCommit(h)
  <2> DEFINE old == job[h].seen
             new == [old EXCEPT !.status = "published", !.published = job[h].latest]
  <2>1. new \in Row
    BY DEF Row
  <2>2. Flush(old, new) \in Row
    BY <2>1, FlushIsRow
  <2>. QED  BY <1>5, <2>2 DEF HealPublishCommit
<1>6. CASE HealRelease(h) \/ HealRaise(h) \/ HealRecord(h)
  <2>1. cooldown' \in BOOLEAN
    BY <1>6 DEF HealRelease, HealRaise, HealRecord
  <2>2. lock' \in 0..LockTTL
    BY <1>6, HealAssumption DEF HealRelease, HealRaise, HealRecord
  <2>. QED  BY <1>6, <2>1, <2>2 DEF HealRelease, HealRaise, HealRecord, db
<1>. QED  BY <1>1, <1>2, <1>3, <1>4, <1>5, <1>6
          DEF HealJob, OnlyJob, Flag, HealLoad, HealDiagnosisFails, HealNoPatch, HealPatch,
              HealGuard, HealRefresh, HealVerify, HealRefetch, HealPublish, HealPublishGate,
              HealRequirements

LEMMA HealTypeStep == HealTypeOK /\ [HealNext]_healVars => HealTypeOK'
<1> SUFFICES ASSUME HealTypeOK, [HealNext]_healVars PROVE HealTypeOK'
  OBVIOUS
<1>1. CASE UNCHANGED healVars
  BY <1>1 DEF healVars, vars, heal, HealTypeOK, TypeOK
<1>2. CASE RequestStep
  <2>1. TypeOK'
    BY <1>2, TypeStep DEF RequestStep, HealTypeOK
  <2>2. kept' \in BOOLEAN
    BY <1>2 DEF RequestStep, HealTypeOK
  <2>. QED  BY <1>2, <2>1, <2>2 DEF RequestStep, heal, HealTypeOK
<1>3. ASSUME UNCHANGED <<connected, sess, fired, kept>>,
             NEW h \in Healers, Flag(h) \/ HealJob(h)
      PROVE  HealTypeOK'
  BY <1>3, JobValueIsTyped, JobCommitIsTyped, JobStepIsTyped
<1>4. ASSUME UNCHANGED <<connected, sess, fired, kept>>,
             NEW h \in Healers, HealTimeout(h) \/ HealKill(h)
      PROVE  HealTypeOK'
  <2>1. Over("cancelled") \in Job /\ Becomes(h, Over("cancelled"))
    BY <1>4, OverIsTyped DEF Notes, HealTimeout, HealKill
  <2>2. wf' \in Row /\ versions' \subseteq Version /\ tested' \subseteq Nat
    BY <1>4 DEF HealTimeout, HealKill, OnlyJob, db, HealTypeOK, TypeOK
  <2>3. lock' \in 0..LockTTL
    BY <1>4, HealAssumption DEF HealTimeout, HealKill, OnlyJob, HealTypeOK
  <2>4. cooldown' \in BOOLEAN
    BY <1>4 DEF HealTimeout, HealKill, OnlyJob, HealTypeOK
  <2>. QED  BY <1>4, <2>1, <2>2, <2>3, <2>4, JobStepIsTyped
<1>5. CASE Tick /\ UNCHANGED <<connected, sess, fired, kept>>
  <2>1. ASSUME NEW h \in Healers PROVE job'[h] \in Job
    <3>1. job[h] \in Job /\ job[h].left \in 0..JobTimeout
      BY DEF HealTypeOK, Job
    <3>2. CASE At(h, "idle")
      BY <1>5, <3>1, <3>2 DEF Tick
    <3>3. CASE ~At(h, "idle")
      <4>1. job[h].left - 1 \in 0..JobTimeout
        BY <1>5, <3>1, <3>3, HealAssumption DEF Tick
      <4>2. [job[h] EXCEPT !.left = @ - 1] \in Job
        BY <3>1, <4>1 DEF Job
      <4>. QED  BY <1>5, <3>3, <4>2 DEF Tick
    <3>. QED  BY <3>2, <3>3
  <2>2. job' \in [Healers -> Job]
    BY <1>5, <2>1 DEF Tick
  <2>3. lock' \in 0..LockTTL
    BY <1>5, HealAssumption DEF Tick, Remaining, HealTypeOK
  <2>. QED  BY <1>5, <2>2, <2>3 DEF Tick, db, sess, HealTypeOK, TypeOK
<1>6. CASE CooldownEnds /\ UNCHANGED <<connected, sess, fired, kept>>
  BY <1>6 DEF CooldownEnds, db, sess, HealTypeOK, TypeOK
<1>. QED  BY <1>1, <1>2, <1>3, <1>4, <1>5, <1>6 DEF HealNext, HealStep

\* Rows, sessions and jobs hold values of their types, whatever races.
THEOREM HealTypeCorrect == HealSpec => []HealTypeOK
BY HealTypeInit, HealTypeStep, PTL DEF HealSpec

(***************************************************************************)
(* The lock                                                                *)
(***************************************************************************)

\* The lock outlives every job that holds it: more is left of its time to live
\* than of the job's time.
LockOutlivesJob == \A h \in Healers : InLock(h) => lock > job[h].left

LockInv == OneHealApplies /\ LockOutlivesJob

\* A job keeps its hold on the lock, or has none ...
Holds(h) == /\ lock' = lock
            /\ InLock(h)' => InLock(h) /\ job'[h].left = job[h].left
\* ... takes the lock while no one has it ...
Takes(h) == /\ lock = 0 /\ lock' = LockTTL
            /\ job'[h].left = job[h].left
\* ... or gives back what it holds.
Frees(h) == InLock(h) /\ ~InLock(h)'

\* Only one job moves at a time.
OthersStay(h) == \A g \in Healers : g # h => job'[g] = job[g]

LEMMA BecomesStays ==
    ASSUME HealTypeOK, NEW h \in Healers, NEW new, Becomes(h, new)
    PROVE  OthersStay(h) /\ job'[h] = new
BY DEF HealTypeOK, Becomes, OthersStay

LEMMA JobStays ==
    ASSUME HealTypeOK, NEW h \in Healers,
           Flag(h) \/ HealJob(h) \/ HealTimeout(h) \/ HealKill(h)
    PROVE  OthersStay(h)
<1>1. CASE Flag(h) \/ HealJob(h)
  BY <1>1, JobValueIsTyped, BecomesStays
<1>2. CASE HealTimeout(h) \/ HealKill(h)
  BY <1>2, BecomesStays DEF HealTimeout, HealKill
<1>. QED  BY <1>1, <1>2

\* The values a job takes inside the lock leave its time alone.
LEMMA EndsKeeps ==
    ASSUME NEW j \in Job, NEW note
    PROVE  Ends(j, note).pc = "release" /\ Ends(j, note).left = j.left
BY DEF Ends, Job

LEMMA RollbackKeeps ==
    ASSUME NEW j \in Job
    PROVE  Rollback(j).pc \in {"release", "refetch"} /\ Rollback(j).left = j.left
<1>1. /\ [j EXCEPT !.pc = "refetch", !.restoring = TRUE].pc = "refetch"
      /\ [j EXCEPT !.pc = "refetch", !.restoring = TRUE].left = j.left
  BY DEF Job
<1>. QED  BY <1>1, EndsKeeps DEF Rollback

\* Every step of a job outside of taking and giving back the lock holds on.
LEMMA LockShape ==
    ASSUME HealTypeOK, NEW h \in Healers,
           Flag(h) \/ HealJob(h) \/ HealTimeout(h) \/ HealKill(h)
    PROVE  Holds(h) \/ Takes(h) \/ Frees(h)
<1>. job[h] \in Job
  BY DEF HealTypeOK
<1>s. ASSUME NEW new, Becomes(h, new) PROVE job'[h] = new
  BY <1>s, BecomesStays
<1>r. ASSUME PublishRaised(h) PROVE job'[h].left = job[h].left
  BY <1>r, <1>s, EndsKeeps, RollbackKeeps DEF PublishRaised
<1>m. ASSUME NEW label \in HPCs, Moves(h, label)
      PROVE  job'[h].pc = label /\ job'[h].left = job[h].left
  BY <1>m, <1>s DEF Moves, Job
<1>1. CASE Flag(h) \/ HealLoad(h) \/ HealDiagnosisFails(h) \/ HealNoPatch(h) \/ HealRecord(h)
           \/ HealKill(h)
  <2>1. job'[h].pc \in {"load", "patch", "idle", "record"}
    <3>1. CASE Flag(h)
      BY <1>s, <3>1 DEF Flag, NewJob
    <3>2. CASE HealLoad(h)
      <4>1. \/ Becomes(h, Over("raised"))
            \/ Becomes(h, [job[h] EXCEPT !.pc = "patch", !.seen = wf, !.base = wf.current])
        BY <3>2 DEF HealLoad
      <4>2. ASSUME Becomes(h, [job[h] EXCEPT !.pc = "patch", !.seen = wf, !.base = wf.current])
            PROVE  job'[h].pc = "patch"
        <5>1. job'[h] = [job[h] EXCEPT !.pc = "patch", !.seen = wf, !.base = wf.current]
          BY <1>s, <4>2
        <5>. QED  BY <5>1 DEF Job
      <4>3. ASSUME Becomes(h, Over("raised")) PROVE job'[h].pc = "idle"
        BY <1>s, <4>3 DEF Over, NewJob
      <4>. QED  BY <4>1, <4>2, <4>3
    <3>3. CASE HealNoPatch(h)
      BY <1>s, <3>3 DEF HealNoPatch, Reports, Job
    <3>4. CASE HealDiagnosisFails(h) \/ HealRecord(h) \/ HealKill(h)
      <4>1. \E note : Becomes(h, Over(note))
        BY <3>4 DEF HealDiagnosisFails, HealRecord, HealKill
      <4>. QED  BY <1>s, <4>1 DEF Over, NewJob
    <3>. QED  BY <1>1, <3>1, <3>2, <3>3, <3>4
  <2>. QED  BY <1>1, <2>1 DEF Holds, InLock, Flag, HealLoad, HealDiagnosisFails,
               HealNoPatch, HealRecord, HealKill, OnlyJob
<1>2. CASE HealPatch(h)
  <2>1. job'[h].pc \in {"lock", "record"}
    BY <1>2, <1>s DEF HealPatch, Reports, Job
  <2>. QED  BY <1>2, <2>1 DEF Holds, InLock, HealPatch, OnlyJob
<1>3. CASE HealLock(h)
  <2>1. CASE LockFree
    BY <1>3, <1>m, <2>1 DEF HealLock, LockFree, Takes, HPCs
  <2>2. CASE ~LockFree
    <3>1. job'[h].pc = "record" /\ lock' = lock
      BY <1>3, <1>s, <2>2 DEF HealLock, Reports, Job
    <3>. QED  BY <3>1 DEF Holds, InLock
  <2>. QED  BY <2>1, <2>2
<1>4. CASE HealGuard(h)
  <2>1. job'[h].left = job[h].left
    <3>1. \/ Becomes(h, Ends(job[h], "skipped"))
          \/ Moves(h, "raise")
          \/ \E was, prior : Becomes(h, [job[h] EXCEPT !.pc = "apply", !.was = was, !.prior = prior])
      BY <1>4 DEF HealGuard
    <3>2. ASSUME NEW was, NEW prior,
                 Becomes(h, [job[h] EXCEPT !.pc = "apply", !.was = was, !.prior = prior])
          PROVE  job'[h].left = job[h].left
      <4>1. job'[h] = [job[h] EXCEPT !.pc = "apply", !.was = was, !.prior = prior]
        BY <1>s, <3>2
      <4>. QED  BY <4>1 DEF Job
    <3>3. CASE Becomes(h, Ends(job[h], "skipped"))
      BY <1>s, <3>3, EndsKeeps
    <3>4. CASE Moves(h, "raise")
      BY <1>m, <3>4 DEF HPCs
    <3>. QED  BY <3>1, <3>2, <3>3, <3>4
  <2>. QED  BY <1>4, <2>1 DEF Holds, InLock, At, HealGuard, OnlyJob
<1>5. CASE HealApply(h)
  <2>1. job'[h].left = job[h].left
    BY <1>5, <1>s, <1>m, EndsKeeps DEF HealApply, HPCs
  <2>. QED  BY <1>5, <2>1 DEF Holds, InLock, At, HealApply
<1>6. CASE HealRefresh(h)
  <2> DEFINE j == [job[h] EXCEPT !.seen = wf]
             k == [j EXCEPT !.pc = "verify"]
  <2>1. j \in Job /\ j.left = job[h].left
    BY DEF HealTypeOK, TypeOK, Job
  <2>2. k.left = j.left
    BY <2>1 DEF Job
  <2>3. job'[h] = Ends(j, "drafted") \/ job'[h] = k
    BY <1>6, <1>s DEF HealRefresh
  <2>4. job'[h].left = job[h].left
    <3>. HIDE DEF j, k
    <3>. QED  BY <2>1, <2>2, <2>3, EndsKeeps
  <2>. QED  BY <1>6, <2>4 DEF Holds, InLock, At, HealRefresh, OnlyJob
<1>7. CASE HealVerify(h) \/ HealPublish(h)
  <2>1. ASSUME NEW label, NEW no, Becomes(h, [job[h] EXCEPT !.pc = label, !.latest = no])
        PROVE  job'[h].left = job[h].left
    <3>1. job'[h] = [job[h] EXCEPT !.pc = label, !.latest = no]
      BY <1>s, <2>1
    <3>. QED  BY <3>1 DEF Job
  <2>2. CASE HealVerify(h)
    <3>1. \/ Moves(h, "publish")
          \/ Becomes(h, Rollback(job[h]))
          \/ \E no : Becomes(h, [job[h] EXCEPT !.pc = "judge", !.latest = no])
      BY <2>2 DEF HealVerify, Moves
    <3>2. ASSUME Becomes(h, Rollback(job[h])) PROVE job'[h].left = job[h].left
      BY <1>s, <3>2, RollbackKeeps
    <3>3. ASSUME Moves(h, "publish") PROVE job'[h].left = job[h].left
      BY <1>m, <3>3 DEF HPCs
    <3>4. job'[h].left = job[h].left
      BY <2>1, <3>1, <3>2, <3>3
    <3>5. lock' = lock /\ job[h].pc = "verify"
      BY <2>2 DEF HealVerify, OnlyJob, At
    <3>. QED  BY <3>4, <3>5 DEF Holds, InLock
  <2>3. CASE HealPublish(h)
    <3>1. \/ PublishRaised(h)
          \/ \E no : Becomes(h, [job[h] EXCEPT !.pc = "gate", !.latest = no])
      BY <2>3 DEF HealPublish
    <3>. QED  BY <1>r, <2>1, <2>3, <3>1 DEF Holds, InLock, At, HealPublish, OnlyJob
  <2>. QED  BY <1>7, <2>2, <2>3
<1>8. CASE HealPasses(h) \/ HealVerdictFails(h) \/ HealJudgeRaises(h)
  <2>1. \/ Moves(h, "publish") \/ Moves(h, "raise")
        \/ Becomes(h, Ends(job[h], "left_draft"))
        \/ Becomes(h, Rollback(job[h]))
    BY <1>8 DEF HealPasses, HealVerdictFails, HealJudgeRaises, Accept, Moves
  <2>2. job'[h].left = job[h].left
    <3>1. CASE Moves(h, "publish") \/ Moves(h, "raise")
      BY <1>m, <3>1 DEF HPCs
    <3>2. CASE Becomes(h, Ends(job[h], "left_draft"))
      BY <1>s, <3>2, EndsKeeps
    <3>3. CASE Becomes(h, Rollback(job[h]))
      BY <1>s, <3>3, RollbackKeeps
    <3>. QED  BY <2>1, <3>1, <3>2, <3>3
  <2>. QED  BY <1>8, <2>2 DEF Holds, InLock, At, HealPasses, HealVerdictFails, HealJudgeRaises
<1>9. CASE HealRefetch(h) \/ HealPublishGate(h) \/ HealRequirements(h) \/ HealPublishCommit(h)
  <2>1. job'[h].left = job[h].left
    BY <1>9, <1>s, <1>m, <1>r, EndsKeeps
       DEF HealRefetch, HealPublishGate, HealRequirements, HealPublishCommit, HPCs
  <2>. QED  BY <1>9, <2>1 DEF Holds, InLock, At, HealRefetch, HealPublishGate,
               HealRequirements, HealPublishCommit, OnlyJob
<1>10. CASE HealRelease(h) \/ HealRaise(h)
  <2>1. job'[h].pc \in {"record", "idle"}
    BY <1>10, <1>s, <1>m, NewJobIsTyped DEF HealRelease, HealRaise, HPCs, Over, NewJob, Job
  <2>. QED  BY <1>10, <2>1 DEF Frees, InLock, At, HealRelease, HealRaise
<1>11. CASE HealTimeout(h)
  <2>1. job'[h].pc = "idle"
    BY <1>11, <1>s, NewJobIsTyped DEF HealTimeout, Over, NewJob, Job
  <2>. QED  BY <1>11, <2>1 DEF Frees, Holds, InLock, HealTimeout
<1>. QED  BY <1>1, <1>2, <1>3, <1>4, <1>5, <1>6, <1>7, <1>8, <1>9, <1>10, <1>11 DEF HealJob

\* Neither a job's step nor the passing of time lets a second job in.
LEMMA LockStep == HealTypeOK /\ LockInv /\ [HealNext]_healVars => LockInv'
<1> SUFFICES ASSUME HealTypeOK, LockInv, [HealNext]_healVars PROVE LockInv'
  OBVIOUS
<1>. lock \in Nat /\ LockTTL \in Nat /\ JobTimeout \in Nat /\ JobTimeout < LockTTL
  BY HealAssumption DEF HealTypeOK
<1>t. \A h \in Healers : job[h].left \in Nat /\ job[h].left <= JobTimeout
  BY DEF HealTypeOK, Job
<1>1. CASE UNCHANGED <<job, lock>>
  BY <1>1 DEF LockInv, OneHealApplies, LockOutlivesJob, InLock
<1>2. ASSUME NEW h \in Healers, Flag(h) \/ HealJob(h) \/ HealTimeout(h) \/ HealKill(h)
      PROVE  LockInv'
  <2>1. OthersStay(h)
    BY <1>2, JobStays
  <2>2. \A g \in Healers : g # h => (InLock(g)' <=> InLock(g)) /\ job'[g].left = job[g].left
    BY <2>1 DEF OthersStay, InLock
  <2>3. CASE Holds(h)
    BY <2>2, <2>3 DEF Holds, LockInv, OneHealApplies, LockOutlivesJob
  <2>4. CASE Takes(h)
    <3>1. \A g \in Healers : ~InLock(g)
      BY <1>t, <2>4 DEF Takes, LockInv, LockOutlivesJob
    <3>. QED  BY <1>t, <2>2, <2>4, <3>1 DEF Takes, LockInv, OneHealApplies, LockOutlivesJob
  <2>5. CASE Frees(h)
    <3>1. \A g \in Healers : ~InLock(g)'
      BY <2>2, <2>5 DEF Frees, LockInv, OneHealApplies
    <3>. QED  BY <3>1 DEF LockInv, OneHealApplies, LockOutlivesJob
  <2>. QED  BY <1>2, <2>3, <2>4, <2>5, LockShape
<1>3. CASE Tick
  <2>1. ASSUME NEW h \in Healers
        PROVE  /\ InLock(h)' <=> InLock(h)
               /\ InLock(h) => lock' > job'[h].left
    <3>1. job[h] \in Job
      BY DEF HealTypeOK
    <3>2. CASE At(h, "idle")
      BY <1>3, <3>2 DEF Tick, At, InLock
    <3>3. CASE ~At(h, "idle")
      <4>1. job'[h] = [job[h] EXCEPT !.left = @ - 1] /\ job[h].left > 0
        BY <1>3, <3>3 DEF Tick
      <4>2. job'[h].pc = job[h].pc /\ job'[h].left = job[h].left - 1
        BY <3>1, <4>1 DEF Job
      <4>3. InLock(h) => lock' = lock - 1
        BY <1>3, <1>t DEF Tick, Remaining, LockInv, LockOutlivesJob
      <4>. QED  BY <1>t, <4>2, <4>3 DEF InLock, LockInv, LockOutlivesJob
    <3>. QED  BY <3>2, <3>3
  <2>. QED  BY <2>1 DEF LockInv, OneHealApplies, LockOutlivesJob
<1>. QED  BY <1>1, <1>2, <1>3 DEF HealNext, HealStep, RequestStep, CooldownEnds, healVars, heal

\* Heals of overlapping passes apply one at a time, although the lock is
\* deleted without looking at who set it, expires on its own, and jobs are
\* cancelled and killed while they hold it.
THEOREM HealsExclude == HealSpec => []OneHealApplies
<1>1. HealInit => LockInv
  BY NewJobIsTyped DEF HealInit, LockInv, OneHealApplies, LockOutlivesJob, InLock, NewJob
<1>2. LockInv => OneHealApplies
  BY DEF LockInv
<1>. QED  BY <1>1, <1>2, HealTypeInit, HealTypeStep, LockStep, PTL DEF HealSpec

(***************************************************************************)
(* What a job relies on while requests commit                              *)
(***************************************************************************)

\* Where a job relies on more than the row it loaded.
Relying == {"lock", "guard", "apply", "refetch", "judge", "requirements", "publish_commit"}

\* The row a job holds is an earlier one; the definition it patches is at least
\* as new as that row; the version it runs exists; what it found tested is
\* tested.  Only a rollback fetches the workflow a second time.
JobInv(j, current, passed) ==
    /\ j.seen.current \in 1..current
    /\ j.pc \in {"lock", "guard", "apply"} /\ ~j.restoring
          => j.text.no \in j.seen.current..current
    /\ j.pc = "refetch" => j.restoring
    /\ j.pc = "judge" => j.latest \in 1..current
    /\ j.pc \in {"requirements", "publish_commit"} => j.latest \in passed

HealInv == /\ HealTypeOK
           /\ Inv
           /\ \A h \in Healers : JobInv(job[h], wf.current, tested)

\* Later commits and test runs take nothing of this away.
LEMMA JobInvGrows ==
    ASSUME NEW j \in Job, NEW current \in Nat, NEW passed, JobInv(j, current, passed),
           NEW current2 \in Nat, NEW passed2, current <= current2, passed \subseteq passed2
    PROVE  JobInv(j, current2, passed2)
<1>. j.seen.current \in Nat /\ j.text.no \in Nat /\ j.latest \in Nat
  BY DEF Job, Row, Version
<1>. QED  BY DEF JobInv

\* A job that has its outcome relies on nothing but the row it holds, and so
\* does one that starts to roll back.
LEMMA EndsRests ==
    ASSUME NEW j \in Job, NEW note, NEW current, NEW passed, j.seen.current \in 1..current
    PROVE  JobInv(Ends(j, note), current, passed)
BY DEF Ends, Job, JobInv

LEMMA RollbackRests ==
    ASSUME NEW j \in Job, NEW current, NEW passed, j.seen.current \in 1..current
    PROVE  JobInv(Rollback(j), current, passed)
<1> DEFINE k == [j EXCEPT !.pc = "refetch", !.restoring = TRUE]
<1>1. JobInv(k, current, passed)
  BY DEF Job, JobInv
<1>. HIDE DEF k
<1>2. Rollback(j) \in {Ends(j, "left_draft"), Ends(j, "rolled_back"), k}
  BY DEF Rollback, k
<1>. QED  BY <1>1, <1>2, EndsRests

LEMMA OverRests ==
    ASSUME NEW note, NEW current \in Nat, current >= 1, NEW passed
    PROVE  JobInv(Over(note), current, passed)
BY DEF Over, NewJob, InitRow, JobInv

\* A job that moves on to where it relies on nothing new.
LEMMA MoveRests ==
    ASSUME NEW j \in Job, NEW label \in HPCs \ Relying, NEW current, NEW passed,
           j.seen.current \in 1..current
    PROVE  JobInv([j EXCEPT !.pc = label], current, passed)
BY DEF Job, JobInv, Relying

\* The version a job reads as the latest is the current one.
LEMMA LatestIsCurrent ==
    ASSUME Inv, NEW v \in versions, IsLatest(v)
    PROVE  v.no = wf.current
<1>. wf.current \in Nat /\ wf.current >= 1 /\ VersionsAreLog
  BY DEF Inv, TypeOK, Row, RowInv
<1>1. PICK w \in versions : w.no = wf.current
  BY DEF VersionsAreLog
<1>2. v.no \in 1..wf.current /\ w.no <= v.no
  BY <1>1 DEF VersionsAreLog, IsLatest
<1>. QED  BY <1>1, <1>2

\* A job's step leaves it with what it relies on.
LEMMA JobInvStep ==
    ASSUME HealInv, NEW h \in Healers,
           Flag(h) \/ HealJob(h) \/ HealTimeout(h) \/ HealKill(h)
    PROVE  JobInv(job'[h], wf.current, tested)
<1> DEFINE Keeps == JobInv(job'[h], wf.current, tested)
           j == job[h]
<1>. HealTypeOK /\ Inv /\ j \in Job /\ JobInv(j, wf.current, tested)
  BY DEF HealInv, HealTypeOK
<1>. wf.current \in Nat /\ wf.current >= 1 /\ wf \in Row
  BY DEF Inv, TypeOK, Row, RowInv
<1>. j.seen.current \in 1..wf.current
  BY DEF JobInv
<1>s. ASSUME NEW new, Becomes(h, new) PROVE job'[h] = new
  BY <1>s, BecomesStays
<1>m. ASSUME NEW label \in HPCs \ Relying, Moves(h, label) PROVE Keeps
  BY <1>m, <1>s, MoveRests DEF Moves
<1>e. ASSUME NEW note, Becomes(h, Ends(j, note)) PROVE Keeps
  BY <1>e, <1>s, EndsRests
<1>o. ASSUME NEW note, Becomes(h, Over(note)) PROVE Keeps
  BY <1>o, <1>s, OverRests
<1>r. ASSUME Becomes(h, Rollback(j)) PROVE Keeps
  BY <1>r, <1>s, RollbackRests
<1>p. ASSUME PublishRaised(h) PROVE Keeps
  BY <1>p, <1>e, <1>r DEF PublishRaised
<1>q. ASSUME NEW note, Reports(h, note) PROVE Keeps
  <2>1. job'[h] = [j EXCEPT !.pc = "record", !.note = note]
    BY <1>q, <1>s DEF Reports
  <2>. QED  BY <2>1 DEF Job, JobInv
<1>1. CASE Flag(h)
  <2>1. job'[h] = [NewJob EXCEPT !.pc = "load", !.policy = Effective(wf.self_heal)]
    BY <1>1, <1>s DEF Flag
  <2>. QED  BY <2>1 DEF NewJob, InitRow, JobInv
<1>2. CASE HealLoad(h)
  <2>1. ASSUME Becomes(h, [j EXCEPT !.pc = "patch", !.seen = wf, !.base = wf.current])
        PROVE  Keeps
    <3>1. job'[h] = [j EXCEPT !.pc = "patch", !.seen = wf, !.base = wf.current]
      BY <2>1, <1>s
    <3>. QED  BY <3>1 DEF Job, JobInv
  <2>. QED  BY <1>2, <1>o, <2>1 DEF HealLoad
<1>3. CASE HealDiagnosisFails(h) \/ HealNoPatch(h) \/ HealRecord(h) \/ HealRaise(h)
           \/ HealTimeout(h) \/ HealKill(h)
  BY <1>3, <1>o, <1>q DEF HealDiagnosisFails, HealNoPatch, HealRecord, HealRaise,
                          HealTimeout, HealKill
<1>4. CASE HealPatch(h)
  <2>1. ASSUME NEW v \in versions, IsLatest(v), Becomes(h, [j EXCEPT !.pc = "lock", !.text = v])
        PROVE  Keeps
    <3>1. job'[h] = [j EXCEPT !.pc = "lock", !.text = v] /\ v.no = wf.current
      BY <2>1, <1>s, LatestIsCurrent
    <3>. QED  BY <3>1 DEF Job, JobInv
  <2>. QED  BY <1>4, <1>q, <2>1 DEF HealPatch
<1>5. CASE HealLock(h)
  <2>1. ASSUME Moves(h, "guard") PROVE Keeps
    <3>1. job'[h] = [j EXCEPT !.pc = "guard"] /\ j.pc = "lock"
      BY <1>5, <2>1, <1>s DEF Moves, HealLock, At
    <3>. QED  BY <3>1 DEF Job, JobInv
  <2>. QED  BY <1>5, <1>q, <2>1 DEF HealLock
<1>6. CASE HealGuard(h)
  <2>1. ASSUME NEW was, NEW prior,
               Becomes(h, [j EXCEPT !.pc = "apply", !.was = was, !.prior = prior])
        PROVE  Keeps
    <3>1. job'[h] = [j EXCEPT !.pc = "apply", !.was = was, !.prior = prior] /\ j.pc = "guard"
      BY <1>6, <2>1, <1>s DEF HealGuard, At
    <3>. QED  BY <3>1 DEF Job, JobInv
  <2>2. \/ Becomes(h, Ends(j, "skipped"))
        \/ Moves(h, "raise")
        \/ \E was, prior : Becomes(h, [j EXCEPT !.pc = "apply", !.was = was, !.prior = prior])
    BY <1>6 DEF HealGuard
  <2>. QED  BY <1>e, <1>m, <2>1, <2>2 DEF HPCs, Relying
<1>7. CASE HealApply(h)
  BY <1>7, <1>e, <1>m DEF HealApply, HPCs, Relying
<1>8. CASE HealRefresh(h)
  <2> DEFINE k == [j EXCEPT !.seen = wf]
  <2>1. k \in Job /\ k.seen.current \in 1..wf.current
    BY DEF Job
  <2>2. job'[h] = Ends(k, "drafted") \/ job'[h] = [k EXCEPT !.pc = "verify"]
    BY <1>8, <1>s DEF HealRefresh
  <2>3. "verify" \in HPCs \ Relying
    BY DEF HPCs, Relying
  <2>. HIDE DEF k
  <2>. QED  BY <2>1, <2>2, <2>3, EndsRests, MoveRests
<1>9. CASE HealVerify(h)
  <2>1. ASSUME NEW v \in versions, IsLatest(v),
               Becomes(h, [j EXCEPT !.pc = "judge", !.latest = v.no])
        PROVE  Keeps
    <3>1. job'[h] = [j EXCEPT !.pc = "judge", !.latest = v.no] /\ v.no = wf.current
      BY <2>1, <1>s, LatestIsCurrent
    <3>. QED  BY <3>1 DEF Job, JobInv
  <2>. QED  BY <1>9, <1>m, <1>r, <2>1 DEF HealVerify, Moves, HPCs, Relying
<1>10. CASE HealPasses(h) \/ HealVerdictFails(h) \/ HealJudgeRaises(h)
  <2>1. \/ Moves(h, "publish") \/ Moves(h, "raise")
        \/ Becomes(h, Ends(j, "left_draft"))
        \/ Becomes(h, Rollback(j))
    BY <1>10 DEF HealPasses, HealVerdictFails, HealJudgeRaises, Accept, Moves
  <2>. QED  BY <1>m, <1>e, <1>r, <2>1 DEF HPCs, Relying
<1>11. CASE HealRefetch(h)
  <2>1. ASSUME Moves(h, "apply") PROVE Keeps
    <3>1. job'[h] = [j EXCEPT !.pc = "apply"] /\ j.pc = "refetch"
      BY <1>11, <2>1, <1>s DEF Moves, HealRefetch, At
    <3>. QED  BY <3>1 DEF Job, JobInv
  <2>. QED  BY <1>11, <1>e, <2>1 DEF HealRefetch
<1>12. CASE HealPublish(h)
  <2>1. ASSUME NEW no, Becomes(h, [j EXCEPT !.pc = "gate", !.latest = no]) PROVE Keeps
    <3>1. job'[h] = [j EXCEPT !.pc = "gate", !.latest = no]
      BY <2>1, <1>s
    <3>. QED  BY <3>1 DEF Job, JobInv
  <2>. QED  BY <1>12, <1>p, <2>1 DEF HealPublish
<1>13. CASE HealPublishGate(h)
  <2>1. ASSUME Moves(h, "requirements"), Validated(j.latest) PROVE Keeps
    <3>1. job'[h] = [j EXCEPT !.pc = "requirements"]
      BY <2>1, <1>s DEF Moves
    <3>. QED  BY <2>1, <3>1 DEF Job, JobInv, Validated
  <2>. QED  BY <1>13, <1>p, <2>1 DEF HealPublishGate
<1>14. CASE HealRequirements(h)
  <2>1. ASSUME Moves(h, "publish_commit") PROVE Keeps
    <3>1. job'[h] = [j EXCEPT !.pc = "publish_commit"] /\ j.pc = "requirements"
      BY <1>14, <2>1, <1>s DEF Moves, HealRequirements, At
    <3>. QED  BY <3>1 DEF Job, JobInv
  <2>. QED  BY <1>14, <1>p, <2>1 DEF HealRequirements
<1>15. CASE HealPublishCommit(h)
  BY <1>15, <1>e DEF HealPublishCommit
<1>16. CASE HealRelease(h)
  BY <1>16, <1>m DEF HealRelease, HPCs, Relying
<1>. QED  BY <1>1, <1>2, <1>3, <1>4, <1>5, <1>6, <1>7, <1>8, <1>9, <1>10, <1>11, <1>12,
             <1>13, <1>14, <1>15, <1>16 DEF HealJob

(***************************************************************************)
(* What a job commits                                                      *)
(***************************************************************************)

\* A commit beside idle requests keeps their invariant if it keeps the log and
\* goes live with a tested version only.
LEMMA CommitKeeps ==
    ASSUME Inv, TypeOK', UNCHANGED <<sess, fired>>, VersionsAreLog', BodiesKept,
           Edits \/ Releases \/ Completes,
           wf'.status = "published" => wf.status = "published" \/ tested # {}
    PROVE  Inv'
<1>. wf.current \in Nat /\ wf.current >= 1 /\ TypeOK
  BY DEF Inv, TypeOK, Row, RowInv
<1>1. wf'.current \in {wf.current, wf.current + 1} /\ tested \subseteq tested'
      /\ wf'.published \in {0, wf.published} \cup tested
  BY DEF Edits, Releases, Completes
<1>2. Grows
  BY <1>1 DEF Grows
<1>3. \A s \in Sessions : SessionInv(s)'
  BY <1>2, SessionKeeps DEF Inv, sess
<1>4. RowInv'
  <2>1. \A tst \in tested' : tst \in 1..wf'.current
    BY <1>1 DEF Edits, Releases, Completes, Inv, RowInv
  <2>. QED  BY <1>1, <2>1 DEF Inv, RowInv
<1>5. PublishedIsTested'
  BY <1>1 DEF Inv, PublishedIsTested
<1>6. ActionsFollowTests'
  BY <1>1 DEF Inv, ActionsFollowTests
<1>. QED  BY <1>3, <1>4, <1>5, <1>6 DEF Inv

\* A job's statement is an edit, a release, the end of a run or nothing that the
\* ledger shows.
LEMMA JobIsCommit ==
    ASSUME HealInv, NEW h \in Healers, Flag(h) \/ HealJob(h) \/ HealTimeout(h) \/ HealKill(h)
    PROVE  /\ Edits \/ Releases \/ Completes
           /\ VersionsAreLog' /\ BodiesKept
           /\ wf'.status = "published" => wf.status = "published" \/ tested # {}
<1> DEFINE j == job[h]
           Goal == /\ Edits \/ Releases \/ Completes
                   /\ VersionsAreLog' /\ BodiesKept
                   /\ wf'.status = "published" => wf.status = "published" \/ tested # {}
<1>. Inv /\ TypeOK /\ VersionsAreLog /\ RowInv /\ JobInv(j, wf.current, tested)
  BY DEF HealInv, HealTypeOK, Inv
<1>. j.seen \in Row /\ j.latest \in Nat /\ j.prior \in Version
  BY DEF HealInv, HealTypeOK, Job
<1>. wf \in Row /\ wf.current \in Nat /\ j.seen.current \in Nat
  BY DEF TypeOK, Row
<1>1. CASE UNCHANGED db
  BY <1>1 DEF db, Releases, VersionsAreLog, BodiesKept
<1>2. CASE HealApply(h)
  <2>1. PICK name \in Names, body \in Bodies : CommitEdit(j.seen, name, body)
    BY <1>2 DEF HealApply, Version
  <2>2. j.seen.current <= wf.current
    BY DEF JobInv
  <2>. QED  BY <1>2, <2>1, <2>2, EditAppends DEF HealApply, Edits, Releases
<1>3. CASE HealPasses(h) \/ HealVerdictFails(h) \/ HealJudgeRaises(h)
  <2>1. j.latest \in 1..wf.current
    BY <1>3 DEF HealPasses, HealVerdictFails, HealJudgeRaises, At, JobInv
  <2>2. wf' = wf /\ versions' = versions /\ tested' \in {tested, tested \cup {j.latest}}
    BY <1>3 DEF HealPasses, HealVerdictFails, HealJudgeRaises
  <2>. QED  BY <2>1, <2>2 DEF Releases, Completes, VersionsAreLog, BodiesKept
<1>4. CASE HealPublishCommit(h)
  <2> DEFINE new == [j.seen EXCEPT !.status = "published", !.published = j.latest]
  <2>1. j.latest \in tested
    BY <1>4 DEF HealPublishCommit, At, JobInv
  <2>2. new.current = j.seen.current /\ new.published = j.latest
    BY DEF Row
  <2>3. wf' = Flush(j.seen, new) /\ versions' = versions /\ tested' = tested
    BY <1>4 DEF HealPublishCommit
  <2>. HIDE DEF new
  <2>4. wf'.current = wf.current /\ wf'.published \in {wf.published, j.latest}
    BY <2>2, <2>3 DEF Flush, Written
  <2>. QED  BY <2>1, <2>3, <2>4 DEF Releases, VersionsAreLog, BodiesKept
<1>. QED  BY <1>1, <1>2, <1>3, <1>4
          DEF HealJob, OnlyJob, Flag, HealLoad, HealDiagnosisFails, HealNoPatch, HealPatch,
              HealLock, HealGuard, HealRefresh, HealVerify, HealRefetch, HealPublish,
              HealPublishGate, HealRequirements, HealRelease, HealRecord, HealRaise,
              HealTimeout, HealKill

\* Whoever moves, the rows change as the ledger allows.
LEMMA HealIsCommit ==
    ASSUME HealInv, [HealNext]_healVars
    PROVE  /\ Inv' /\ BodiesKept
           /\ Edits \/ Releases \/ Completes
<1>. Inv /\ HealTypeOK
  BY DEF HealInv
<1>. TypeOK'
  BY HealTypeStep DEF HealTypeOK
<1>1. CASE [Next]_vars
  BY <1>1, InvStep, BodiesStep, RequestIsCommit
<1>2. ASSUME NEW h \in Healers, Flag(h) \/ HealJob(h) \/ HealTimeout(h) \/ HealKill(h),
             UNCHANGED <<connected, sess, fired, kept>>
      PROVE  Inv' /\ BodiesKept /\ (Edits \/ Releases \/ Completes)
  BY <1>2, JobIsCommit, CommitKeeps
<1>3. CASE (Tick \/ CooldownEnds) /\ UNCHANGED <<connected, sess, fired, kept>>
  <2>1. UNCHANGED vars
    BY <1>3 DEF Tick, CooldownEnds, vars, db, sess
  <2>. QED  BY <1>1, <2>1
<1>. QED  BY <1>1, <1>2, <1>3 DEF HealNext, RequestStep, HealStep, healVars

LEMMA HealInvStep == HealInv /\ [HealNext]_healVars => HealInv'
<1> SUFFICES ASSUME HealInv, [HealNext]_healVars PROVE HealInv'
  OBVIOUS
<1>. HealTypeOK /\ HealTypeOK' /\ Inv /\ Inv'
  BY HealTypeStep, HealIsCommit DEF HealInv
<1>1. wf.current \in Nat /\ wf'.current \in Nat /\ wf'.current >= wf.current
      /\ tested \subseteq tested'
  BY HealIsCommit DEF Inv, TypeOK, Row, Edits, Releases, Completes
<1>2. ASSUME NEW h \in Healers, JobInv(job'[h], wf.current, tested)
      PROVE  JobInv(job'[h], wf'.current, tested')
  <2>1. job'[h] \in Job
    BY DEF HealTypeOK
  <2>. QED  BY <1>1, <1>2, <2>1, JobInvGrows
<1>3. ASSUME NEW h \in Healers PROVE JobInv(job'[h], wf.current, tested)
  <2>. job[h] \in Job /\ JobInv(job[h], wf.current, tested)
    BY DEF HealInv, HealTypeOK
  <2>1. CASE UNCHANGED job
    BY <2>1
  <2>2. ASSUME NEW g \in Healers, Flag(g) \/ HealJob(g) \/ HealTimeout(g) \/ HealKill(g)
        PROVE  JobInv(job'[h], wf.current, tested)
    BY <2>2, JobInvStep, JobStays DEF OthersStay
  <2>3. CASE Tick
    <3>1. job'[h] = job[h] \/ job'[h] = [job[h] EXCEPT !.left = @ - 1]
      BY <2>3 DEF Tick
    <3>. QED  BY <3>1 DEF Job, JobInv
  <2>. QED  BY <2>1, <2>2, <2>3 DEF HealNext, HealStep, RequestStep, CooldownEnds,
                                   healVars, heal
<1>. QED  BY <1>2, <1>3 DEF HealInv

LEMMA HealInvInit == HealInit => HealInv
<1> SUFFICES ASSUME HealInit PROVE HealInv
  OBVIOUS
<1>1. HealTypeOK /\ Inv
  BY HealTypeInit, InvInit DEF HealInit
<1>2. \A h \in Healers : JobInv(job[h], wf.current, tested)
  BY DEF HealInit, Init, NewJob, InitRow, JobInv
<1>. QED  BY <1>1, <1>2 DEF HealInv

THEOREM HealInvariance == HealSpec => []HealInv
BY HealInvInit, HealInvStep, PTL DEF HealSpec

\* What holds of requests alone holds beside any number of heal jobs, killed and
\* timed out ones included: no edit is lost, only tested versions are published,
\* action nodes act after a test, and no version changes what it does (services/healing_service.py).
THEOREM HealsKeepTheLifecycle ==
    HealSpec => /\ [](VersionsAreLog /\ PublishedIsTested /\ ActionsFollowTests)
                /\ BodiesImmutable
<1>1. HealInv => VersionsAreLog /\ PublishedIsTested /\ ActionsFollowTests
  BY DEF HealInv, Inv
<1>2. HealInv /\ [HealNext]_healVars => [BodiesKept]_vars
  BY HealIsCommit
<1>. QED  BY <1>1, <1>2, HealInvariance, PTL DEF HealSpec, BodiesImmutable, BodiesKept

\* The unique constraint does what the staleness guard does not: a patch that
\* commits is on top of the definition it was made for.
THEOREM HealsFollow == HealSpec => HealFollowsItsBase
<1> DEFINE Follows ==
        \A h \in Healers : At(h, "apply") /\ job'[h].pc = "refresh" /\ ~job[h].restoring
          => wf.current = job[h].text.no /\ wf'.current = wf.current + 1
<1>1. HealInv /\ [HealNext]_healVars => Follows
  <2> SUFFICES ASSUME HealInv, [HealNext]_healVars, NEW h \in Healers, At(h, "apply"),
                      job'[h].pc = "refresh", ~job[h].restoring
               PROVE  wf.current = job[h].text.no /\ wf'.current = wf.current + 1
    OBVIOUS
  <2> DEFINE j == job[h]
  <2>. HealTypeOK /\ Inv /\ j \in Job /\ JobInv(j, wf.current, tested) /\ j.pc = "apply"
    BY DEF HealInv, HealTypeOK, At
  <2>. j.seen \in Row /\ j.prior \in Version /\ j.text \in Version
       /\ TypeOK /\ VersionsAreLog /\ RowInv
    BY DEF Job, Inv
  <2>. wf.current \in Nat /\ j.seen.current \in Nat /\ j.text.no \in Nat
    BY DEF TypeOK, Row, Version
  <2>1. HealApply(h)
    <3>1. job'[h] # job[h]
      OBVIOUS
    <3>2. ~Tick
      BY DEF Tick, Job
    <3>3. PICK g \in Healers : Flag(g) \/ HealJob(g) \/ HealTimeout(g) \/ HealKill(g)
      BY <3>1, <3>2 DEF HealNext, HealStep, RequestStep, CooldownEnds, healVars, heal
    <3>4. g = h
      BY <3>1, <3>3, JobStays DEF OthersStay
    <3>5. ~HealTimeout(h) /\ ~HealKill(h)
      BY BecomesStays, NewJobIsTyped DEF HealTimeout, HealKill, Over, NewJob
    <3>. QED  BY <3>3, <3>4, <3>5
              DEF HealJob, At, Flag, HealLoad, HealDiagnosisFails, HealNoPatch, HealPatch,
                  HealLock, HealGuard, HealRefresh, HealVerify, HealPasses,
                  HealVerdictFails, HealJudgeRaises, HealRefetch, HealPublish, HealPublishGate,
                  HealRequirements, HealPublishCommit, HealRelease, HealRecord, HealRaise
  <2>2. PICK name \in Names, body \in Bodies : CommitEdit(j.seen, name, body)
    BY <2>1 DEF HealApply, Version
  <2>3. VersionFree(j.seen.current + 1)
    <3>1. ~Moves(h, "raise")
      BY BecomesStays DEF Moves, Job
    <3>. QED  BY <2>1, <3>1 DEF HealApply
  <2>4. j.seen.current = wf.current /\ wf'.current = wf.current + 1
    <3>1. j.seen.current <= wf.current
      BY DEF JobInv
    <3>. QED  BY <2>2, <2>3, <3>1, EditAppends
  <2>5. j.text.no \in j.seen.current..wf.current
    BY DEF JobInv
  <2>. QED  BY <2>4, <2>5
<1>. QED  BY <1>1, HealInvariance, PTL DEF HealSpec, HealFollowsItsBase

\* With heals beside the requests the workflow store still is a ledger: no
\* version is lost or rewritten, and only tested versions go live.
THEOREM HealsImplementLedger == HealSpec => ImplementsLedger
<1>1. HealInv => LedgerInv
  BY DEF HealInv, Inv, RowInv, LedgerInv
<1>2. HealInv /\ HealInv' /\ [HealNext]_healVars => [Ledger!Next]_(Ledger!vars)
  <2>1. HealInv' => LedgerInv'
    BY <1>1, PTL
  <2>. QED  BY <1>1, <2>1, HealIsCommit, LedgerStep
<1>3. HealInit => Ledger!Init
  BY LedgerInit DEF HealInit
<1>. QED  BY <1>2, <1>3, HealInvariance, PTL DEF HealSpec, ImplementsLedger, Ledger!Spec

(***************************************************************************)
(* Heals leave a live workflow live                                        *)
(***************************************************************************)

\* Where a job holds the row that it has read back after its own edit.
Refreshed == {"verify", "judge", "refetch", "publish", "gate", "requirements", "publish_commit"}

\* A job takes nothing offline before its guard, and none under the safe policy does;
\* what it has read back as live still is, and so is what it says it brought back.
JobLive(j, live) ==
    /\ j.pc \in {"idle", "load", "patch", "lock", "guard"} => j.was = "draft"
    /\ j.policy = "safe" /\ j.pc \in {"lock", "guard"} => j.seen.status = "draft"
    /\ j.policy = "safe" /\ j.pc \in {"apply", "refresh"} => j.was = "draft"
    /\ j.policy = "safe" => j.pc \notin Refreshed
    /\ j.pc \in Refreshed /\ j.seen.status = "published" => live
    /\ j.pc = "release" /\ j.was = "published" /\ j.prior.no # 0 /\ j.note # "offline" => live

LiveInv == /\ HealTypeOK
           /\ LockInv
           /\ \A h \in Healers : JobLive(job[h], LiveOrKept)

\* The values a job takes, as far as they rely on nothing new.
LEMMA NewLives == ASSUME NEW live, NEW note PROVE JobLive(Over(note), live) /\ JobLive(NewJob, live)
  BY DEF JobLive, Over, NewJob, Refreshed

LEMMA EndsLives ==
    ASSUME NEW j \in Job, NEW note, NEW live,
           \/ j.was # "published" \/ j.prior.no = 0 \/ note = "offline"
           \/ live
    PROVE  JobLive(Ends(j, note), live)
<1>1. /\ Ends(j, note).pc = "release" /\ Ends(j, note).note = note
      /\ Ends(j, note).was = j.was /\ Ends(j, note).prior = j.prior
  BY DEF Ends, Job
<1>. QED  BY <1>1 DEF JobLive, Refreshed

LEMMA AtLives ==
    ASSUME NEW j \in Job, NEW live, JobLive(j, live), NEW label \in HPCs,
           \/ label \in {"raise", "record"}
           \/ label \in Refreshed /\ j.pc \in Refreshed
           \/ label = "guard" /\ j.pc = "lock"
           \/ label = "refresh" /\ j.pc = "apply"
           \/ label = "apply" /\ j.pc = "refetch"
    PROVE  JobLive([j EXCEPT !.pc = label], live)
<1> DEFINE k == [j EXCEPT !.pc = label]
<1>1. k.pc = label /\ k.was = j.was /\ k.policy = j.policy /\ k.seen = j.seen
  BY DEF Job
<1>. HIDE DEF k
<1>2. label # "release"
  BY DEF Refreshed
<1>3. JobLive(k, live)
  BY <1>1, <1>2 DEF JobLive, Refreshed
<1>. QED  BY <1>3 DEF k

LEMMA RollbackLives ==
    ASSUME NEW j \in Job, NEW live, JobLive(j, live), j.pc \in Refreshed
    PROVE  JobLive(Rollback(j), live)
<1> DEFINE k == [j EXCEPT !.pc = "refetch", !.restoring = TRUE]
<1>1. k.pc = "refetch" /\ k.policy = j.policy /\ k.seen = j.seen
  BY DEF Job
<1>. HIDE DEF k
<1>2. JobLive(k, live)
  BY <1>1 DEF JobLive, Refreshed
<1>3. CASE j.was = "draft"
  <2>1. Rollback(j) = Ends(j, "left_draft")
    BY <1>3 DEF Rollback
  <2>. QED  BY <1>3, <2>1, EndsLives
<1>4. CASE j.was # "draft" /\ j.prior.no = 0
  <2>1. Rollback(j) = Ends(j, "rolled_back")
    BY <1>4 DEF Rollback
  <2>. QED  BY <1>4, <2>1, EndsLives
<1>5. CASE j.was # "draft" /\ j.prior.no # 0
  <2>1. Rollback(j) = k
    BY <1>5 DEF Rollback, k
  <2>. QED  BY <1>2, <2>1
<1>. QED  BY <1>3, <1>4, <1>5

\* A job's own step: only its edit takes the workflow offline, and then it relies on nothing.
LEMMA JobLiveStep ==
    ASSUME HealTypeOK, NEW h \in Healers, JobLive(job[h], LiveOrKept), kept' = kept,
           Flag(h) \/ HealJob(h) \/ HealTimeout(h) \/ HealKill(h)
    PROVE  /\ JobLive(job'[h], LiveOrKept')
           /\ HealApply(h) \/ (LiveOrKept => LiveOrKept')
<1> DEFINE j == job[h]
           live == LiveOrKept
           Lives == JobLive(job'[h], live)
<1>. j \in Job /\ wf \in Row /\ JobLive(j, live)
  BY DEF HealTypeOK, TypeOK
<1>. HIDE DEF live
<1>s. ASSUME NEW new, Becomes(h, new) PROVE job'[h] = new
  BY <1>s, BecomesStays
<1>o. ASSUME NEW note, Becomes(h, Over(note)) PROVE Lives
  BY <1>o, <1>s, NewLives
<1>m. ASSUME NEW label \in HPCs, Moves(h, label),
             \/ label \in {"raise", "record"}
             \/ label \in Refreshed /\ j.pc \in Refreshed
             \/ label = "guard" /\ j.pc = "lock"
             \/ label = "refresh" /\ j.pc = "apply"
             \/ label = "apply" /\ j.pc = "refetch"
      PROVE  Lives
  BY <1>m, <1>s, AtLives DEF Moves
<1>r. ASSUME j.pc \in Refreshed, Becomes(h, Rollback(j)) PROVE Lives
  BY <1>r, <1>s, RollbackLives
<1>e. ASSUME NEW note, \/ j.was # "published" \/ j.prior.no = 0 \/ note = "offline",
             Becomes(h, Ends(j, note))
      PROVE  Lives
  BY <1>e, <1>s, EndsLives
<1>p. ASSUME j.pc \in Refreshed, PublishRaised(h) PROVE Lives
  BY <1>p, <1>r, <1>e DEF PublishRaised
<1>q. ASSUME NEW note, Reports(h, note) PROVE Lives
  <2>1. job'[h] = [j EXCEPT !.pc = "record", !.note = note]
    BY <1>q, <1>s DEF Reports
  <2>2. job'[h].pc = "record"
    BY <2>1 DEF Job
  <2>. QED  BY <2>2 DEF JobLive, Refreshed
<1>a. ASSUME Lives, wf' = wf
      PROVE  /\ JobLive(job'[h], LiveOrKept')
             /\ LiveOrKept => LiveOrKept'
  <2>1. LiveOrKept' = live
    BY <1>a DEF LiveOrKept, live
  <2>. QED  BY <1>a, <2>1 DEF live
<1>d. ASSUME OnlyJob PROVE wf' = wf
  BY <1>d DEF OnlyJob, db
<1>1. CASE Flag(h)
  <2>1. job'[h] = [NewJob EXCEPT !.pc = "load", !.policy = Effective(wf.self_heal)]
    BY <1>1, <1>s DEF Flag
  <2>2. job'[h].pc = "load" /\ job'[h].was = "draft"
    BY <2>1 DEF NewJob
  <2>3. Lives
    BY <2>2 DEF JobLive, Refreshed
  <2>. QED  BY <1>1, <1>a, <1>d, <2>3 DEF Flag
<1>2. CASE HealLoad(h)
  <2>1. ASSUME Becomes(h, [j EXCEPT !.pc = "patch", !.seen = wf, !.base = wf.current])
        PROVE  Lives
    <3>1. job'[h] = [j EXCEPT !.pc = "patch", !.seen = wf, !.base = wf.current]
      BY <2>1, <1>s
    <3>2. job'[h].pc = "patch" /\ job'[h].was = j.was
      BY <3>1 DEF Job
    <3>3. j.was = "draft"
      BY <1>2 DEF HealLoad, At, JobLive
    <3>. QED  BY <3>2, <3>3 DEF JobLive, Refreshed
  <2>. QED  BY <1>2, <1>a, <1>d, <1>o, <2>1 DEF HealLoad
<1>3. CASE HealDiagnosisFails(h) \/ HealNoPatch(h) \/ HealKill(h)
  <2>1. Lives
    BY <1>3, <1>o, <1>q DEF HealDiagnosisFails, HealNoPatch, HealKill
  <2>2. wf' = wf
    BY <1>3, <1>d DEF HealDiagnosisFails, HealNoPatch, HealKill
  <2>. QED  BY <1>a, <2>1, <2>2
<1>4. CASE HealRecord(h) \/ HealRaise(h) \/ HealTimeout(h)
  <2>1. Lives
    BY <1>4, <1>o DEF HealRecord, HealRaise, HealTimeout
  <2>2. wf' = wf
    BY <1>4 DEF HealRecord, HealRaise, HealTimeout, db
  <2>. QED  BY <1>a, <2>1, <2>2
<1>5. CASE HealPatch(h)
  <2>1. ASSUME NEW v, Becomes(h, [j EXCEPT !.pc = "lock", !.text = v]),
               ~(j.policy = "safe" /\ j.seen.status = "published")
        PROVE  Lives
    <3>1. job'[h] = [j EXCEPT !.pc = "lock", !.text = v]
      BY <2>1, <1>s
    <3>2. /\ job'[h].pc = "lock" /\ job'[h].was = j.was /\ job'[h].policy = j.policy
          /\ job'[h].seen = j.seen
      BY <3>1 DEF Job
    <3>3. j.was = "draft"
      BY <1>5 DEF HealPatch, At, JobLive
    <3>4. j.seen.status \in {"draft", "published"}
      BY DEF Job, Row
    <3>. QED  BY <2>1, <3>2, <3>3, <3>4 DEF JobLive, Refreshed
  <2>2. Lives
    BY <1>5, <1>q, <2>1 DEF HealPatch
  <2>. QED  BY <1>5, <1>a, <1>d, <2>2 DEF HealPatch
<1>6. CASE HealLock(h)
  <2>1. Lives
    BY <1>6, <1>m, <1>q DEF HealLock, At, HPCs
  <2>2. wf' = wf
    BY <1>6 DEF HealLock, db
  <2>. QED  BY <1>a, <2>1, <2>2
<1>7. CASE HealGuard(h)
  <2>0. j.pc = "guard" /\ j.was = "draft"
    BY <1>7 DEF HealGuard, At, JobLive
  <2>1. ASSUME NEW prior,
               Becomes(h, [j EXCEPT !.pc = "apply", !.was = j.seen.status, !.prior = prior])
        PROVE  Lives
    <3>1. job'[h] = [j EXCEPT !.pc = "apply", !.was = j.seen.status, !.prior = prior]
      BY <2>1, <1>s
    <3>2. job'[h].pc = "apply" /\ job'[h].was = j.seen.status /\ job'[h].policy = j.policy
      BY <3>1 DEF Job
    <3>. QED  BY <2>0, <3>2 DEF JobLive, Refreshed
  <2>2. \/ Becomes(h, Ends(j, "skipped"))
        \/ Moves(h, "raise")
        \/ \E prior : Becomes(h, [j EXCEPT !.pc = "apply", !.was = j.seen.status, !.prior = prior])
    BY <1>7 DEF HealGuard
  <2>3. Lives
    BY <1>m, <1>e, <2>0, <2>1, <2>2 DEF HPCs
  <2>. QED  BY <1>7, <1>a, <1>d, <2>3 DEF HealGuard
<1>8. CASE HealApply(h)
  <2>0. j.pc = "apply"
    BY <1>8 DEF HealApply, At
  <2>1. \/ Moves(h, "refresh") \/ Becomes(h, Ends(j, "offline")) \/ Moves(h, "raise")
    BY <1>8 DEF HealApply
  <2>2. ASSUME NEW label \in {"refresh", "raise"}, Moves(h, label)
        PROVE  JobLive(job'[h], LiveOrKept')
    <3>1. job'[h] = [j EXCEPT !.pc = label]
      BY <1>s, <2>2 DEF Moves
    <3>2. job'[h].pc = label /\ job'[h].was = j.was /\ job'[h].policy = j.policy
      BY <3>1 DEF Job
    <3>. QED  BY <2>0, <3>2 DEF JobLive, Refreshed
  <2>3. ASSUME Becomes(h, Ends(j, "offline")) PROVE JobLive(job'[h], LiveOrKept')
    BY <1>s, <2>3, EndsLives
  <2>. QED  BY <1>8, <2>1, <2>2, <2>3
<1>9. CASE HealRefresh(h)
  <2> DEFINE k == [j EXCEPT !.seen = wf]
             m == [k EXCEPT !.pc = "verify"]
  <2>0. /\ k \in Job /\ k.policy = j.policy /\ k.was = j.was
        /\ m.pc = "verify" /\ m.policy = j.policy /\ m.seen = wf
    BY DEF Job
  <2>1. \/ j.policy = "safe" /\ job'[h] = Ends(k, "drafted")
        \/ j.policy # "safe" /\ job'[h] = m
    BY <1>9, <1>s, <2>0 DEF HealRefresh
  <2>2. j.policy = "safe" => j.was = "draft"
    BY <1>9 DEF HealRefresh, At, JobLive
  <2>. HIDE DEF k, m
  <2>3. j.policy = "safe" => JobLive(Ends(k, "drafted"), live)
    BY <2>0, <2>2, EndsLives
  <2>4. wf.status = "published" => live
    BY DEF LiveOrKept, live
  <2>5. j.policy # "safe" => JobLive(m, live)
    BY <2>0, <2>4 DEF JobLive, Refreshed
  <2>6. Lives
    BY <2>1, <2>3, <2>5
  <2>. QED  BY <1>9, <1>a, <1>d, <2>6 DEF HealRefresh
<1>10. CASE HealVerify(h) \/ HealPublish(h)
  <2>0. j.pc \in Refreshed
    BY <1>10 DEF HealVerify, HealPublish, At, Refreshed
  <2>1. ASSUME NEW label \in {"judge", "gate"}, NEW no,
               Becomes(h, [j EXCEPT !.pc = label, !.latest = no])
        PROVE  Lives
    <3>1. job'[h] = [j EXCEPT !.pc = label, !.latest = no]
      BY <2>1, <1>s
    <3>2. job'[h].pc = label /\ job'[h].policy = j.policy /\ job'[h].seen = j.seen
      BY <3>1 DEF Job
    <3>. QED  BY <2>0, <3>2 DEF JobLive, Refreshed
  <2>2. \/ Moves(h, "publish") \/ Becomes(h, Rollback(j)) \/ PublishRaised(h)
        \/ \E no : \/ Becomes(h, [j EXCEPT !.pc = "judge", !.latest = no])
                   \/ Becomes(h, [j EXCEPT !.pc = "gate", !.latest = no])
    BY <1>10 DEF HealVerify, HealPublish, Moves
  <2>3. Lives
    BY <1>m, <1>r, <1>p, <2>0, <2>1, <2>2 DEF Refreshed, HPCs
  <2>4. wf' = wf
    BY <1>10, <1>d DEF HealVerify, HealPublish
  <2>. QED  BY <1>a, <2>3, <2>4
<1>11. CASE HealPasses(h) \/ HealVerdictFails(h) \/ HealJudgeRaises(h)
  <2>0. j.pc \in Refreshed
    BY <1>11 DEF HealPasses, HealVerdictFails, HealJudgeRaises, At, Refreshed
  <2>1. \/ Moves(h, "publish") \/ Moves(h, "raise")
        \/ j.was = "draft" /\ Becomes(h, Ends(j, "left_draft"))
        \/ Becomes(h, Rollback(j))
    BY <1>11 DEF HealPasses, HealVerdictFails, HealJudgeRaises, Accept, Moves
  <2>2. Lives
    BY <1>m, <1>e, <1>r, <2>0, <2>1 DEF Refreshed, HPCs
  <2>3. wf' = wf
    BY <1>11 DEF HealPasses, HealVerdictFails, HealJudgeRaises
  <2>. QED  BY <1>a, <2>2, <2>3
<1>12. CASE HealRefetch(h) \/ HealPublishGate(h) \/ HealRequirements(h)
  <2>0. j.pc \in Refreshed
    BY <1>12 DEF HealRefetch, HealPublishGate, HealRequirements, At, Refreshed
  <2>1. \/ j.pc = "refetch" /\ Moves(h, "apply")
        \/ Becomes(h, Ends(j, "offline"))
        \/ Moves(h, "requirements") \/ Moves(h, "publish_commit") \/ PublishRaised(h)
    BY <1>12 DEF HealRefetch, HealPublishGate, HealRequirements, At
  <2>2. Lives
    BY <1>m, <1>e, <1>p, <2>0, <2>1 DEF Refreshed, HPCs
  <2>3. wf' = wf
    BY <1>12, <1>d DEF HealRefetch, HealPublishGate, HealRequirements
  <2>. QED  BY <1>a, <2>2, <2>3
<1>13. CASE HealPublishCommit(h)
  <2> DEFINE new == [j.seen EXCEPT !.status = "published", !.published = j.latest]
  <2>0. j.pc \in Refreshed
    BY <1>13 DEF HealPublishCommit, At, Refreshed
  <2>1. j.seen \in Row
    BY DEF Job
  <2>2. new.status = "published"
    BY <2>1 DEF Row
  <2>3. wf' = Flush(j.seen, new)
    BY <1>13 DEF HealPublishCommit
  <2>. HIDE DEF new
  <2>4. wf'.status = IF j.seen.status = "published" THEN wf.status ELSE "published"
    BY <2>2, <2>3 DEF Flush, Written
  <2>5. j.seen.status = "published" => live
    BY <2>0 DEF JobLive
  <2>6. LiveOrKept'
    BY <2>4, <2>5 DEF LiveOrKept, live
  <2>7. \E note : job'[h] = Ends(j, note)
    BY <1>13, <1>s DEF HealPublishCommit
  <2>. QED  BY <2>6, <2>7, EndsLives
<1>14. CASE HealRelease(h)
  <2>1. Lives
    BY <1>14, <1>m DEF HealRelease, HPCs
  <2>2. wf' = wf
    BY <1>14 DEF HealRelease, db
  <2>. QED  BY <1>a, <2>1, <2>2
<1>. QED  BY <1>1, <1>2, <1>3, <1>4, <1>5, <1>6, <1>7, <1>8, <1>9, <1>10, <1>11, <1>12, <1>13,
             <1>14 DEF HealJob

\* A request that changes the status publishes it, or answers for its being a draft.
LEMMA RequestLives ==
    ASSUME HealTypeOK', RequestStep, LiveOrKept PROVE LiveOrKept'
<1>1. wf'.status \in {"draft", "published"}
  BY DEF HealTypeOK, TypeOK, Row
<1>. QED  BY <1>1 DEF RequestStep, LiveOrKept

LEMMA LiveStep == LiveInv /\ [HealNext]_healVars => LiveInv'
<1> SUFFICES ASSUME LiveInv, [HealNext]_healVars PROVE LiveInv'
  OBVIOUS
<1>0. HealTypeOK /\ LockInv /\ HealTypeOK' /\ LockInv'
  BY HealTypeStep, LockStep DEF LiveInv
<1>. SUFFICES ASSUME NEW g \in Healers PROVE JobLive(job'[g], LiveOrKept')
  BY <1>0 DEF LiveInv
<1>1. job[g] \in Job /\ JobLive(job[g], LiveOrKept)
  BY <1>0 DEF HealTypeOK, LiveInv
<1>2. ASSUME job'[g] = job[g], LiveOrKept => LiveOrKept' PROVE JobLive(job'[g], LiveOrKept')
  BY <1>1, <1>2 DEF JobLive
<1>3. CASE RequestStep
  <2>1. job' = job
    BY <1>3 DEF RequestStep, heal
  <2>. QED  BY <1>0, <1>2, <1>3, <2>1, RequestLives
<1>4. CASE UNCHANGED <<wf, kept, job>>
  BY <1>2, <1>4 DEF LiveOrKept
<1>5. CASE Tick /\ UNCHANGED kept
  <2>1. job'[g] = job[g] \/ job'[g] = [job[g] EXCEPT !.left = @ - 1]
    BY <1>5 DEF Tick
  <2>2. /\ job'[g].pc = job[g].pc /\ job'[g].was = job[g].was /\ job'[g].policy = job[g].policy
        /\ job'[g].seen = job[g].seen /\ job'[g].prior = job[g].prior
        /\ job'[g].note = job[g].note
    BY <1>1, <2>1 DEF Job
  <2>3. LiveOrKept' = LiveOrKept
    BY <1>5 DEF Tick, db, LiveOrKept
  <2>. QED  BY <1>1, <2>2, <2>3 DEF JobLive
<1>6. ASSUME NEW h \in Healers, Flag(h) \/ HealJob(h) \/ HealTimeout(h) \/ HealKill(h), kept' = kept
      PROVE  JobLive(job'[g], LiveOrKept')
  <2>1. /\ JobLive(job'[h], LiveOrKept')
        /\ HealApply(h) \/ (LiveOrKept => LiveOrKept')
    <3>1. JobLive(job[h], LiveOrKept)
      BY DEF LiveInv
    <3>. QED  BY <1>0, <1>6, <3>1, JobLiveStep
  <2>2. CASE g = h
    BY <2>1, <2>2
  <2>3. CASE g # h
    <3>1. job'[g] = job[g]
      BY <1>0, <1>6, <2>3, JobStays DEF OthersStay
    <3>2. CASE HealApply(h)
      <4>1. InLock(h)
        BY <3>2 DEF HealApply, At, InLock
      <4>2. ~InLock(g)
        BY <1>0, <2>3, <4>1 DEF LockInv, OneHealApplies
      <4>3. job[g].pc \notin Refreshed /\ job[g].pc # "release"
        BY <4>2 DEF InLock, Refreshed
      <4>. QED  BY <1>1, <3>1, <4>3 DEF JobLive
    <3>3. CASE LiveOrKept => LiveOrKept'
      BY <1>2, <3>1, <3>3
    <3>. QED  BY <2>1, <3>2, <3>3
  <2>. QED  BY <2>2, <2>3
<1>7. CASE HealStep
  <2>1. kept' = kept
    BY <1>7 DEF HealStep
  <2>2. CASE CooldownEnds
    BY <1>4, <2>1, <2>2 DEF CooldownEnds, db
  <2>. QED  BY <1>5, <1>6, <1>7, <2>1, <2>2 DEF HealStep
<1>8. CASE UNCHANGED healVars
  BY <1>4, <1>8 DEF healVars, vars, heal
<1>. QED  BY <1>3, <1>7, <1>8 DEF HealNext

LEMMA LiveInit == HealInit => LiveInv
<1> SUFFICES ASSUME HealInit PROVE LiveInv
  OBVIOUS
<1>1. \A h \in Healers : job[h] = NewJob
  BY DEF HealInit
<1>2. LockInv
  BY <1>1 DEF LockInv, OneHealApplies, LockOutlivesJob, InLock, NewJob
<1>3. \A h \in Healers : JobLive(job[h], LiveOrKept)
  BY <1>1, NewLives
<1>. QED  BY <1>2, <1>3, HealTypeInit DEF LiveInv

\* A job that nobody cuts short leaves the lock with its outcome, or raises.
LEMMA LeavesAtEnd ==
    ASSUME HealTypeOK, NEW h \in Healers, HealJob(h), InLock(h), ~InLock(h)'
    PROVE  HealRelease(h) \/ HealRaise(h)
<1> DEFINE j == job[h]
           Outside == {"idle", "load", "patch", "lock", "record"}
<1>. j \in Job
  BY DEF HealTypeOK
<1>0. j.pc \notin Outside /\ job'[h].pc \in Outside
  BY DEF InLock
<1>s. ASSUME NEW new, Becomes(h, new) PROVE job'[h] = new
  BY <1>s, BecomesStays
<1>m. ASSUME NEW label, label \notin Outside PROVE ~Moves(h, label)
  <2> SUFFICES ASSUME Moves(h, label) PROVE FALSE
    OBVIOUS
  <2>1. job'[h] = [j EXCEPT !.pc = label]
    BY <1>s DEF Moves
  <2>2. job'[h].pc = label
    BY <2>1 DEF Job
  <2>. QED  BY <1>0, <1>m, <2>2
<1>k. ASSUME NEW new, Becomes(h, new) PROVE new.pc \in Outside
  BY <1>0, <1>k, <1>s
<1>e. \A note : ~Becomes(h, Ends(j, note))
  BY <1>k, EndsKeeps
<1>r. ~Becomes(h, Rollback(j))
  BY <1>k, RollbackKeeps
<1>p. ~PublishRaised(h)
  BY <1>e, <1>r DEF PublishRaised
<1>1. ~HealLoad(h) /\ ~HealDiagnosisFails(h) /\ ~HealNoPatch(h) /\ ~HealPatch(h) /\ ~HealLock(h)
  BY <1>0 DEF HealLoad, HealDiagnosisFails, HealNoPatch, HealPatch, HealLock, At
<1>2. ~HealRecord(h)
  BY <1>0 DEF HealRecord, At
<1>3. ~HealGuard(h)
  <2>1. ASSUME NEW was, NEW prior PROVE ~Becomes(h, [j EXCEPT !.pc = "apply", !.was = was, !.prior = prior])
    <3>1. [j EXCEPT !.pc = "apply", !.was = was, !.prior = prior].pc = "apply"
      BY DEF Job
    <3>. QED  BY <1>k, <3>1
  <2>. QED  BY <1>m, <1>e, <2>1 DEF HealGuard
<1>4. ~HealApply(h)
  BY <1>m, <1>e DEF HealApply
<1>5. ~HealRefresh(h)
  <2> DEFINE k == [j EXCEPT !.seen = wf]
             m == [k EXCEPT !.pc = "verify"]
  <2>1. k \in Job /\ m.pc = "verify"
    BY DEF Job, HealTypeOK, TypeOK
  <2>2. HealRefresh(h) => Becomes(h, Ends(k, "drafted")) \/ Becomes(h, m)
    BY DEF HealRefresh
  <2>. HIDE DEF k, m
  <2>3. Ends(k, "drafted").pc = "release"
    BY <2>1, EndsKeeps
  <2>. QED  BY <1>k, <2>1, <2>2, <2>3
<1>6. ~HealVerify(h) /\ ~HealPublish(h)
  <2>1. ASSUME NEW label \in {"judge", "gate"}, NEW no
        PROVE  ~Becomes(h, [j EXCEPT !.pc = label, !.latest = no])
    <3>1. [j EXCEPT !.pc = label, !.latest = no].pc = label
      BY DEF Job
    <3>. QED  BY <1>k, <3>1
  <2>2. ~HealVerify(h)
    BY <1>m, <1>r, <2>1 DEF HealVerify, Moves
  <2>3. ~HealPublish(h)
    BY <1>p, <2>1 DEF HealPublish
  <2>. QED  BY <2>2, <2>3
<1>7. ~HealPasses(h) /\ ~HealVerdictFails(h) /\ ~HealJudgeRaises(h)
  BY <1>m, <1>e, <1>r DEF HealPasses, HealVerdictFails, HealJudgeRaises, Accept, Moves
<1>8. ~HealRefetch(h)
  BY <1>m, <1>e DEF HealRefetch
<1>9. ~HealPublishGate(h) /\ ~HealRequirements(h)
  BY <1>m, <1>p DEF HealPublishGate, HealRequirements
<1>10. ~HealPublishCommit(h)
  BY <1>e DEF HealPublishCommit
<1>. QED  BY <1>1, <1>2, <1>3, <1>4, <1>5, <1>6, <1>7, <1>8, <1>9, <1>10 DEF HealJob

\* A heal that comes back from _apply_autonomous (nobody cuts it short, and it does not
\* raise, as it does when the judge's client raises) leaves a workflow live whose live
\* version it knew, or says that it is offline, or a request has decided otherwise;
\* whatever the requests, the other jobs, the gate and the verdicts do meanwhile.
THEOREM HealsLeaveLive ==
    ASSUME Faults \cap {"timeout", "kill"} = {}
    PROVE  HealSpec => HealLeavesLive
<1> DEFINE Leaves ==
        \A h \in Healers :
            LeavesOffline(h) /\ ~At(h, "raise") => job'[h].note = "offline"
<1>1. LiveInv /\ [HealNext]_healVars => Leaves
  <2> SUFFICES ASSUME LiveInv, [HealNext]_healVars, NEW h \in Healers,
                      InLock(h), ~InLock(h)', ~At(h, "raise"),
                      job[h].was = "published", job[h].prior.no # 0,
                      job'[h].note # "offline"
               PROVE  LiveOrKept
    BY DEF LeavesOffline
  <2>0. HealTypeOK /\ job[h] \in Job /\ JobLive(job[h], LiveOrKept)
    BY DEF LiveInv, HealTypeOK
  <2>1. job'[h].pc # job[h].pc
    BY DEF InLock
  <2>2. ~Tick
    <3>1. Tick => job'[h] = job[h] \/ job'[h] = [job[h] EXCEPT !.left = @ - 1]
      BY DEF Tick
    <3>2. [job[h] EXCEPT !.left = @ - 1].pc = job[h].pc
      BY <2>0 DEF Job
    <3>. QED  BY <2>1, <3>1, <3>2
  <2>3. PICK g \in Healers : Flag(g) \/ HealJob(g) \/ HealTimeout(g) \/ HealKill(g)
    BY <2>1, <2>2 DEF HealNext, HealStep, RequestStep, CooldownEnds, healVars, heal
  <2>4. g = h
    BY <2>0, <2>1, <2>3, JobStays DEF OthersStay
  <2>5. ~HealTimeout(h) /\ ~HealKill(h)
    BY DEF HealTimeout, HealKill
  <2>6. ~Flag(h)
    BY DEF Flag, At, InLock
  <2>7. HealRelease(h)
    <3>1. HealRelease(h) \/ HealRaise(h)
      BY <2>0, <2>3, <2>4, <2>5, <2>6, LeavesAtEnd
    <3>. QED  BY <3>1 DEF HealRaise
  <2>8. job[h].pc = "release" /\ job'[h].note = job[h].note
    <3>1. job'[h] = [job[h] EXCEPT !.pc = "record"]
      BY <2>0, <2>7, BecomesStays DEF HealRelease, Moves
    <3>2. job'[h].note = job[h].note
      BY <2>0, <3>1 DEF Job
    <3>. QED  BY <2>7, <3>2 DEF HealRelease, At
  <2>. QED  BY <2>0, <2>8 DEF JobLive
<1>2. HealSpec => []LiveInv
  BY LiveInit, LiveStep, PTL DEF HealSpec
<1>. QED  BY <1>1, <1>2, PTL DEF HealSpec, HealLeavesLive
=============================================================================
