------------------------- MODULE WorkflowLifecycle -------------------------
(***************************************************************************)
(* The life of one saved workflow under concurrent HTTP requests: the      *)
(* `workflows` row, its `workflow_versions` rows and the executions that   *)
(* completed, as the handlers of services/workflow_service.py read and     *)
(* write them.                                                             *)
(*                                                                         *)
(* Every request runs in a database session of its own (READ COMMITTED, no *)
(* row lock, no version column on the row).  A session keeps the row it    *)
(* loaded: a later SELECT of the same row returns the cached object, and a *)
(* commit writes only the columns the handler changed with respect to what *)
(* was loaded.  Each action below is one statement or the final commit of  *)
(* a request, so requests interleave between statements.                   *)
(***************************************************************************)
EXTENDS Integers, FiniteSets

CONSTANTS
    Sessions,     \* the requests in flight at a time
    Ops,          \* the requests clients may send, a subset of AllOps
    MaxVersion,   \* bound: no edit once this many versions exist
    Bodies,       \* what a definition does (its nodes and edges)
    Names,        \* workflow names
    FirstBody,    \* the definition the workflow is created with
    FirstName,    \* and its name
    Needy,        \* bodies that use a connectable integration
    Ways          \* how the definitions act on other systems, a subset of AllWays

AllOps == {"update", "rollback", "rename", "publish", "unpublish",
           "self_heal", "delete", "test", "run"}

\* "gated": a side-effecting action of an action node, which invoke_action holds
\* back unless it is told that the run is live.  "ungated": a tool of an agent
\* (native, Composio, MCP, or an action node that is its satellite), a data_store
\* node, the internal fire_workflow; no publish status reaches these.
AllWays == {"gated", "ungated"}

ASSUME ConstantsAssumption ==
    /\ Ops \subseteq AllOps
    /\ MaxVersion \in Nat \ {0}
    /\ FirstBody \in Bodies
    /\ FirstName \in Names
    /\ Needy \subseteq Bodies
    /\ Ways \subseteq AllWays

VARIABLES
    wf,         \* the committed row of the workflow
    versions,   \* the committed version rows
    tested,     \* versions with a COMPLETED execution
    connected,  \* the workspace holds the active connection Needy bodies need
    pc,         \* where the request of a session is
    seen,       \* the row a session loaded (its identity map)
    latest,     \* the version number a session read last
    text,       \* the definition a session read or was given
    fired       \* the real side effects: which version acted, and how

db   == <<wf, versions, tested>>
sess == <<pc, seen, latest, text>>
vars == <<wf, versions, tested, connected, pc, seen, latest, text, fired>>

Policies == {"off", "safe", "autonomous"}

Row == [current   : Nat,
        status    : {"draft", "published"},
        published : Nat,               \* 0 stands for NULL
        name      : Names,
        deleted   : BOOLEAN,
        self_heal : Policies]

Version == [no : Nat, name : Names, body : Bodies]

PCs == {"idle", "update", "rollback", "refetch", "rollback_commit", "rename", "rename_commit",
        "publish", "gate", "requirements", "publish_commit", "unpublish",
        "self_heal", "delete", "test", "run", "testing", "running"}

\* The rows create_workflow commits: version 1, a draft, healing not opted in.
InitVersion == [no |-> 1, name |-> FirstName, body |-> FirstBody]

InitRow == [current |-> 1, status |-> "draft", published |-> 0,
            name |-> FirstName, deleted |-> FALSE, self_heal |-> "off"]

TypeOK ==
    /\ wf \in Row
    /\ versions \subseteq Version
    /\ tested \subseteq Nat
    /\ connected \in BOOLEAN
    /\ pc \in [Sessions -> PCs]
    /\ seen \in [Sessions -> Row]
    /\ latest \in [Sessions -> Nat]
    /\ text \in [Sessions -> Version]
    /\ fired \subseteq [no : Nat, way : AllWays]

(***************************************************************************)
(* The database                                                            *)
(***************************************************************************)

\* SELECT ... ORDER BY version DESC LIMIT 1
IsLatest(v) == v \in versions /\ \A w \in versions : w.no <= v.no

\* The unique constraint (workflow_id, version) lets a version be inserted.
\* (Definitions with a suffix after the underscore, here and below, are broken
\* variants of the definition that follows; nothing uses them.)
VersionFree_none(no) == TRUE
VersionFree(no) == \A v \in versions : v.no # no

\* The UPDATE of a commit: a column is written exactly when the handler set it
\* to something else than what its session had loaded.
Written_always(old, new, stored) == new
Written(old, new, stored) == IF new = old THEN stored ELSE new

Flush(old, new) ==
    [current   |-> Written(old.current, new.current, wf.current),
     status    |-> Written(old.status, new.status, wf.status),
     published |-> Written(old.published, new.published, wf.published),
     name      |-> Written(old.name, new.name, wf.name),
     deleted   |-> Written(old.deleted, new.deleted, wf.deleted),
     self_heal |-> Written(old.self_heal, new.self_heal, wf.self_heal)]

Body(no) == (CHOOSE v \in versions : v.no = no).body

(***************************************************************************)
(* Sessions                                                                *)
(***************************************************************************)

\* The session reads on, or waits before its commit.
Goto(s, label) == pc' = [pc EXCEPT ![s] = label]

\* The request is answered; its session is closed and forgets what it loaded.
Done(s) == /\ pc' = [pc EXCEPT ![s] = "idle"]
           /\ seen' = [seen EXCEPT ![s] = InitRow]
           /\ latest' = [latest EXCEPT ![s] = 0]
           /\ text' = [text EXCEPT ![s] = InitVersion]

\* _fetch_workflow_for_user, the first statement of every request: 404 when the
\* workflow is deleted, else the session keeps the row it read.
Begin(s, op) ==
    /\ pc[s] = "idle"
    /\ op \in Ops
    /\ ~wf.deleted
    /\ op \in {"update", "rollback"} => wf.current < MaxVersion
    /\ Goto(s, op)
    /\ seen' = [seen EXCEPT ![s] = wf]
    /\ UNCHANGED <<db, connected, latest, text, fired>>

(***************************************************************************)
(* update_workflow and rollback_workflow                                   *)
(***************************************************************************)

\* What an edit does to the row the session holds.
EditedRow(row, name) ==
    [row EXCEPT !.current = @ + 1, !.name = name,
                !.status = "draft", !.published = 0]

\* UPDATE of the loaded row `old` and INSERT of the version in one transaction; a
\* version that another request inserted first makes the whole commit fail.
CommitEdit(old, name, body) ==
    LET row == EditedRow(old, name)
    IN  IF VersionFree(row.current)
        THEN /\ wf' = Flush(old, row)
             /\ versions' = versions \cup
                    {[no |-> row.current, name |-> name, body |-> body]}
        ELSE UNCHANGED <<wf, versions>>

Update(s) ==
    /\ pc[s] = "update"
    /\ \E name \in Names, body \in Bodies : CommitEdit(seen[s], name, body)
    /\ Done(s)
    /\ UNCHANGED <<tested, connected, fired>>

\* The target version is read; 404 when there is none of that number.
RollbackTarget(s) ==
    /\ pc[s] = "rollback"
    /\ \E target \in 1..MaxVersion :
         \/ /\ \A v \in versions : v.no # target
            /\ Done(s)
         \/ \E v \in versions :
              /\ v.no = target
              /\ text' = [text EXCEPT ![s] = v]
              /\ Goto(s, "refetch")
              /\ UNCHANGED <<seen, latest>>
    /\ UNCHANGED <<db, connected, fired>>

\* update_workflow fetches the row again: the query sees a deletion, but the
\* columns stay those the session loaded first.
RollbackRefetch(s) ==
    /\ pc[s] = "refetch"
    /\ IF wf.deleted THEN Done(s)
                     ELSE /\ Goto(s, "rollback_commit")
                          /\ UNCHANGED <<seen, latest, text>>
    /\ UNCHANGED <<db, connected, fired>>

RollbackCommit(s) ==
    /\ pc[s] = "rollback_commit"
    /\ CommitEdit(seen[s], text[s].name, text[s].body)
    /\ Done(s)
    /\ UNCHANGED <<tested, connected, fired>>

(***************************************************************************)
(* rename_workflow                                                         *)
(***************************************************************************)

RenameLatest(s) ==
    /\ pc[s] = "rename"
    /\ \E v \in versions : IsLatest(v) /\ text' = [text EXCEPT ![s] = v]
    /\ Goto(s, "rename_commit")
    /\ UNCHANGED <<db, connected, seen, latest, fired>>

\* The row's name and, in place, the definition of the version that was read:
\* the whole JSON document is written back with the new name.
RenamedVersions_latest(old, name) ==
    {IF IsLatest(v) THEN [old EXCEPT !.name = name, !.no = v.no] ELSE v : v \in versions}
RenamedVersions(old, name) ==
    {IF v.no = old.no THEN [old EXCEPT !.name = name] ELSE v : v \in versions}

RenameCommit(s) ==
    /\ pc[s] = "rename_commit"
    /\ \E name \in Names :
         /\ wf' = Flush(seen[s], [seen[s] EXCEPT !.name = name])
         /\ versions' = IF name = text[s].name THEN versions
                        ELSE RenamedVersions(text[s], name)
    /\ Done(s)
    /\ UNCHANGED <<tested, connected, fired>>

(***************************************************************************)
(* publish_workflow and unpublish_workflow                                 *)
(***************************************************************************)

PublishLatest(s) ==
    /\ pc[s] = "publish"
    /\ \E v \in versions : IsLatest(v) /\ latest' = [latest EXCEPT ![s] = v.no]
    /\ Goto(s, "gate")
    /\ UNCHANGED <<db, connected, seen, text, fired>>

\* Gate: a completed run must exist for the current version.
Validated_any(no) == tested # {}
Validated(no) == no \in tested

PublishGate(s) ==
    /\ pc[s] = "gate"
    /\ IF Validated(latest[s])
       THEN Goto(s, "requirements") /\ UNCHANGED <<seen, latest, text>>
       ELSE Done(s)
    /\ UNCHANGED <<db, connected, fired>>

\* Gate: every required, connectable integration must be connected.
Missing(no) == Body(no) \in Needy /\ ~connected

PublishRequirements(s) ==
    /\ pc[s] = "requirements"
    /\ IF Missing(latest[s])
       THEN Done(s)
       ELSE Goto(s, "publish_commit") /\ UNCHANGED <<seen, latest, text>>
    /\ UNCHANGED <<db, connected, fired>>

PublishCommit(s) ==
    /\ pc[s] = "publish_commit"
    /\ wf' = Flush(seen[s], [seen[s] EXCEPT !.status = "published",
                                            !.published = latest[s]])
    /\ Done(s)
    /\ UNCHANGED <<versions, tested, connected, fired>>

Unpublish(s) ==
    /\ pc[s] = "unpublish"
    /\ wf' = Flush(seen[s], [seen[s] EXCEPT !.status = "draft", !.published = 0])
    /\ Done(s)
    /\ UNCHANGED <<versions, tested, connected, fired>>

(***************************************************************************)
(* set_self_heal and soft_delete                                           *)
(***************************************************************************)

SetSelfHeal(s) ==
    /\ pc[s] = "self_heal"
    /\ \E policy \in Policies :
         wf' = Flush(seen[s], [seen[s] EXCEPT !.self_heal = policy])
    /\ Done(s)
    /\ UNCHANGED <<versions, tested, connected, fired>>

SoftDelete(s) ==
    /\ pc[s] = "delete"
    /\ wf' = Flush(seen[s], [seen[s] EXCEPT !.deleted = TRUE])
    /\ Done(s)
    /\ UNCHANGED <<versions, tested, connected, fired>>

(***************************************************************************)
(* execute_workflow: a demo ("test") or a production ("run") execution     *)
(***************************************************************************)

\* The latest version is read and an execution of it starts.
RunLatest(s) ==
    /\ pc[s] \in {"test", "run"}
    /\ \E v \in versions : IsLatest(v) /\ latest' = [latest EXCEPT ![s] = v.no]
    /\ Goto(s, IF pc[s] = "test" THEN "testing" ELSE "running")
    /\ UNCHANGED <<db, connected, seen, text, fired>>

\* The flag `live` of a production run: the row it loaded was published.
Live_always(s) == TRUE
Live(s) == seen[s].status = "published"

\* A node of the running version performs a side effect.  The flag reaches only
\* the executor of mixed graphs and, there, only the action nodes; everything
\* else acts for real, also in the run of a draft.  (A demo run is mocked.)
RunFire(s) ==
    /\ pc[s] = "running"
    /\ \E way \in Ways :
         /\ way = "gated" => Live(s)
         /\ fired' = fired \cup {[no |-> latest[s], way |-> way]}
    /\ UNCHANGED <<db, connected, sess>>

\* The execution row is committed as COMPLETED.
RunCompleted(s) ==
    /\ pc[s] \in {"testing", "running"}
    /\ tested' = tested \cup {latest[s]}
    /\ Done(s)
    /\ UNCHANGED <<wf, versions, connected, fired>>

\* The run ends FAILED or CANCELLED, or the client goes away and nothing more
\* is committed.
RunNotCompleted(s) ==
    /\ pc[s] \in {"testing", "running"}
    /\ Done(s)
    /\ UNCHANGED <<db, connected, fired>>

\* The workspace's connections come and go (routers/connections.py).
ConnectionChanges ==
    /\ connected' = ~connected
    /\ UNCHANGED <<db, sess, fired>>

(***************************************************************************)
(* The specification                                                       *)
(***************************************************************************)

Init ==
    /\ wf = InitRow
    /\ versions = {InitVersion}
    /\ tested = {}
    /\ connected = FALSE
    /\ pc = [s \in Sessions |-> "idle"]
    /\ seen = [s \in Sessions |-> InitRow]
    /\ latest = [s \in Sessions |-> 0]
    /\ text = [s \in Sessions |-> InitVersion]
    /\ fired = {}

Request(s) ==
    \/ \E op \in Ops : Begin(s, op)
    \/ Update(s)
    \/ RollbackTarget(s) \/ RollbackRefetch(s) \/ RollbackCommit(s)
    \/ RenameLatest(s) \/ RenameCommit(s)
    \/ PublishLatest(s) \/ PublishGate(s) \/ PublishRequirements(s)
    \/ PublishCommit(s)
    \/ Unpublish(s)
    \/ SetSelfHeal(s)
    \/ SoftDelete(s)
    \/ RunLatest(s) \/ RunFire(s) \/ RunCompleted(s) \/ RunNotCompleted(s)

Next == ConnectionChanges \/ \E s \in Sessions : Request(s)

Spec == Init /\ [][Next]_vars

(***************************************************************************)
(* Properties                                                              *)
(***************************************************************************)

\* No edit is lost and no number is used twice: whatever edits, rollbacks and
\* renames race, the versions are exactly 1..current_version, one row each.
VersionsAreLog ==
    /\ \A v \in versions : v.no \in 1..wf.current
    /\ \A no \in 1..wf.current : \E v \in versions : v.no = no
    /\ \A v, w \in versions : v.no = w.no => v = w

\* The publish gate cannot be raced: the version marked as published has a
\* COMPLETED execution, although the gate, the requirements and the commit are
\* separate statements and other requests commit in between.
PublishedIsTested == wf.published = 0 \/ wf.published \in tested

\* An action node acts for real only after a successful run of the version that
\* acts or of an earlier one, however stale the row that made the run live.  (The
\* ways that are not gated are excepted, for the code does not hold them back.)
ActionsFollowTests ==
    \A act \in fired : act.way = "gated" => \E tst \in tested : tst <= act.no

\* What a version does never changes: a rename that read the latest version
\* before an edit committed rewrites that version's name only.
BodiesImmutable ==
    [][\A v \in versions : \E w \in versions' : w.no = v.no /\ w.body = v.body]_vars

\* The log of versions that a reader of the committed rows sees.
Log == [no \in 1..wf.current |-> Body(no)]

Ledger == INSTANCE VersionLedger WITH log <- Log, live <- wf.published

\* Racing requests still implement the ledger: appends to a log, test runs of
\* its versions, and going live with a tested version only.
ImplementsLedger == Ledger!Spec

(***************************************************************************)
(* What the code's comments say and racing requests refute                 *)
(***************************************************************************)

\* update_workflow: "a previously-published workflow reverts to draft so the
\* new version can't go live without being re-validated and re-published".
OnlyTestedVersionsAct == \A act \in fired : act.way = "gated" => act.no \in tested

\* execute_workflow: "real side effects only fire for a PUBLISHED workflow on a
\* production (non-demo) run [...] a draft production run still previews";
\* invoke_action: "a draft can never touch the outside world".
DraftNeverActs ==
    [][fired' # fired => \E s \in Sessions : pc[s] = "running" /\ Live(s)]_vars

\* models/workflow.py, on published_version_id: "When published: the version
\* that went live".
PublishedHasVersion == wf.status = "published" => wf.published # 0
=============================================================================
