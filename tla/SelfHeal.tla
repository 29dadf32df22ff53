------------------------------ MODULE SelfHeal ------------------------------
(***************************************************************************)
(* The headless self-heal monitor (tasks/self_healing.py and the apply     *)
(* half of services/healing_service.py) next to the requests of            *)
(* WorkflowLifecycle.                                                      *)
(*                                                                         *)
(* A job heals the workflow in one database session of its own.  It loads  *)
(* the row once, asks a language model for a patch, takes a Redis lock     *)
(* with a time to live, applies the patch, verifies it with a demo run and *)
(* publishes; the session keeps the row it loaded until it refreshes it    *)
(* after its own edit.  A job can run into the worker's timeout, and the   *)
(* worker can die.                                                         *)
(***************************************************************************)
EXTENDS WorkflowLifecycle

CONSTANTS
    Healers,      \* heal jobs of overlapping monitor passes
    Ceiling,      \* AGENT_SELF_HEAL_AUTO_APPLY
    Faults,       \* what can befall a job, a subset of {"llm", "timeout", "kill"}
    JobTimeout,   \* the worker's job_timeout, in ticks of the clock
    LockTTL       \* the lock's time to live

ASSUME HealAssumption ==
    /\ Ceiling \in Policies
    /\ Faults \subseteq {"llm", "timeout", "kill"}
    /\ JobTimeout \in Nat \ {0}
    /\ LockTTL \in Nat \ {0}
    /\ JobTimeout < LockTTL       \* 600 s and 900 s

VARIABLES
    job,        \* the heal jobs
    lock,       \* what is left of the lock's time to live, 0 when it is free
    cooldown,   \* the cooldown key exists
    kept        \* history: the requests, not the jobs, left it in draft

heal     == <<job, lock, cooldown>>
healVars == <<vars, heal, kept>>

HPCs == {"idle", "load", "patch", "lock", "guard", "apply", "refresh", "verify",
         "judge", "refetch", "publish", "gate", "requirements", "publish_commit",
         "raise", "release", "record"}

\* What a job's incident says; a raised or cancelled job records none.
Notes == {"none", "no_patch", "left_live", "skipped", "drafted", "left_draft",
          "published", "rolled_back", "offline", "raised", "cancelled"}

Job == [pc        : HPCs,
        policy    : Policies,
        seen      : Row,                     \* the row in its session
        base      : Nat,                     \* base_version
        text      : Version,                 \* the definition it patches
        was       : {"draft", "published"},  \* prior_status
        prior     : Version,                 \* prior_pub_def
        restoring : BOOLEAN,
        latest    : Nat,
        note      : Notes,
        left      : 0..JobTimeout]

\* No definition: prior_pub_def is None.
NoVersion == [InitVersion EXCEPT !.no = 0]

NewJob == [pc |-> "idle", policy |-> "off", seen |-> InitRow, base |-> 0,
           text |-> NoVersion, was |-> "draft", prior |-> NoVersion,
           restoring |-> FALSE, latest |-> 0, note |-> "none", left |-> JobTimeout]

HealTypeOK == /\ TypeOK
              /\ job \in [Healers -> Job]
              /\ lock \in 0..LockTTL
              /\ cooldown \in BOOLEAN
              /\ kept \in BOOLEAN

(***************************************************************************)
(* A job's moves                                                           *)
(***************************************************************************)

At(h, label) == job[h].pc = label
Becomes(h, new) == job' = [job EXCEPT ![h] = new]
Moves(h, label) == Becomes(h, [job[h] EXCEPT !.pc = label])

\* The job has its outcome; it lets go of the lock and records the incident.
Ends(j, note) == [j EXCEPT !.pc = "release", !.note = note]

\* It answers without holding the lock.
Reports(h, note) == Becomes(h, [job[h] EXCEPT !.pc = "record", !.note = note])

\* The job is over; nothing but what it said is kept of it.
Over(note) == [NewJob EXCEPT !.note = note]

\* _restore_note and the first lines of _restore: nothing to bring back for a
\* workflow that was a draft, or whose published definition is not known.
Rollback_none(j) == Ends(j, "rolled_back")
Rollback(j) ==
    IF j.was = "draft" THEN Ends(j, "left_draft")
    ELSE IF j.prior.no = 0 THEN Ends(j, "rolled_back")
    ELSE [j EXCEPT !.pc = "refetch", !.restoring = TRUE]

\* publish_workflow raised: the heal is rolled back; a rollback that fails so
\* leaves the workflow offline.
PublishRaised(h) ==
    Becomes(h, IF job[h].restoring THEN Ends(job[h], "offline") ELSE Rollback(job[h]))

OnlyJob == UNCHANGED <<db, lock, cooldown>>

(***************************************************************************)
(* Scan, evidence, diagnosis, patch                                        *)
(***************************************************************************)

\* The policy of the workflow, capped by the environment's ceiling.
Effective(policy) ==
    IF "off" \in {policy, Ceiling} THEN "off"
    ELSE IF "safe" \in {policy, Ceiling} THEN "safe" ELSE "autonomous"

\* A pass flags the workflow: it opted in and is not in its cooldown.
Flag(h) ==
    /\ At(h, "idle")
    /\ ~wf.deleted
    /\ ~cooldown
    /\ Effective(wf.self_heal) # "off"
    /\ wf.current < MaxVersion
    /\ Becomes(h, [NewJob EXCEPT !.pc = "load", !.policy = Effective(wf.self_heal)])
    /\ OnlyJob

\* heal_headless loads the row, for good; a deleted workflow raises.
HealLoad(h) ==
    /\ At(h, "load")
    /\ IF wf.deleted
       THEN Becomes(h, Over("raised"))
       ELSE Becomes(h, [job[h] EXCEPT !.pc = "patch", !.seen = wf, !.base = wf.current])
    /\ OnlyJob

\* The language model cannot be reached, or answers with nothing that parses.
HealDiagnosisFails(h) ==
    /\ "llm" \in Faults
    /\ At(h, "patch")
    /\ Becomes(h, Over("raised"))
    /\ OnlyJob

\* No fixable finding, no owner, no patch, or one out of the findings' scope.
HealNoPatch(h) ==
    /\ At(h, "patch")
    /\ Reports(h, "no_patch")
    /\ OnlyJob

\* The latest version is read again and patched.  The safe policy leaves a
\* workflow alone that was live when the job loaded it.
HealPatch(h) ==
    /\ At(h, "patch")
    /\ \E v \in versions :
         /\ IsLatest(v)
         /\ IF job[h].policy = "safe" /\ job[h].seen.status = "published"
            THEN Reports(h, "left_live")
            ELSE Becomes(h, [job[h] EXCEPT !.pc = "lock", !.text = v])
    /\ OnlyJob

(***************************************************************************)
(* Apply                                                                   *)
(***************************************************************************)

\* SET NX EX: one job gets the lock.
LockFree_any == TRUE
LockFree == lock = 0

HealLock(h) ==
    /\ At(h, "lock")
    /\ IF LockFree THEN lock' = LockTTL /\ Moves(h, "guard")
                   ELSE Reports(h, "skipped") /\ UNCHANGED lock
    /\ UNCHANGED <<db, cooldown>>

\* The staleness guard gets the row from the session that loaded it, so it
\* compares base_version with the number it was taken from.  The update that
\* follows queries the row again, which shows a deletion and nothing else.
HealGuard(h) ==
    LET fresh == job[h].seen
        live  == {v \in versions : fresh.status = "published" /\ v.no = fresh.published}
    IN  /\ At(h, "guard")
        /\ IF fresh.current # job[h].base THEN Becomes(h, Ends(job[h], "skipped"))
           ELSE IF wf.deleted THEN Moves(h, "raise")
           ELSE Becomes(h, [job[h] EXCEPT
                    !.pc = "apply", !.was = fresh.status,
                    !.prior = IF live = {} THEN NoVersion ELSE CHOOSE v \in live : TRUE])
        /\ OnlyJob

\* update_workflow commits the patch, or the restored definition.  A version
\* inserted meanwhile makes the commit fail: the heal raises, while a rollback
\* reports that it failed.
HealApply(h) ==
    LET j == job[h]
    IN  /\ At(h, "apply")
        /\ IF j.restoring
           THEN CommitEdit(j.seen, j.prior.name, j.prior.body)
           ELSE \E name \in Names, body \in Bodies : CommitEdit(j.seen, name, body)
        /\ IF VersionFree(j.seen.current + 1) THEN Moves(h, "refresh")
           ELSE IF j.restoring THEN Becomes(h, Ends(j, "offline"))
           ELSE Moves(h, "raise")
        /\ UNCHANGED <<tested, lock, cooldown>>

\* The row is read back after the commit, as the requests have left it by then.
HealRefresh(h) ==
    LET j == [job[h] EXCEPT !.seen = wf]
    IN  /\ At(h, "refresh")
        /\ Becomes(h, IF j.policy = "safe" THEN Ends(j, "drafted")
                                           ELSE [j EXCEPT !.pc = "verify"])
        /\ OnlyJob

(***************************************************************************)
(* Verify                                                                  *)
(***************************************************************************)

\* A demo execution of whatever version is the latest now; a deleted workflow
\* yields an error event, which fails the heal and which a rollback ignores.
HealVerify(h) ==
    /\ At(h, "verify")
    /\ IF wf.deleted
       THEN Becomes(h, IF job[h].restoring THEN [job[h] EXCEPT !.pc = "publish"]
                                           ELSE Rollback(job[h]))
       ELSE \E v \in versions :
              /\ IsLatest(v)
              /\ Becomes(h, [job[h] EXCEPT !.pc = "judge", !.latest = v.no])
    /\ OnlyJob

\* Only a workflow that was already live is published again.
Accept(j) == IF j.was = "draft" THEN Ends(j, "left_draft")
                                ELSE [j EXCEPT !.pc = "publish"]

\* The demo run completes, and the judge's verdict is not "fail".
HealPasses(h) ==
    /\ At(h, "judge")
    /\ tested' = tested \cup {job[h].latest}
    /\ Becomes(h, Accept(job[h]))
    /\ UNCHANGED <<wf, versions, lock, cooldown>>

\* The demo run raises an error, or the judge fails it; a rollback asks no
\* judge and goes on to publish.
HealVerdictFails(h) ==
    /\ At(h, "judge")
    /\ tested' \in {tested, tested \cup {job[h].latest}}
    /\ Becomes(h, IF job[h].restoring THEN [job[h] EXCEPT !.pc = "publish"]
                                      ELSE Rollback(job[h]))
    /\ UNCHANGED <<wf, versions, lock, cooldown>>

\* The demo run completes and the call of the judge's model raises.  _judge makes an
\* "unknown" of a HealingError, and that passes; an error of the client itself
\* nobody catches before the finally, so nothing is rolled back.
HealJudgeRaises(h) ==
    /\ "llm" \in Faults
    /\ At(h, "judge")
    /\ ~job[h].restoring
    /\ tested' = tested \cup {job[h].latest}
    /\ Moves(h, "raise")
    /\ UNCHANGED <<wf, versions, lock, cooldown>>

\* The rollback's update_workflow fetches the row.
HealRefetch(h) ==
    /\ At(h, "refetch")
    /\ IF wf.deleted THEN Becomes(h, Ends(job[h], "offline")) ELSE Moves(h, "apply")
    /\ OnlyJob

(***************************************************************************)
(* Publish: the statements of publish_workflow in the job's session        *)
(***************************************************************************)

HealPublish(h) ==
    /\ At(h, "publish")
    /\ IF wf.deleted
       THEN PublishRaised(h)
       ELSE \E v \in versions :
              IsLatest(v) /\ Becomes(h, [job[h] EXCEPT !.pc = "gate", !.latest = v.no])
    /\ OnlyJob

HealPublishGate(h) ==
    /\ At(h, "gate")
    /\ IF Validated(job[h].latest) THEN Moves(h, "requirements") ELSE PublishRaised(h)
    /\ OnlyJob

HealRequirements(h) ==
    /\ At(h, "requirements")
    /\ IF Missing(job[h].latest) THEN PublishRaised(h) ELSE Moves(h, "publish_commit")
    /\ OnlyJob

HealPublishCommit(h) ==
    LET old == job[h].seen
    IN  /\ At(h, "publish_commit")
        /\ wf' = Flush(old, [old EXCEPT !.status = "published", !.published = job[h].latest])
        /\ Becomes(h, Ends(job[h], IF job[h].restoring THEN "rolled_back" ELSE "published"))
        /\ UNCHANGED <<versions, tested, lock, cooldown>>

(***************************************************************************)
(* The end of a job, and what can cut it short                             *)
(***************************************************************************)

\* finally: the lock key is deleted, whoever set it.
HealRelease(h) ==
    /\ At(h, "release")
    /\ lock' = 0
    /\ Moves(h, "record")
    /\ UNCHANGED <<db, cooldown>>

\* The incident is saved and the cooldown starts.
HealRecord(h) ==
    /\ At(h, "record")
    /\ cooldown' = TRUE
    /\ Becomes(h, Over(job[h].note))
    /\ UNCHANGED <<db, lock>>

\* An exception of the apply step passes the finally and reaches _heal_one, which
\* logs it: no incident, no cooldown.
HealRaise(h) ==
    /\ At(h, "raise")
    /\ lock' = 0
    /\ Becomes(h, Over("raised"))
    /\ UNCHANGED <<db, cooldown>>

InLock(h) == job[h].pc \notin {"idle", "load", "patch", "lock", "record"}

\* The worker cancels a job that ran into its timeout; the finally runs.
HealTimeout(h) ==
    /\ "timeout" \in Faults
    /\ ~At(h, "idle")
    /\ job[h].left = 0
    /\ lock' = IF InLock(h) THEN 0 ELSE lock
    /\ Becomes(h, Over("cancelled"))
    /\ UNCHANGED <<db, cooldown>>

\* The worker dies, and the lock with no one to release it stays.
HealKill(h) ==
    /\ "kill" \in Faults
    /\ ~At(h, "idle")
    /\ Becomes(h, Over("cancelled"))
    /\ OnlyJob

\* The lock's key expires when its time to live is over.
Remaining_forever == lock
Remaining == IF lock = 0 THEN 0 ELSE lock - 1

\* Time passes; a job at its timeout is cancelled before more of it does.
Tick ==
    /\ "timeout" \in Faults
    /\ lock # 0 \/ \E h \in Healers : ~At(h, "idle")
    /\ \A h \in Healers : ~At(h, "idle") => job[h].left > 0
    /\ lock' = Remaining
    /\ job' = [h \in Healers |-> IF At(h, "idle") THEN job[h]
                                 ELSE [job[h] EXCEPT !.left = @ - 1]]
    /\ UNCHANGED <<db, cooldown>>

CooldownEnds ==
    /\ cooldown
    /\ cooldown' = FALSE
    /\ UNCHANGED <<db, job, lock>>

(***************************************************************************)
(* The specification                                                       *)
(***************************************************************************)

HealInit == Init /\ job = [h \in Healers |-> NewJob] /\ lock = 0 /\ cooldown = FALSE
                 /\ kept = TRUE

HealJob(h) ==
    \/ HealLoad(h) \/ HealDiagnosisFails(h) \/ HealNoPatch(h) \/ HealPatch(h)
    \/ HealLock(h) \/ HealGuard(h) \/ HealApply(h) \/ HealRefresh(h)
    \/ HealVerify(h) \/ HealPasses(h) \/ HealVerdictFails(h) \/ HealJudgeRaises(h)
    \/ HealRefetch(h) \/ HealPublish(h) \/ HealPublishGate(h) \/ HealRequirements(h)
    \/ HealPublishCommit(h)
    \/ HealRelease(h) \/ HealRecord(h) \/ HealRaise(h)

HealStep ==
    /\ \/ \E h \in Healers : Flag(h) \/ HealJob(h) \/ HealTimeout(h) \/ HealKill(h)
       \/ Tick
       \/ CooldownEnds
    /\ UNCHANGED <<connected, sess, fired, kept>>

RequestStep ==
    /\ Next
    /\ kept' = IF wf'.status = wf.status THEN kept ELSE wf'.status = "draft"
    /\ UNCHANGED heal

HealNext == RequestStep \/ HealStep

HealSpec == HealInit /\ [][HealNext]_healVars

\* A job that is not killed goes on, time passes, and timeouts come.
Fairness ==
    /\ WF_healVars(Tick /\ UNCHANGED <<connected, sess, fired, kept>>)
    /\ \A h \in Healers :
         WF_healVars((HealJob(h) \/ HealTimeout(h)) /\ UNCHANGED <<connected, sess, fired, kept>>)

FairHealSpec == HealSpec /\ Fairness

(***************************************************************************)
(* Properties                                                              *)
(***************************************************************************)

\* Heals of overlapping passes apply one at a time: the lock outlives every
\* job that holds it, so the unconditional delete never frees another's lock.
OneHealApplies == \A g, h \in Healers : InLock(g) /\ InLock(h) => g = h

\* A heal never overwrites an edit it has not seen: the version it commits
\* follows the very version whose definition it patched, although the guard
\* compares nothing and requests commit while the model thinks.
HealFollowsItsBase ==
    [][\A h \in Healers : At(h, "apply") /\ job'[h].pc = "refresh" /\ ~job[h].restoring
          => wf.current = job[h].text.no /\ wf'.current = wf.current + 1]_healVars

\* A job that dies holding the lock does not stop healing for good.
LockIsFreed == lock # 0 ~> lock = 0

\* The workflow is live, or a request, not a job, has left it in draft.
LiveOrKept == wf.status = "published" \/ kept

\* What leaves the lock: a job with a known version to bring back, to a workflow that
\* is offline by no request.
LeavesOffline(h) ==
    /\ InLock(h) /\ ~InLock(h)'
    /\ job[h].was = "published" /\ job[h].prior.no # 0
    /\ ~LiveOrKept

\* Without timeouts a heal that comes back from its apply step and had taken a live
\* workflow offline, knowing which version was live, has brought it back, patched or
\* restored, or says that it is offline -- unless a request took it offline after
\* that.  (One that raises does not come back: see RollsBackOnFailure.)
HealLeavesLive ==
    [][\A h \in Healers :
          LeavesOffline(h) /\ ~At(h, "raise") => job'[h].note = "offline"]_healVars

(***************************************************************************)
(* What the code's comments say and a heal beside a request refutes        *)
(***************************************************************************)

\* _apply_autonomous: "Never push a workflow a human deliberately kept in draft
\* to production".
NeverPushesDraft ==
    [][\A h \in Healers : At(h, "publish_commit") /\ job'[h].pc = "release" => ~kept]_healVars

\* _apply_autonomous: "Apply, verify (persisted demo), publish, holding a lock and
\* rolling back to the prior published version on failure".
RollsBackOnFailure ==
    [][\A h \in Healers : LeavesOffline(h) => job'[h].note = "offline"]_healVars

\* heal_headless: "Never raises -- a failed heal is recorded on the report and the
\* incident".
NeverRaises == \A h \in Healers : job[h].note # "raised"
=============================================================================
