# EnterpriseGPT: specifications

EnterpriseGPT (`src/apps/api`, a FastAPI service with background workers, and
`src/dynamiq`, the agent library it carries with it) turns a description of a
business process into a workflow, a graph of nodes (agents, conditions, loops,
actions on third-party systems), keeps its versions, runs it on request, on a
schedule or with a person's approval, watches how its runs end and repairs it.
This directory holds TLA+ models of the parts in which order, concurrency and
failure decide whether the system is right, the TLC configurations that check
them on small instances, and TLAPS proofs for every value of their constants.

| module | what it is |
|---|---|
| `VersionLedger` | abstract specification of a workflow's versions and of going live |
| `WorkflowLifecycle` | the `workflows` and `workflow_versions` rows under racing HTTP requests; refines `VersionLedger` |
| `SelfHeal` | the self-heal monitor's jobs next to those requests (extends `WorkflowLifecycle`) |
| `GraphExecutor` | one execution of a graph, and its row |
| `WebhookPark` | executions that wait for webhooks, and the requests that resume them |
| `EventStream` | the bounded queue of events and heartbeats between an execution and its client |
| `HumanGate` | an execution with human checkpoints, its row and its stream (extends `EventStream`) |
| `ScheduleDispatcher` | the cron tick that fires scheduled workflows, and the worker's pool |
| `ChatSession` | the messages of one chat session: limits, memory, redaction, transaction |
| `DataStore` | writes of runs and of chat tools to the rows of a workspace's table |
| `ResultLog` | abstract specification of what a flow's snapshots promise to a run that resumes |
| `DynamiqFlow` | a flow of the dynamiq library: main loop, node threads, checkpoints, resume; refines `ResultLog` |
| `...Proofs` | the theorems and proofs about the detailed specifications above, a module for each (those of `SelfHeal` are in `WorkflowLifecycleProofs`, that of `EventStream` in `HumanGateProofs`) |
| `MC...` | small instances for TLC, one `.cfg` per question |

Run `tlc -config MCLifecyclePublish.cfg MCWorkflowLifecycle` (and so on, see the table
of runs) and `tlapm WorkflowLifecycleProofs.tla`.

## The system: an inventory

### Workflow store (`services/workflow_service.py`, `models/`, `core/database.py`)

*State.* A `workflows` row (current version, status, published version, name,
deletion mark, self-heal policy), the `workflow_versions` rows (unique on
workflow and number), the `workflow_executions` rows.  *Operations.* Create,
update, rename, rollback, publish, unpublish, delete, set the self-heal policy,
execute for real or as a demo.  *Interactions.* Called by the HTTP routers, by
the background runner and by the healer, each with a database session of its
own; execution calls the graph executor, the checkpoint graph or the agent
runtime.  *Hard.* The database runs at READ COMMITTED, without row locks or a
version column.  A session keeps the objects it loaded, so a second SELECT of
the same row returns the old columns, and a commit writes only the columns that
changed with respect to what was loaded; a gate that was checked may not hold
any more at the commit.  *Correct when* no edit is lost or numbered twice; the
version marked as published was tested; the action nodes of a run act for real only
after a test; a version never changes what it does.

### Self-heal monitor (`services/healing_service.py`, `tasks/self_healing.py`, `tasks/worker.py`)

*State.* A lock with a time to live and a cooldown key per workflow in Redis,
incidents, the local variables of a job over several commits.  *Operations.*
Scan, diagnose with a language model, patch, verify with a demo run, judge,
publish, roll back, record.  *Interactions.* Calls update, execute and publish of the
workflow store in one long-lived session while people edit the same workflow;
jobs of overlapping passes meet in the lock; the arq worker cancels jobs at
their timeout.  *Hard.* Minutes pass between reading and writing; every step
can fail, some of them where nothing catches it; the worker can die.  *Correct when*
heals of one workflow apply one at a time, never overwrite an edit they have not
seen, and leave a live workflow live or say that they did not (which the code does
only for a heal that comes to its end).

### Graph executor (`agents/extended_executor.py`, `schemas/workflow.py`)

*State.* The walk's `outputs`, `decisions` and `skipped`, the items of a loop,
the status of the execution row.  *Operations.* One per node kind, and the
events that the service turns into the row's status.  *Interactions.*
`execute_workflow` drains its event stream; Redis carries resume payloads.
*Hard.* Whether a node runs depends on what was decided and skipped before it;
loop items run concurrently under a semaphore, each with its own copy of
`skipped`; an error is fatal, skipped over or routed; the stream may be left at
any await.  *Correct when* the walk reaches every node and ends, a choice made
at a node is still right at the end, branches of one decision exclude each
other, and a completed row has no gap.

### Human approval checkpoints (`agents/langgraph/hitl_graph.py`, `service.py`, `checkpointer.py`)

*State.* A LangGraph thread with its checkpoint, one approval key per execution
in Redis, the row's status.  *Operations.* Pause, poll, approve or reject,
resume, execute the next agent.  *Hard.* The approval is read and deleted in two
commands, is not tied to the checkpoint that asked, and may arrive twice, early or
after the time limit; completion is told before it is stored, and the handler of a
failed commit commits again.  *Correct when* no stage runs without an approval of its
own, a rejected execution does nothing after it, and the client is told what the row
says (which holds unless a commit raises).

### Webhook park and resume (`routers/workflows.py`, `_park_for_webhook`)

*State.* A resume token and a payload per parked node, both with a time to
live.  *Hard.* Token read, payload write and token delete are three commands,
against a poll and a deadline.  *Correct when* a wait passes on only what was posted
with its own token, and an answered token is refused.

### Event streams with heartbeat (`routers/workflows.py`, `routers/chat.py`)

*State.* A bounded queue between a pump task and the response.  *Hard.* The
client goes away while the pump is blocked on a full queue; heartbeats share the
queue.  *Correct when* every event reaches a client that stays, in order.

### Schedule dispatcher and background runner (`tasks/schedule_dispatcher.py`, `tasks/workflow_runner.py`, `tasks/worker.py`)

*State.* A marker per schedule and minute, jobs in Redis, a pool that heals, runs and
ticks share.  *Hard.* Ticks overlap when the pool is busy, fail, are requeued at a
shutdown; a crash between claim and enqueue; a run that parks.  *Correct when* a
slot is fired at most once, in time, and a tick passes over no workflow that was due.
The tick's loop guards the parsing of a stored definition but not that of its cron
expression: one on which croniter raises (`schedule_dispatcher.py:54`, `:97`) ends the
tick for all workflows after it, which the model has as `TickFails`.

### Chat sessions and handoffs (`agents/chat_runtime.py`, `routers/chat.py`, `services/chat_pii.py`, `chat_rate_limiter.py`, `memory_store.py`)

*State.* Session and message rows, totals, a window of messages, a memory and
a token map in Redis.  *Hard.* Turns of one session race with each other and with
its close; rows are written over a dozen model calls; the token map is written
after the commit.  *Correct when* committed turns are whole and can be restored,
limits hold, and totals add up.

### Dynamiq flow engine (`dynamiq/flows/flow.py`, `nodes/node.py`, `executors/pool.py`, `checkpoints/`, `nodes/agents/`)

*State.* A topological sorter, the results of a run, futures of node threads,
the checkpoint in memory and its snapshots in a backend, and the node objects
themselves, which keep answers and iterations from run to run.  *Operations.* Run
(in threads or as tasks), resume, cancel; in a node: ask for approval, attempt,
retry, time out, iterate, save.  *Interactions.* Node threads write the same checkpoint
as the main loop; a person answers through a queue; the agent runtime of the API
builds on it.  *Hard.* A crash between a result and its save; a save that
fails; a canceled batch; an attempt that timed out and runs on; node objects
that outlive the run.  *Correct when* no node is forgotten, none is run twice,
none without its approval, and a snapshot holds only results that agree with
one another.

### Workspace tables and tool calls (`agents/tool_resolver.py`, `_data_store_op`, `models/workflow_data.py`)

*State.* A JSON row per workspace, table and key.  *Operations.* A write merges its
payload into the row, by a `data_store` node of a run or by a `data_store` tool that
an agent calls in a chat; reads and queries.  *Interactions.* The node writes
through the session of its run, which also holds the run's step rows; the tool
through the session of its chat turn, under a time limit and with retries.  *Hard.*
The merge is done in Python; the commit carries what else is in the session; an
attempt that timed out may have committed.  *Correct when* a call writes once, rows hold
what was written to them, and success is not told of what is not saved.

### Rate limiters

The HTTP limiter (`middleware/rate_limit.py`) is a window like that of chat
messages.

### The rest

Agent runtime and model adapters, interpreter and clarification, healing
prompts, authentication, OAuth and connections, MCP, retrieval, analytics and
reports, templates, voice, middleware, migrations, the web front end, the rest of the
Dynamiq library (clients of models, vector stores, files and tools) and the deployment
files hold no protocol of their own: they transform data, wrap one external
call, or read and write one row at a time.  `PROJECT.json` lists each with the
reason.

## The plan

1. `VersionLedger`, `WorkflowLifecycle`: what everything else acts on.  *Done, safety
   and refinement proved.*
2. `SelfHeal`, composed with 1: the one writer that is not a person.  *Done;
   types, safety and the refinement proved.*
3. `GraphExecutor`: what an execution is.  *Done, safety proved.*
4. `DynamiqFlow` with `ResultLog`: the engine underneath the agents.  *Done,
   safety and refinement proved.*
5. `EventStream` and, on top of it, `HumanGate`.  *Done, safety proved.*
6. `WebhookPark`: the protocol behind the actions `Park` and `Unpark` of 3.
   *Done, safety proved.*
7. `ScheduleDispatcher`.  *Done, safety proved.*
8. `ChatSession`, with the chat limiter, memory and token map.  *Done, safety
   proved.*

9. `DataStore`: the one table that runs and chats share.  *Done, safety proved.*

Left: the orchestrators of the Dynamiq library; the HTTP limiter; a statement of what a
heal leaves behind when it raises, is timed out or killed.

## WorkflowLifecycle

**State.** `wf` is the committed row and `versions` are the version rows; `tested`
is what the publish gate asks of `workflow_executions`, the versions with a
COMPLETED execution; `connected` says whether the workspace holds the connection that
`Needy` definitions require.  A session of `Sessions` is one request: `pc` is the
statement it is at, `seen` its identity map, `latest` and `text` what it read
last.  `fired` is a history variable: which version acted for real, and in which of
the `Ways`.

**Actions.** One per statement or commit of a handler, named for handler and
statement: `PublishLatest`, `PublishGate`, `PublishRequirements` and `PublishCommit` are
the four of `publish_workflow`.  `Begin` is the row's SELECT that starts every
handler.  `Flush` is the UPDATE of a commit: `Written` writes a column only if
the handler set it to something other than what the session had loaded.  An
edit whose version number was taken meanwhile fails whole, on the unique
constraint (`VersionFree`).

**What the flag `live` reaches.**  A production run computes `live` from the row it loaded
(`workflow_service.py:1463`), and only `invoke_action` asks for it, for the action
nodes of `ExtendedWorkflowExecutor`.  These effects are `gated`.  All others are
`ungated`, and happen in the run of a draft that nobody has tested: the tools of an
agent, whether native, Composio, MCP or action nodes that are its satellites
(`tool_resolver.py:300`), on the unified-graph path, the checkpoint path and the
native one alike; `data_store` nodes; and `fire_workflow`, which `invoke_action` carries
out before it looks at the flag.  `RunFire` has both.  `ActionsFollowTests` is what the
flag guarantees, of the `gated` ones; that it guarantees no more is `MCLifecycleDraftRun`.

**Abstracted.** A definition is a body (what it does) and a name.  Users, workspaces
and permissions are left out, so are drafts of the editor and audit stamps.  A
run is its start, the side effects of its nodes, and its end.

**Abstract specification.** `VersionLedger` is what a reader of the committed rows may rely
on: a log of definitions that only grows, and a live mark that is only ever put
on a tested version.  `Log` maps the rows to it.

## SelfHeal

**State.** `job` holds, per heal job, the statement it is at and the locals of
`_apply_autonomous`; `lock` what is left of the lock's time to live; `cooldown`
whether the cooldown key exists; `kept`, a history variable, whether the last
change of status was a person's that made it a draft.

**Actions.** The statements of `heal_headless`, `_apply_safe` or `_apply_autonomous`,
`_verify_persisted`, `_judge`, `publish_workflow` and `_restore`, in the job's own
session: `HealGuard` reads the row from the identity map, as `db.get` does, and
`HealRefresh` is the `db.refresh` that ends `update_workflow`.  `HealTimeout` is
the worker's cancellation, after which `finally` runs but no `except Exception`;
`HealKill` a worker that dies, after which nothing runs; `Tick` the clock, in which
the job's timeout is shorter than the lock's time to live (600 s and 900 s in the
code).  The requests of `WorkflowLifecycle` go on beside them.

**A judge that raises.**  `_judge` catches `HealingError`, and makes an "unknown" of it, which
passes.  That is what an answer that is empty or no JSON raises; what the client of the model
raises itself in `_call_llm` (a timeout, a lost connection, a limit on the rate) passes `_judge`,
`_verify_persisted` and `_apply_autonomous`, whose `finally` frees the lock and rolls
nothing back (`HealJudgeRaises`).  The workflow stays offline on an unpublished patch, and no
incident is recorded.  `HealLeavesLive` therefore speaks of heals that do not raise, and
`MCSelfHealJudge` shows the ones that do.

**Abstracted.** The patch is any definition; diagnosis and judge are choices.  A database
that fails under a job's commit is left out, but for the unique constraint.

## GraphExecutor

**State.** `graph` is a validated definition: node kinds, `depends_on`,
`activate_on` (`gate`), loop bodies and `on_error`.  `walked`, `skipped`,
`decision` and `output` are the walk's own variables, `pc` and `now` where it
is, `items` the tasks of a loop, `error` the service's `graph_error` and
`status` the row's.  `ran` and `broken` are history variables.

**Actions.** `IsNext` is the topological order with the smallest id first.  At each
node the walk takes `Skip` or one action of the node's kind; `ActionFails` is
the three-way `on_error`.  `LoopStart`, `ItemStarts`, `ItemGoesOn`, `ItemRaises` and
`LoopEnd` are `_run_for_each` and its `asyncio.gather`: when one item raises, the
execution is over and the other items go on.  `Park` and `Unpark` are the webhook
node; `Raise` an exception in the stream; `Abandon` a stream that is left in the
middle, which leaves the row as it is.

**Abstracted.** What nodes compute.  A condition or an `if` takes any branch; an
action succeeds or fails; an agent answers, ends without success, or errs.

**Wired graphs.** The validator checks that `activate_on` and loop bodies name
existing nodes, not that a node comes after what gates it.  Two properties
therefore start with `Wired`: a gated node has the deciding node among its transitive
dependencies, and a body node its loop.  The built-in templates are wired; in a
graph that is not, the walk may pass a gate before it is decided, or run a
loop's body once more on its own.

## DynamiqFlow and ResultLog

**State.** `flow` is the definition.  `pc`, `result`, `handed` and `done` are the
main loop's (`self._results`, and what the topological sorter has handed out and
been told); `work` is what the thread or task of a node is doing, or the result in
its future; `tries` and `at` are an attempt's, `late` is the attempt that timed out and
runs on.  `answer`, `resumed`, `restored` and `loops` are attributes of the node objects
(`_pending_approval_response`, `_is_resumed`, `_iteration_state`, `_completed_loops`)
and outlive a run.  `cp` is `self._checkpoint`, `store` the latest snapshot in the
backend; `chain` numbers the fresh runs, so that runs that resume one another share
it.  `said` and `fresh` are history variables.

**Actions.** `Start` and `Resume` are the beginnings of `run_sync` and `run_async`,
`HandOut`, `Collect`, `End`, `StopCanceled` and `Close` the main loop; a flow that is
`async` collects all results of a batch together and can be canceled as a task
(`CancelTask`, `StopDropped`).  `Begin`, `Answer`, `GiveUp`, `Attempt`, `NoClient`, `Invalid`,
`Succeed`, `Fail`, `TimeOut` and `SeeCancel` are `Node.run_sync` with its approval, its
dependencies and `execute_with_retry`; `Act`, `Iterated` and `Recover` an agent's loop
over iterations, `LateIterated` and `LateEnds` an attempt after its timeout.
Each save may fail (`Save`), as `_save_checkpoint_unlocked` logs what goes wrong and no
more; `Crash` leaves only the backend.

**Abstracted.** What nodes compute, as success, failure or skip.  A parser's re-prompts are
iterations that are not saved (`Recover`).  One late attempt is followed per node.  Snapshots are
saved after every batch and in the middle of a run, as the default configuration does;
older snapshots, retention and snapshots of other flows are left out.

**Abstract specification.** `ResultLog` is what a run that resumes may rely on: the
snapshot's results are a log that only grows until a fresh run begins a new one,
it has the results a result came from, and what it says of a node agrees with what it
says of the nodes it depends on.  `LogSpec` maps `store` to it.

## EventStream and HumanGate

**State.** `EventStream` is `_merge_heartbeat_stream`: the task that runs the producer
(`pump`), the heartbeat (`pulse`), the bounded `queue`, the generator that the response
iterates (`reader`); events are numbered.  `HumanGate` is the producer: one
coroutine of graph, service and polling at `pc`, the execution's committed `row`, the
approval `key` in Redis.  `decided`, `ran` and `told` are history variables: the
decisions sent, the agents started, the events told.  `opened` says which
decision approved a stage.

**Actions.** The coroutine's steps are `Ask`, `TellAsked`, `Poll`, `Consume`, `Expire`,
`Resume`, `Route`, `Execute`, `TellAgent`, `Refuse`, `TellError`, `TellComplete`, `Store` and
`Raise`; one that yields is a `Produce` of the stream, and the next step waits until the
event is in the queue, for that is when the pump asks for more.  `Decide` is
`approve_hitl`, which any member may send at any time.  `Leave` and what follows it is a client
that goes away; whether the pump is then canceled, abandoned or waited for depends on
where the cancellation is delivered, so all three are possible.

**Commits.**  Every commit of the row may raise (`Commit`), with or without effect.  The
`except` clauses around them set the row to FAILED and commit again, on a session that
nobody has rolled back; SQLAlchemy refuses that with `PendingRollbackError`, which leaves
the generator.  So after a failed commit no status is stored and no error is told: the
coroutine is `raised`, and the stream breaks off.  `ToldIsStored` says what holds beside
that: "required" and "error" are told only after their commit, and a stream that ended and
did not break off told the outcome that is stored.  A client that was told of the
completion may be told wrong (`MCGateStored`).

**Which executions.**  Those of a definition with `human_checkpoints` and agents only.  When
one of its nodes is of another kind, the service takes the unified-graph executor
(`workflow_service.py:1471`), which asks nobody.

**Abstracted.** Of the events between two stages one is kept.  Which stages have a
checkpoint does not depend on the run.

## WebhookPark

**State and actions.** Each Redis command is an action: `Mint`, `Hear` and `Resumed` of the
node that parks, `Arrive`, `Put` and `Answer` of the request that resumes it;
`Park` and `Finish` are the service's commits of the row.  `TimeOut` is an error
event after which the walk goes on.  `Break`, `Raise` and `Die` are failures of a
request, of a node and of the process.

**Abstracted.** The nodes between waits.  There is no clock: a token and the deadline
of its wait both run for the node's timeout, the token's from a moment before, so the wait may end when
the token has.

## ScheduleDispatcher

**State.** A `clock`; for each time at which the cron is due, the job of its `tick`
with its locals `now`, `todo`, `cron` and `holds`; for each workflow and slot when its `marker`
expires and the `run` enqueued for it; `live`, what is published; `fired`, a
history variable.

**Actions.** `CronDue`, `TickBegins`, `Select`, `Taken`, `Claim`, `Enqueue`, `TickEnds` are
the statements of `dispatch_due_schedules`, `RunBegins` and `RunEnds` the
runner's job.  `TickFails` is an exception or the worker's timeout; `Shutdown` puts
running jobs back into the queue; `Change` is a publish or unpublish.  `Advance` lets time
pass only while the pool has no free place for a job that waits.

**Abstracted.** Replicas of the worker are one pool; a cron expression is the set of
its times (`Slots`).

## ChatSession

**State.** The session's row (`status`, `total`) and the committed `rows` of its turns;
`memory`, the token map `known` and the `window` in Redis; per turn its place and
what it holds: the total and the map it loaded, the history it read, and as `pending` its
rows with those that are only in its transaction.  `calm` is a history variable: no two turns have
overlapped, Redis has neither failed nor forgotten, and no turn was cut short between
a commit and its flush.

**Actions.** `Begin`, `Check`, `Record`, `Load`, `Read`, `Write`, `Ask`, `Tool`, `Reprompt`, `Answer`, `Commit`
and `Flush` are the statements of a message; `Reprompt` is a further call of the model, because the
agent's output parser rejected the answer, at most `MaxRetries` times
(`parse_or_retry`), and `Cost` what rounds and re-prompts add to the session's total; `Store` is a `data_store` tool, which commits the
turn's session and with it the rows written so far; `FailOpen` is a failure of Redis that
the runtime passes over, `Fail` any other; `Clear` and `Close` are the request that
closes the session.

**Abstracted.** A round of the model has at most one tool call; every message has one
thing to redact; a call of the model costs one unit.

## DataStore

**State.** `data`, the committed rows, each a function from fields to the writer that set
them, the empty function where there is no row.  Per writer, which is one node of a run
or one call of a tool: its place, the key and the fields it was given, the key it
writes, the row its SELECT returned (`seen`), whether its session takes statements (`usable`),
its retries and its result (`told`), and for a run whether step rows wait for its commit
(`unsaved`).  `log`, `raced` and `lost` are history variables: the writes in the order of their
commits, the rows that changed between a SELECT and an UPDATE, the runs whose
step rows were rolled back.

**Actions.** `Select` and `Commit` are the two statements of a write, `Conflict` the unique constraint
when two writers insert a key.  `CutCommit` and `CutSelect` are a lost connection or the
end of the time limit; a commit that is cut has taken effect or not.  What follows a
failed commit differs: a node rolls back and answers (`RollBack`); a tool leaves
the session as it is and is tried again (`LeaveBroken`, `Retry`), and the session then
refuses every statement (`Refused`).  That nobody rolls back is what keeps a retry
from writing a second row under a second made-up key.

**Abstracted.** Values are the names of their writers; payloads are not empty.  A run's made-up key is
a whole uuid4 and taken to be new; a tool's is six hexadecimal digits and may be
that of another row.  Reads and queries change nothing.

## Runs

| run | configuration | asks | result |
|---|---|---|---|
| `lifecycle_publish` | two requests that edit, test, publish, run, unpublish, delete or set the policy; two versions | `PublishedIsTested`, `ActionsFollowTests`, `ImplementsLedger` | hold, 2.9 million states |
| `lifecycle_edits` | two requests that edit, roll back, rename or delete; four versions, two names | `VersionsAreLog`, `BodiesImmutable` | hold, 380 thousand |
| `heal_race` | one heal job and one request, any of six kinds, three versions, no timeout | `HealFollowsItsBase`, `HealLeavesLive` | hold, 3.3 million |
| `heal_lock` | two heal jobs, timeouts and deaths of the worker | `OneHealApplies`, `LockIsFreed` (liveness) | hold, 330 thousand |
| `executor` | families of four-node graphs: gates, merges, loops, webhooks | `ChoicesHold`, `BranchesExclude`, `CompletedIsWhole`, `Ends` (liveness) | hold, 130 thousand |
| `flow` | four flows of three nodes with approvals, an agent, a retry, a timeout, an excluded node; two runs, a crash, a lost save | `NoneForgotten`, `SuccessIsWhole`, `AskedIsPending`, `ApprovedFirst`, `RecordedNeverRepeats`, `SavedIterationNeverRepeats`, `LogSpec`, `RunEnds` (liveness) | hold, 650 thousand |
| `gate` | up to four stages, two with a checkpoint, three iterations, three decisions, a queue of two | `ClosedIsWhole`, `ReviewedFirst`, `ToldIsStored`, `Ends` (liveness) | hold, 510 thousand |
| `webhook` | two executions with two waits, two requests | `OwnPayload`, `CompletedHeardAll`, `UsedOnce`, `Ends` (liveness) | hold, 920 thousand |
| `schedule` | two workflows, two schedules, two ticks, a pool of two, one upset | `AtMostOnce`, `TickIsThorough`, `FiredInTime` | hold, 1.2 million |
| `chat` | two turns that may overlap, limits within reach, a tool that commits, a re-prompt | `WholeTurns`, `LimitsHold`, `TotalIsCost`, `RowsRestorable`, `Ends` (liveness) | hold, 550 thousand |
| `data` | two runs and one call with two retries, one named key and three made-up ones, two fields | `WritesOnce`, `Merged`, `ToldIsStored` | hold, 1 million |
| `chat_history` | two turns | `HistoryIsProtocol` | refuted |

Types are proved, for every value of the constants, and no run checks them.  These
statements are proved and in no run: `NeverStuck` of executor, flow and gate, the part of their liveness
that needs no fairness (what is stuck would not satisfy `Ends` or `RunEnds`); `CompletedRanAll`; that heals too
implement the ledger; and that beside heals too the versions are a log and the gate holds.

**What the refuted one shows.**  The result of a tool goes to the memory and the call it
answers does not, so the next turn's history has a tool message without a call, which the
tool-calling protocol it mirrors does not allow.

**Further configurations** state comments and docstrings of the code that the models
refute as well; run them to see how.

| configuration (module) | property | what TLC finds |
|---|---|---|
| `MCLifecycleUntestedRun` (`MCWorkflowLifecycle`) | `OnlyTestedVersionsAct` | A production run decides that it acts for real from the row it loaded, and then reads the latest version; the action nodes of an edit that commits in between act for real though no run of it completed.  They cannot act before *any* version up to it was tested (`ActionsFollowTests`). |
| `MCLifecycleDraftRun` (same) | `DraftNeverActs` | "Real side effects only fire for a PUBLISHED workflow" (`workflow_service.py:1460`), and "a draft can never touch the outside world" (`action_runner.py:1228`).  A run of the first version, a draft that nobody has tested, acts in a way that `live` does not reach: a tool of an agent, a `data_store` node. |
| `MCLifecycleNoVersion` (same) | `PublishedHasVersion` | A commit writes single columns, so publish, unpublish and publish can leave a row with status published and no published version. |
| `MCSelfHealRaises` (`MCSelfHeal`) | `NeverRaises` | The heal's staleness guard gets the object its session already has and never sees a racing edit.  The edit is not lost, because the unique constraint refuses the heal's version (`HealFollowsItsBase`), but the `IntegrityError` leaves `heal_headless` and no incident is recorded. |
| `MCSelfHealDraft` (same) | `NeverPushesDraft` | A person who unpublishes during the heal's demo run finds the workflow published again. |
| `MCSelfHealTimeout` (same) | `HealLeavesLive` | The worker's timeout raises `CancelledError`, which the rollback's `except Exception` does not see: the workflow stays offline and nothing says so. |
| `MCSelfHealJudge` (same) | `RollsBackOnFailure` | The apply step promises "rolling back to the prior published version on failure" (`healing_service.py:731`).  The judge's model cannot be reached: the job raises after the patch was committed, the workflow is offline, nothing is rolled back and no incident says so. |
| `MCExecutorAbort` (`MCGraphExecutor`) | `FailAborts` | An action that fails with `on_error: fail` does not end the walk; even its dependents run.  Only the row's final status tells. |
| `MCExecutorAgent` (same) | `AgentFailureFails` | An agent that ends without success counts as one with an empty answer, so the execution completes, and counts as a test for the publish gate. |
| `MCFlowFresh` (`MCDynamiqFlow`) | `FreshRunStartsOver` | A flow is resumed, and canceled before the agent that was restored has its turn; the next run on the same object is a fresh one, and resets the flag that says the agent was resumed but not the iterations it was to go on from (`flow.py:304`).  The agent begins in the middle of the old run; a test says that no checkpoint state leaks between runs (`test_iterative_checkpoint.py:971`). |
| `MCGateStored` (`MCHumanGate`) | `CompleteIsStored` | `workflow_complete` is yielded before the row's commit; when that commit raises, so does the handler's, and a client that stayed to the end was told of a completion while the row says running or waiting. |
| `MCChatUnmapped` (`MCChatSession`) | `NoRowWithoutMap` | The comment on the last commit wants the map flushed after it, lest redacted rows stay without a map.  A `data_store` tool commits rows in the middle of a turn; a model call that then fails ends the turn without a flush, and these rows cannot be restored. |
| `MCDataOverwritten` (`MCDataStore`) | `NothingOverwritten` | The tool's schema says "Merged with existing data when the key already exists".  Of two writers that both read the row first, the second sets back the fields of the first. |
| `MCDataSteps` (same) | `StepsSaved` | Step rows "are committed by the caller's existing `db.commit()`" (`workflow_service.py:1124`).  A node whose key another writer inserts first rolls back, and the steps before it are gone. |
| `MCDataMinted` (same) | `MintedAreOwn` | A call without a key gets "a readable unique one" (`tool_resolver.py:376`): six digits, and a second call that draws the same ones writes into the first one's row. |

`HealLeavesLive` speaks of heals that know which version was live.  On a row
whose published version was lost to the race of `PublishedHasVersion`, `_restore` has nothing to
restore and returns True, so the workflow is left offline and the note says
that it was rolled back (`Rollback`, second case).  It does not speak of heals that raise.
Of two jobs that were flagged for one workflow the second can load the row before the first
has applied, and get the lock after the first ended "offline"; its guard
sees the published row its session still has, its insert is refused by the unique constraint, and
it reports that it raised, not that the workflow is offline.  (The incident of the first says so.)

**Bounds.** Two sessions are enough for any race of a pair of statements, the
only shape the handlers have: each reads, checks and commits once.  Two versions
give an edit that races with every other request and a stale latest version; four give
edits on top of rollbacks and renames of a version that is not the latest any more.  Two bodies, of which one needs a connection, tell a lost
edit from a kept one and open or close the requirements gate.  One request beside
a heal lets each of the job's reads go stale.  The run `heal_race` has three versions, so
that a person's edit can follow the heal's patch and precede its publish or its
rollback; a heal starts only below the bound but may insert its patch and its
restored version above it.
`JobTimeout` 2 and `LockTTL` 3 keep the code's order of 600 s and 900 s.
Three items with two slots make an item wait for the semaphore while two others
run and let any of them raise first.  Four nodes are a decision with two
branches and what converges, or a loop with two body nodes and a dependent; every
graph is also checked with its ids reversed, for the order among ready nodes
goes by id.

Three nodes in a chain, a fork or a join are the smallest flows in which a
node waits, two run together and a result is collected beside another; one agent
with two iterations, one retry and one crash let a snapshot in the middle of an
attempt be resumed, and two runs an attempt outlive its own.  `MCFlowFresh` needs a third run:
one to save, one to restore, one that starts over.  A queue of two fills with a heartbeat and an
event; three decisions are one too early, one twice and one in time, and a
fourth stage is one more than `MaxIterations`.  Two requests hold one token, or two
tokens of two executions.  Both ticks are in time for either slot of the
schedules, so they meet in a marker; a pool of two is full when a tick and a run are
in it.  `KeyTTL` 5, above `Window` 2 plus `JobTimeout` 2, keeps the order of 3600 s
above 90 s and 600 s.  Two turns
are what it takes to overlap; a budget of two is passed in the middle of a turn of up to two
rounds and a re-prompt, and a memory of two is trimmed in the first turn (of four, in
`MCChatHistory`, by the second).  Of the writers of a table one more than a
conflict needs can come in between; three made-up keys let every attempt of a call
choose a new one, and two retries let a call be refused twice by its broken session.

**Symmetry.** The lifecycle's sessions and the dispatcher's workflows are
interchangeable, and no property with a temporal operator other than `[]` is
checked in those runs.

**Deadlock** is checked for the lifecycle and the heals.  Executions, flows, gates,
webhooks, chats, writers and the bounded clock of the dispatcher end.

**Broken variants.** Operators with a suffix, like `Written_always`, are what the
definition below them would be with a plausible bug; nothing uses them.  Substituted
one at a time, each makes the property it is listed with in `PROJECT.json`
fail, which shows that the property can see that bug.

## Fairness

*`LockIsFreed`* assumes that time passes and that a job which is not killed takes
its next step or is cancelled: the event loop of the arq worker runs every task that
is ready and awaits none for ever, because the job timeout cancels it.  Nothing is
assumed of requests, of monitor passes, or of a worker that died.

*`Ends`* of the executor assumes that the walk and its items take their steps: model
and provider calls have timeouts of their own, and a parked walk has a deadline.
Neither the arrival of a payload nor the success of a call is assumed.

*`RunEnds`* of a flow assumes that the main loop goes on when it can and that a node
thread does, weakly and each on its own, as threads of the operating system do; what
a node executes ends.  Nobody has to answer: the property excepts a flow that waits for a
person, and only a canceled flow must end although nobody answers, because the
waiting loop looks at the token.  Late attempts need not end.

*`Ends`* of a gate assumes the coroutine's steps, the reader's, and, strongly, the
pump's puts: `asyncio.Queue` serves those who wait for room in turn, so that a heartbeat cannot
take every place that becomes free.  No decision is assumed; the window expires
(`Expire`).

*`Ends`* of a webhook's execution assumes its steps and that tokens expire; *`Ends`* of a
chat that an accepted message takes its steps, each of which has a timeout.
Of the dispatcher and of the writers of a table only safety is asked, so no fairness is assumed there.

## Proofs

All proofs are checked by TLAPS with SMT, Zenon and, for the temporal steps,
LS4.  They assume only the `ASSUME`s of the modules they are about.

**WorkflowLifecycleProofs.**  `TypeCorrect`, `VersionLog`, `PublishGateHolds`,
`ActionsFollow` and `VersionsKeepTheirBodies`, for any number of sessions, versions,
bodies and names.  The committed rows alone are not inductive: what a session
will commit depends on the stale copy it holds.  The invariant `Inv` therefore says
of every session what its copy still says of the rows: the version it loaded is
at most the current one; a published mark it loaded was tested, and stays so; a
version past the gate is tested; a row it loaded as published has a tested
version up to the number it loaded, which is at most that of the version it then
reads and runs; and the definition a rename read is still that version's body.  A step either appends one version
(`EditAppends`), flushes a session's columns (`StepThatFlushes`) or only reads
(`StepThatReads`), and each keeps what the other sessions know (`SessionKeeps`).
The assumptions are that the first definition is among the bodies and names, and
that `MaxVersion` is a positive number.

`RequestsImplementLedger` is the refinement: `RequestIsCommit` shows that every step of a request is an edit, a release,
the end of a test or nothing to the ledger (`Edits`, `Releases`, `Completes`); the first appends one entry to
`Log` and leaves the others (`BodyKept`, `LogGrows`), which holds because the numbers of the
versions are unique and without a gap (`LedgerInv`).

**WorkflowLifecycleProofs, of heal jobs.**  `HealTypeCorrect` and `HealsExclude`, for any number of jobs
and any job timeout below the lock's time to live.  Mutual exclusion is not
inductive, because the lock could expire under its holder; the invariant adds
`LockOutlivesJob`, that the lock has more time left than a job inside has
until it is cancelled.  The assumption `JobTimeout < LockTTL` is used exactly there.

`HealInvariance` shows that the lifecycle's invariants survive jobs: a job's commit is to the
rows what a request's is, an edit or a flush of columns (`HealIsCommit`), and `JobInv` says of a job
what is said of a session, that what it relies on is at most what the rows have.  From it
follow `HealsFollow`, because the patch takes the number after the row it loaded, a number is
taken once, and the definition it patches lies between that row's and the current one, and `HealsImplementLedger`, with the lemmas of the requests'
refinement.  `HealsKeepTheLifecycle` draws the conclusion for the rows.

`HealsLeaveLive` holds where jobs are neither timed out nor killed (with timeouts it is
refuted, see `MCSelfHealTimeout`), for any number of jobs and requests and whatever else of the model
fails, of the heals that do not raise; others raise beside them, the judge's included.  What a job leaves is decided many steps before
it leaves, so the invariant `LiveInv` says of every place of a job (`JobLive`) what it may
conclude from the row it has read: before its guard, and under the safe policy, it has taken nothing offline; a row that it read
back as published after its own edit is live still, or a request has taken it
offline; and one that was published and ends with any note but "offline" leaves it so.
The requests keep it because `kept` remembers their last word, and the other jobs
because only `HealApply` takes a workflow offline and the lock lets one job apply
(`JobLiveStep`); this is where mutual exclusion is needed for more than itself.
`LeavesAtEnd` shows that the lock is left only by its release or by a job that raises.

**GraphExecutorProofs.**  `ExecTypeCorrect`, `WalkNeverStuck`, `ChoicesStayRight`,
`BranchesAreExclusive` and `CompletedHasNoGap`, for every set of acyclic graphs,
any loop size and any concurrency.  `WalkNeverStuck` follows for the walk from
`Acyclic` and the set of nodes left, and for a loop because the first item that waits finds the
semaphore free when no item works (`LoopGoesOn`).  `ChoicesStayRight` needs `WalkInv`: the walked
nodes are closed under dependencies; what is skipped ahead of the walk is exactly
the bodies of finished loops; the node at hand was activated by what is
walked.  From closure follows that in a wired graph a choice depends only on
walked nodes (`BeforeIsWalked`, `ChoiceIsStable`), and no later step changes what
was decided or skipped there, because a loop's body comes after its loop.  All the ways in which
the walk leaves a node behind are one relation, `Leaves`, that `VisitLeaves` and
`LoopOrWaitLeaves` establish and `LeavesKeeps` uses; every other step decides and
skips nothing (`StaysKeeps`).

**DynamiqFlowProofs.**  Every safety property of the flow, for any acyclic flows of any
number of nodes, any pool, retries and iterations, any number of runs, crashes and
lost saves; and `LogHolds`, that the snapshots implement `ResultLog`.  The
invariant is built in layers, each inductive given the ones before.  *Typed*: the
types, and that an iteration that acted was not the last.  *Shape*: what each place
of the main loop implies about token, futures and outcome.  *Work*: while the run
goes on, in flight is what was handed out and is not done (`NoneForgotten`, which `HandOut`
keeps only because what is ready in the sorter has its results: `InStep`), and
nothing in flight has a result in the checkpoint.  *Asked*: who waits is pending.
*Behind*: what `store` has, `cp` has, in the same chain, and of an agent at most as many
iterations.  (With *Work* and `Acyclic` sorter, loop and pool never wait for each other: `NeverStuckHolds`.)
*AllAgree*: results in `cp`, in `store` and in flight agree with their
dependencies, which with *Behind* gives each step of `ResultLog`.  On top of
these, *Approvals* follows an answer from the person to the node object, the
checkpoint and the next run, and *Saved* the iterations from the snapshot to the attempt that
restores them; both leave out nodes with a timeout, whose late attempts save what a
new run has not said.

**HumanGateProofs.**  `InOrderHolds`, `ClosedIsWholeHolds`, `ReviewedFirstHolds`,
`ToldIsStoredHolds`, `CompletedRanAllHolds`, for any capacity of the queue.  The stream's part of
the invariant, `StreamInv`, says that the queue holds exactly the events after `seen`, in
order, that the one missing is in the hands of the pump, and that behind the sentinel
there are heartbeats only.  It is shown once for the steps of a stream (`StreamStep`); every
step of the gate is one of them or leaves the stream alone.  The gate's part says what
each place of the coroutine knows of stage, row, verdict and the last event, which
is why a client that sees the stream close sees a row that was written before, unless
the coroutine has `raised`, of which place the invariant says only what was committed before.
`NeverStuckHolds` adds *Served*: while the client reads, a pump that is done has left its
sentinel in the queue.

**WebhookParkProofs.**  `OwnPayloadHolds`, `CompletedHeardAllHolds`, `UsedOnceHolds`, for any
number of executions, waits and requests.  `KnownArePast` says that a token that is known
is never minted again, from which follows that an answered token is gone for good;
`RequestsFit` and `PayloadsFit` follow a payload from its request to the wait.

**ScheduleDispatcherProofs.**  `AtMostOnceHolds`, `FiredInTimeHolds`, `TickIsThoroughHolds`, for
any schedules, cron times and pool.  A marker expires, and a slot that was
fired may be asked for later; the invariant says that the marker of a slot that is
claimed or fired lives beyond `Window + JobTimeout` after the slot (`Outlives`), and
that a tick is younger than its timeout (`TicksAreYoung`), so nobody who finds
the slot due finds the marker gone.  `MarkersOutliveTicks` (600 s + 90 s < 3600 s)
is the assumption on which that rests.

**ChatSessionProofs.**  `WholeTurnsHolds`, `LimitsHoldHolds`, `TotalIsCostHolds`, `RowsRestorableHolds`, for any number
of turns and any limits.  The invariant says what the pending rows of a turn are at each
place, that a turn past the check has loaded less than the budget, and, of a
calm session, that one turn is in flight (`CalmIsSerial`), that its message has room in
the window, and that its map has all of the map in Redis.  What a tool has committed in the middle is
a conversation cut at a call (`Cut`), and there is none before the model was asked (`EarlyRows`).
The cost is a number of calls, of rounds and re-prompts: `PaidCalls` has a pair of turn and call for each, so that the total is a
cardinality and not a sum, and a commit adds the pairs of one turn (`CommitPays`) while
every other step pays for nothing (`OthersPayNothing`).  `CalmTotal` says that the one turn in
flight of a calm session has loaded the present total, which is why adding to
what was loaded is right there and only there.

**DataStoreProofs.**  `WritesOnceHolds`, `MergedHolds`, `ToldIsStoredHolds`, for any number of runs, calls,
keys, fields and retries.  `WrittenIsPast` says that a writer whose write is in the log has been
told or has a session that takes no statement, from which follows that no attempt
writes again, with the same key or another.  For `Merged` what a writer read must have been
written (`SeenIsWritten`); a step that appends an entry to the log concerns one row, and for that row
the entry is the last.

**Model-checked only.**  The liveness properties `LockIsFreed`, `Ends` and `RunEnds`, which
rest on fairness; their safety parts are proved where they are more than a
type (`NeverStuck`).  `HealLeavesLive` says nothing of heals that raise or that a timeout or a
kill cuts short, where it does not hold; `ToldIsStored` nothing of the end of a stream that a failed
commit broke off; `ActionsFollowTests` nothing of effects that the publish status does not reach.

## Not modelled

The HTTP limiter, what action tools do in other systems, handoff tickets (no code creates one), the orchestrators
and the retention of snapshots of the Dynamiq library.  Within the modelled parts:
the interactive heal endpoints, what satellites of agents compute, templates and expressions, the contents of step rows and transcripts, event payloads, and
authorisation.

Most of the repository's 130 thousand lines are outside the reach of a model of this
kind, and so is most of what a map of source lines could count: some hundred
clients of models, stores and tools in the Dynamiq library, pages and components
of the web front end, prompts, templates, and schemas.  They keep no state
between calls that another actor could see.  Modelled is the code that does:
the writers of the workflow, execution, session and Redis state that several requests,
jobs or threads share.
