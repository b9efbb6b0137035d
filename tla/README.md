# Jace: a TLA+ verification project

Jace is a personal assistant made of three programs: *Core* (`src/backend/jace`,
a FastAPI process on one asyncio event loop with an SQL database), *Device
Agents* (`src/device-agent/jace_device_agent`, one per paired device, connected
to Core by a WebSocket that the Agent opens) and the desktop application
(`src/apps/desktop`). This directory holds TLA+ models of the parts of Core and
of the Device Agent whose correctness depends on *order*: what happens when
coroutines interleave, messages are lost, and processes die and come back. The
models are checked with TLC on small instances. Every safety property that a
passing run checks is also a theorem, for every value of the constants, checked
with TLAPS; liveness is checked with TLC only.

Three facts about the programs shape every module.

* **One event loop.** Coroutines switch at an `await` and nowhere else. What a
  coroutine does between two awaits is one action; what it read before an await
  may be stale after it.
* **Two-step sessions.** A database session that loads a row and commits later
  is two actions. SQLAlchemy remembers the values it loaded, judges by them, and
  its `UPDATE` names only the columns whose value changed against them. A late
  commit can therefore overwrite a newer row, and an assignment that equals the
  loaded value writes nothing (`Written` in `AgentDispatch`, `Committed` in
  `ProcessRuntime`, `seen` in `Automations`). No query in the modelled code
  locks or compares versions.
* **Rows survive, memory does not.** A restart keeps the tables and forgets
  queues, futures, registrations and coroutines.

## 1. Inventory

### Modelled

| component | state | operations | module |
|---|---|---|---|
| Agent dispatcher, `agents/manager.py` | priority queue, queued and active generations per task, cancel events, executor slots, the lock | `enqueue`, `_claim_dispatch`, `_release_dispatch`, `cancel`, `_worker`, supervision and `_recover_worker_exit`, `start`, `stop` | `AgentDispatch` |
| Agent task rows, `agents/service.py`, `api/agents.py` | status, cancel flag, recovery count, quarantine, evidence of tool activity | create, state writes, cancel, retry, recovery after an executor's death, recovery at start | `AgentDispatch` |
| Agent executor, `agents/runner.py` | the place one attempt has reached | the prologue's checks, model turns, tool intent, permission and approval, tool, review, completion, failure, cancellation, handoff | `AgentDispatch` |
| Agent Director, `agents/director.py`, `workflow_checkpoints.py`, `durable_handoffs.py` | plan, the coroutine of a workflow and of each step, checkpoint, receipt, messages | launch, plan, steps with dependencies and retry, synthesis, review, handoff, finalisation, resumption | `AgentDirector`, with `AnswerOnce` as its abstract specification |
| Tool calls, `tools/agent.py`, `tools/approvals.py`, `api/tools.py`, `agents/runner.py` | permission, connection, grants, pending approvals, audit rows, the calls | binding, permission, approval with its timeout, revalidation, execution, audit; the user's answers and changes | `ToolCalls` |
| Chat turns, `tools/agent.py`, `tools/agent_delegation_bridge.py` | steps, retries and contracts of a turn | the loop of `stream_agent`, the forced delegation, closing the stream | `ChatTurns`, with `AnswerOnce` for the audit |
| Device capability broker, `capabilities/device_broker.py`, `executor.py` | request rows, futures, the Agent's tasks | `execute`, `resolve_result`, `cancel`, the timeout, idempotency keys, the Agent's answers | `DeviceRequests` |
| Device registry, `devices/service.py`, and connections, `devices/connections.py`, `api/devices.py`, `client.py` | the device row, the registered connection, one receive loop per WebSocket, messages under way | hello, register, replace, welcome, send, receive, unregister, revoke, heartbeat; for processes reconnect and snapshot | `DeviceRequests`, `ProcessRuntime` |
| Process runtime of Core, `process_runtime/service.py` | `process_runs`, stored chunks, start and exit futures | `start_process`, `terminate_process`, `wait_for_exit`, the message handlers, snapshot reconciliation | `ProcessRuntime` |
| Process runtime of the Agent, `process_runtime.py` | sessions, output numbers, replay window | start, terminate, replay, stream readers, watchdog, exit | `ProcessRuntime` |
| Automations, `automations/scheduler.py`, `runner.py`, `service.py`, `api/automations.py` | the row, the job in the scheduler, the runs | `schedule_automation` with its recovery of missed runs, firing, `_job_wrapper`, edit, delete, run now, restarts | `Automations` |
| Durable runtime events, `runtime/durable.py`, `runtime/store.py`, `api/runtime_stream.py`, `shell/runtime.ts` | the `runtime_events` table, the bus's sequence, a subscriber's queue, the watermark and replay of a stream, the client's cursor | `publish`, subscribe, replay, live delivery, retention and `initialize`, connect, lose the WebSocket | `RuntimeEvents`, with `EventLog` as its abstract specification |

How they interact. A chat turn calls tools; one of them, the delegation, starts
a workflow of the Director. The API and the Director create task rows and call
`enqueue`; an executor claims a task from the dispatcher, writes its row and
calls tools under the same permissions and approvals, those a model asks for and
those the runner calls by itself to gather evidence; the supervisor watches the
executors' tasks and puts rows back. The Director polls the rows of its tasks
and answers the conversation once. A tool such as `process.start` calls the
process runtime, and one that needs the device calls the broker; both send over
the registered connection and wait for a future that the receive loop of some
connection resolves. The Agent answers over whatever connection it has by then
(process messages), or over the one the request came from (capabilities). An
automation's run is an agent run started by the scheduler. All of them publish
runtime events, which a stream sends to the desktop application, first from the
table and then from memory.

What makes the modelled parts hard, and what makes them correct:

* *Dispatcher.* Several callers enqueue; a cancelled dispatch leaves its tuple
  in the queue; executors die holding a task; the supervisor acts on what it
  saw. Correct: one executor per task, nothing that blocks a task is leaked, a
  cancellation stops work, queued work is dispatched, active work ends.
* *Recovery.* A crash can hit between a tool's side effect and its record.
  Correct: without the user no second attempt runs tools.
* *Director.* Core can stop between any two of: a task is created, its end is
  seen, texts are produced, stored, reviewed, handed over, the workflow marked
  as over. Correct: one task per step, one answer, the answer that was reviewed,
  claiming nothing that did not complete, and an answer in the end.
* *Tools.* Permissions, grants and connections change while the user is asked;
  answers race timeouts, cancellations and closed streams. Correct: a tool runs
  only as was agreed, the audit tells its true end once, turns end, and a turn
  never reports a calendar write that no call completed.
* *Device requests.* Timeout, cancellation, late result and the unguarded
  `_mark_running` write one row; connections replace each other; a device is
  revoked meanwhile. Correct: the Agent works once per key, rows tell true ends,
  requests end, a welcomed Agent can be reached, a revoked one leaves.
* *Process runtime.* Each row is written by up to four actors (`start_process`,
  `terminate_process`, the loop of the current connection, the loop of a
  replaced one). Correct: the status a row claims is what happened, chunks are
  ordered and unique, active rows end, callers wake up.
* *Automations.* The due time, a restart and the user's edits race. Correct: a
  time starts one run, and no time that is due is passed over in silence.
* *Runtime events.* A row is committed in one step and announced in another; a
  client is served from the table up to a watermark and from a bounded queue
  after it, and comes back with a cursor. Correct: nothing is shown twice or
  before it is committed, nothing is lost where the two deliveries meet, and an
  open stream shows every row after its cursor that no queue dropped.

### Not modelled

| component | why |
|---|---|
| Terminal runtime, `terminal_runtime/service.py`, `terminal_runtime.py` | a twin of the process runtime with stdin, resize and attachment; the next module of the plan |
| Calendar synchronisation, `calendar/` | cursors, pages and watches are tied to the data formats of two providers; an honest model needs the providers' promises, which the repository does not state |
| Model gateway, `model_gateway/` | circuit breaker, retries and spend guard around calls of external models; in the plan |
| Control sessions, `control/` | one session with a step budget; in the plan |
| Execution audit and receipts, `tools/execution_bridge.py`, `execution_audit.py` | receipts are derived from texts by matching; no state between calls that the modelled protocols read |
| OAuth connections, authentication, pairing codes | single transactions over hashed secrets and calls of providers |
| In-process event bus, stream tickets | lossy by design; single-use tokens in one dictionary |
| Memory, voice, web, host computer, privacy, attachments, collaboration, the desktop user interface | data processing, I/O and rendering without protocol state of their own |

`PROJECT.json` lists each with its files, and under `hazards` the places in the
code where order, loss or a crash can bite, with the property that watches it or
the reason none does. Inside the modelled components the prompts, the routing
and evidence rules, text processing and the formats of messages are left open or
out: whatever a model, a tool or a user may answer is a choice of the
specification.
## 2. `AgentDispatch`: dispatcher, rows, executors, recovery

`row` is the `agent_tasks` table, reduced to the columns that decide control.
`heap`, `queuedDispatch`, `dispatchGeneration`, `activeGeneration` and
`cancelEvents` are the manager's dictionaries under their own names. A dispatch
is a pair of task and generation: every `enqueue` takes a new generation, a
cancellation makes the tuple that stays in the queue stale, and a claim accepts
only the tuple of the current one. `enqueuing` is the task whose `enqueue` holds
`_lock` across its database read; every other user of the lock waits for it.
`worker` is the coroutine `_worker(slot)` with the point it has reached; `slot`
is the assignment its `_worker_states` entry shows to the supervisor.

| actions | code |
|---|---|
| `CreateTask`, `EnqueueRead`, `EnqueuePut` | `create_task`; `AgentManager.enqueue` before and after its read of the row |
| `Take`, `Claim`, `CheckRow`, `Release` | `_worker`: `queue.get`, `_claim_dispatch`, the check of the row, `finally` |
| `Prologue` ... `Handoff` | `execute_agent_task` |
| `SeekEvidence`, `EndBatch` | the calls the runner makes by itself: `_bootstrap_source_evidence` before the first turn, the follow-ups of a draft, the rounds of the frontier's closure |
| `Abort`, `Fail`, `ReadBeforeEnd`, `CommitEnd` | `AgentTaskCancelled`, exceptions and the timeout, `_fail_task` |
| `WorkerCrash`, `SuperviseExit`, `RecoverTask`, `RecoverTaskFails` | a coroutine that ends, `_recover_worker_exit`, `recover_task_after_worker_crash` |
| `CancelRead`, `CancelCommit`, `CancelSignal` | `AgentManager.cancel`, `request_cancel` |
| `RetryRead`, `RetryCommit` | `retry_agent_task`, `prepare_retry` |
| `StopSignal`, `StopEnd`, `Kill`, `StartManager` | `stop`, the death of Core, `start` with `recover_incomplete_tasks` |

Two history variables serve the properties: `attempts` counts the attempts that
ran a tool since the user last authorised the task; `stopped` follows one
cancellation from its commit to its signal.

An executor's `batch` says where a tool call comes from. The calls of a model's
turn (`"none"`) each follow a look at the cancel event. The calls of the bootstrap
and of a follow-up (`"open"`) follow each other without one, as do those within a
round of the closure (`"closing"`), before which the runner does look.

Abstractions. Which tool a model or a batch asks for, and whether it is refused,
allowed or needs approval, is left open. Of two equal priorities either may be taken first
(the code keeps arrival order, so the model allows more). An executor's
`_set_state` loads and commits in one action: its write does not depend on what
it loaded, so a commit of somebody else between the two has the outcome of one
of the two orders. The supervisor loads the row and the evidence of tool activity
at the same moment. `Release` and the release of a dying executor happen in one
step with the lock. One `cancel()` per task is in flight at a time. The
transactions of the handoff message are one step. Executors do not die inside
`queue.get` or between it and the claim in the checked runs (see section 9).

## 3. `ProcessRuntime`: Core, Device Agent and the WebSocket between them

One device. A connection is a slot (`Connections`) that is used again when
Core's loop for it has ended. `toAgent` and `toCore[c]` are the messages under
way, in order. When a WebSocket is lost, what travels to the Agent is lost at
once; Core's loop still handles some prefix of what had arrived before it
notices, and goes on doing so after a newer connection has been registered.

| actions | code |
|---|---|
| `StartCreate` ... `StartReturn` | `start_process`: row, future, send, wait, `_mark_failed`, the terminate after a timeout |
| `WaitRead`, `WaitRegister`, `WaitRecheck`, `WaitReturn`, `WaitTimeout` | `wait_for_exit` |
| `StopBegin` ... `StopResolve` | `terminate_process`, `_mark_lost` |
| `Register`, `Greet`, `LoopEnd` | `connect_device`, `DeviceConnectionRegistry` |
| `Handle`, `LoopCommit`, `LoopResolve` | `_handle_started`, `_handle_output`, `_handle_exited`, `_handle_error` |
| `Snapshot...` | `_handle_snapshot`: the Agent's items, replay requests, the sweep of rows it does not list |
| `Connect`, `Welcomed`, `AgentIgnore`, `Drop` | the Agent's connection loop in `client.py` |
| `AgentStart`, `AgentTerminate`, `AgentReplay`, `AgentReplayStep`, `Output`, `Watchdog`, `Exit` | `ManagedProcess` and the runtime of the Agent |
| `CoreRestart`, `AgentRestart` | the death and restart of either program |

History variables: `outcome` is how the subprocess really ended. `row[p].crossed`
are the positions of stored chunks whose handler had loaded the row before another
loop stored output, and `row[p].revived` says that a handler wrote `running` over
an end that was stored after it had loaded the row, and nothing has settled the row
since.

Abstractions. Output is a sequence of numbered chunks without contents. The
timers of the public calls may fire at any moment. The two reads with which a
snapshot begins are one. The Agent's `_start` and `_terminate` are atomic, so a
receiver cancelled in the middle of them (which can leave a subprocess without
a session) is not modelled. The branch of `_start` for a session that already
exists cannot be reached, as Core sends `process.start` once (the theorem
`StartFindsNothing`). Sessions that
ended long ago may be missing from any snapshot. One caller of `wait_for_exit`
per process. Exit code 124 of the sandbox mode, heartbeats, revocation and the
capability messages on the same WebSocket are left out.

## 4. `RuntimeEvents`: the durable event ledger and one client's stream

`numbered`, `written` and `pruned` are the table: the last sequence handed out,
the rows ever committed, and how far retention has removed them. `sequence` is
the bus's `_sequence`. A producer is a coroutine inside `publish`. `stream` is
the coroutine `runtime_stream` of the one client, from its URL (`after`) through
the replay (`at`, `watermark`, `batch`) to the live loop (`queue`); `cursor` is
the client's `latestDurableSequence`, which outlives everything else.

| actions | code |
|---|---|
| `Insert`, `Commit` | `append_runtime_event`: the `INSERT` that takes the number, the commit |
| `Announce`, `AnnounceTransient` | the rest of `publish`: sequence, fan-out, dropping the oldest of a full queue; an event that could not be stored |
| `Subscribe`, `Replay`, `SendReplayed`, `SendLive` | `runtime_stream`: subscribe and watermark, one query, a replayed row, a queued event |
| `Connect`, `Show`, `Drop` | `ensureRuntimeConnection`, `emit` and `rememberDurableSequence`, `onclose` |
| `CoreRestart` | the death of Core, `prune_runtime_events`, `initialize` |

`received` and `overflowed` are history variables: the durable events the client
was shown, in order, and those a full queue dropped. `EventLog` keeps only
`written` and `received`; the refinement mapping is the identity on them.

`Serial` says whether the database numbers and commits rows in one order. SQLite
does: its write lock covers both. PostgreSQL, which Core can be configured for,
does not.

Abstractions. Events have no contents. The lock of the bus is never held across
an await, so it disappears. A send and its receipt are one step: what was under
way when a WebSocket is lost is, for the client, as if it had not been sent. An
insert that fails gives its number up. Retention removes the oldest rows, at a
restart only, as in the code. The subscriber of a lost stream is removed at once;
in the code its coroutine notices at its next send, and until then fills a queue
nobody reads. A `refresh` that fails after the commit (the event is then
announced as transient although its row exists), an `initialize` that fails,
heartbeats, tickets and redaction are left out. One client window.

`Listening` is what `connect` of `shell/runtime.ts` asks for before it opens a
stream: that its module-level set of listeners is not empty. Nothing fills that
set (subscribers are added to `hub.listeners`), so `FALSE` is the client as it is
written, which never opens its stream. The run sets `TRUE`, and so speaks of the
protocol and of a client that listens; no property assumes that it connects.

## 5. `AgentDirector`: one workflow from its launch to its answer

`plan` is what `_plan_from_agents` builds from the selected specialists;
`task` the `agent_tasks` rows of its steps, reduced to what the Director reads
and writes; `checkpoint` and `receipt` are the rows of
`DirectorWorkflowCheckpoint` and `DirectorHandoffReceipt`; `messages` the
handoffs ever written to the conversation. `workflow` is the coroutine
`_run_workflow`, `step[s]` the coroutine `_run_step` of a step under `gather`,
`marker` the coroutine that marks a resumed workflow's tasks. `flags` are the
three settings that change the protocol (durable handoffs, checkpoints, safe
recovery). A text is what it was made from: the outcomes it saw and the run
(`turn`, `reviewed`) in which a model wrote it, so that a second text for the
same workflow is another one.

| actions | code |
|---|---|
| `CheckReceipt`, `SavePlan`, `LoadTasks` | the beginning of `_run_workflow`: a receipt that exists, plan and checkpoint, `_existing_workflow_tasks` |
| `SelectSteps`, `Gathered` | the loop: steps to skip, steps that are ready, `gather` |
| `Resume` ... `RetryRefused`, `StepFails` | `_run_step`: an earlier task or a new one, `_enqueue_task`, `_wait_for_terminal`, the one retry of a failure without tools, an error |
| `Synthesise`, `Review`, `SaveHandoff`, `Complete`, `LoadFinal`, `MarkFinal` | the end of `_run_workflow`, `save_stage`, `save_handoff_once`, `_mark_finalized` |
| `WorkflowFails` | an error of the database, of a model or of a check of the stored plan or text, which leaves `_run_workflow` and which `_track_workflow` only logs |
| `Stop`, `Start`, `ResumeWorkflow`, `LoadRecovered`, `MarkRecovered` | a crash or `stop_director_workflows`, `recover_incomplete_tasks`, `resume_director_workflows`, `_mark_workflow_recovered` |
| `Dispatch`, `UseTool`, `Finish`, `Release`, `Reconcile`, `Cancel`, `UserRetry` | what `AgentDispatch` models in full, in one step each |

`AnsweredOnce` is a refinement: with durable handoffs the workflow implements
`AnswerOnce`, whose only step gives an answer to a request that has none.

Abstractions. One workflow. What a specialist, a synthesis or a review says is
open; a review may change a text or not. The choice of the specialists is the
scene's. Progress notes, memory and events are left out. `_mark_finalized` and
`_mark_workflow_recovered` write whole metadata columns, so what one of them
has read before the other's commit is written back: the model keeps this.

## 6. `ToolCalls` and `ChatTurns`: what a tool may do, and who asks

`ToolCalls` is one tool with its policy (`permission`, `capability` of its
connection, `floor`, `grants` per conversation and exact arguments) and the
calls of it. A call is the coroutine `_execute_tool_call` of a chat turn or
`_execute_tool` of a background agent; they differ as in the code: only the chat
call binds an external connection, applies the floor and the grants, and notes
the permission in its approval. `approval` is an entry of
`ApprovalManager._pending` with its future, `decision` the handler
`resolve_approval`, which stores a permission before it delivers the answer.

`ChatTurns` adds the callers. `turn` is the generator `stream_agent`: model
turns up to the limit, prose or a batch of calls, repeated requests for a tool,
a text or the rest of a text, the contracts of a turn that was routed to the
calendar, the host or a workspace; or `stream_agent_with_delegation`, which runs
one delegation and tells the user. An agent makes one call.

| actions | code |
|---|---|
| `Bind`, `Check`, `Deny`, `Ask`, `Announce`, `Answered`, `TimeOut`, `SeeCancel`, `Approved`, `Unapproved`, `Rebind`, `Execute`, `Record` | one call, await by await |
| `Decide`, `Store`, `Resolve` | `resolve_approval`: grants, the saved permission, `ApprovalManager.resolve` |
| `SetPermission`, `Disconnect`, `Reconnect`, `ClearGrants`, `CancelAgent` | the API's other handlers; `_finalize_oauth_connection` |
| `ModelCalls`, `AutoCall`, `AskForTool`, `AskForText`, `AskForRest`, `Conclude`, `Limit` | one round of `stream_agent` |
| `BeginCall`, `OtherCall`, `EndCall`, `Acknowledge`, `AgentReturns`, `Close` | the calls of a turn, the delegation bridge, an agent, the closed stream |

`AuditedOnce` is a refinement too: the audit rows implement `AnswerOnce`, where
an answer is the status together with whether the tool ran.

History variables: `ran`, and `stranded`: the connection went before the user had
answered, and the same account has not been connected again. When it has, the
provider's flow has taken the same row, a binding of before is valid again, and an
approval from before runs the action, although the comment at
`tools/agent.py:638` says that a disconnect while the question is open invalidates
it.

Abstractions. One tool per instance. A calendar turn may also call other tools
(`OtherCall`, field `other` of a call); their policy is left out, only how they end
and that they confirm nothing is kept.
What the model writes is one of empty, prose and a question. Arguments are a
`Shape`. The wait of an approval and its removal are one step.

## 7. `DeviceRequests`: the broker, the connections and the Agent's tasks

`row` is the status column of `device_capability_requests`, `execute[c]` the
coroutine of a call of `execute`, `cancel[c]` of `cancel`, `future[c]` its entry
in `_pending`. `link` is the registered connection, `loop[k]` the coroutine
`connect_device` of connection `k`, `at` the connection the Agent has and whether
it was welcomed, `job[c]` the Agent's task for a request and how it ended.

| actions | code |
|---|---|
| `Lookup`, `Insert`, `Await`, `SendRequest`, `MarkRunning`, `Woken`, `Expire`, `LoadEnd`, `CommitEnd`, `Return` | `execute` with `_mark_running` and `_finalise` |
| `CancelAsk`, `CancelLoad`, `CancelCommit`, `CancelTell` | `cancel` |
| `Hello`, `Register`, `Welcome`, `Take`, `Store`, `Tell`, `RefuseHeartbeat`, `LoopEnds`, `Unregister` | `connect_device`, `DeviceConnectionRegistry`, `resolve_result` |
| `Revoke`, `Disconnect` | `revoke_device` and the closing of the connection |
| `AgentGreeted`, `AgentAccepts`, `AgentCancels`, `AgentStarts`, `AgentFinishes`, `AgentLeaves` | the Agent's receiver and its request tasks |
| `Break`, `AgentRestart`, `CoreRestart` | a lost WebSocket, the death of either program |

Two things decide most interleavings. `_finalise` judges the row it loads and
commits later, and `_mark_running` judges nothing, so a request that has its
result can be put back to running; `overtaken` is the history variable of these
rows. And the Agent answers on the WebSocket the request came from, or not at
all. Abstractions: arguments and results; one device; one cancellation of a
request; the checks of permission before the insert.

## 8. `Automations`: due times, restarts and edits

`row` is the automation, `job` the next run time APScheduler holds in memory,
`op[o]` a call of `schedule_automation` (at the start of Core, or after a change
by the user), `run[r]` a `_job_wrapper`. Time is a counter of ticks that nothing holds up: Core may
be down when a job is due, or up and late, because the host slept or the event loop
was blocked. A job that fires later than its grace is dropped by the scheduler, and
the row of a one-time automation then stays enabled, neither run nor missed.

| actions | code |
|---|---|
| `Load`, `Clear`, `Recover`, `Add`, `Store` | `schedule_automation`: the job is taken out, the row read, a missed run recovered or marked, the job added, `next_run_at` written |
| `Fire` | APScheduler: coalesced, one instance, with a grace for misfires |
| `Admit`, `Begin`, `Work`, `Finish`, `Look`, `Leave` | `_job_wrapper` with the semaphore, `execute_automation`, `_update_next_run` |
| `Edit`, `Delete`, `Unschedule`, `RunNow` | `api/automations.py` |
| `Tick`, `Crash`, `Start` | the clock, the death of Core, `start_automation_scheduler` |

`history` counts the runs started for the present time of the row and remembers
the three situations the properties except by name (`edited`, `forgotten`,
`overslept`: Core was up, and came to the job or to adding it later than its grace).
Watcher conditions, notifications and what the run's agent does are left out.

## 9. The environment: faults, bounds, fairness

*Executors that die.* `CrashPoints` says where a `_worker` coroutine may end.
The runs use `AfterAssignment`: every point between the executor's first visible
assignment and its release. Before that nothing but a cancellation from outside
can end the coroutine, and nothing in the code cancels a single executor; a
death between `queue.get` and the claim would leave a queued dispatch without a
tuple until Core restarts (`NoLeakedSlot` with `"got"` in `CrashPoints`).
`CrashWhileQueued` says whether an executor may die while its row still says
`queued`. Two properties depend on it: see `agent_replay` below.

*Core and Agent.* `Kill`, `Stop`, `Crash`, `CoreRestart` and `AgentRestart` may
happen at any step, `Drop` and `Break` lose a WebSocket at any step. Messages are
not reordered within a WebSocket, not duplicated by it, and not corrupted.

*Loops that overlap.* In `ProcessRuntime` as in `DeviceRequests` the loops of two
connections of one device may be inside transactions on one row at the same time,
in any order of their loads and commits. The runs reach what this does to a
process's row: an older loop that has loaded the row commits after a newer one has.
One chunk can then be stored by both, or an older one after a newer one; and
`running` can be written over an end. The properties say what is left.
`ChunksInOrder` holds from one crossing to the next: only a chunk whose own commit
crossed another's may be out of place, and order is kept again from there on.
`ActiveRowsEnd` holds but for a row that was revived, which stays `running` until
the next snapshot sweeps it.

*Bounds.* Each bounds what the environment does in a behaviour, never what the
program does in answer. Where several questions share a run, a *scene* (or
deployment, or budget) names one instance, and `Init` chooses among them.

| constant | bounds | values, and why they suffice |
|---|---|---|
| `Tasks`, `Processes` | rows | one: the dispatcher keeps no state shared between tasks but the lock and the executors, and Core and Agent none between processes; a single task with two executors and several generations has every interaction the code allows on one row |
| `Workers` | executors | two: a third could only repeat what the second does, as `OneExecutorAlways` shows for any number |
| `MaxCancels`, `MaxRetries`, `Taps` of `AgentDispatch` | requests of the user | one cancellation, one retry |
| `MaxCrashes`, `MaxRecoveryFaults`, `MaxHalts` | faults of the dispatcher | enough for a recovery, a recovery of the recovered task, and a restart around them |
| `MaxRecoveries` | recoveries of one attempt | the code's own default, 1 |
| `Deployments` | settings, specialists, stops, cancellations, retries, errors of one workflow | a chain of two, two side by side, and one alone; two stops around a single step, otherwise one stop and one interference: the theorems hold for any |
| `Callers`, `Taps`, `MaxCalls`, `MaxSteps` of `ChatTurns` | turns and agents, the user's requests at a time, calls and model turns of one turn | two callers that share grants and permission; two answers that race; two calls and three model turns reach each limit of the loop (two repetitions and a call, or a call after a call) |
| `Scenes` of `ChatTurns` | the tool, its policy, and how often the user decides, changes settings, closes a stream | one kind of tool per way through the policy (command, calendar, host, workspace, plain), two interferences each; other tools in a calendar turn with one change |
| `Scenes` of `DeviceRequests`, `MaxConnections` | calls, keys, connections, cancellations, revocations, faults | one request with two connections and up to two interferences, two requests with one key, and, without any request, three connections with a revocation and two faults |
| `Scenes` of `Automations`, `Runs`, `MaxTime`, `Grace`, `Parallel` | kind, edits, runs by hand, crashes; runs at a time; the clock | two interferences; three runs compete for two places; three ticks are before, at and past the grace |
| `Connections` of `ProcessRuntime` | WebSockets at a time | two: the old one that still drains and the new one |
| `Budgets` | chunks, callers of `wait_for_exit`, terminations, faults, and the sum of the last two, processes with a timeout | two chunks across a fault, a termination and a fault, a timeout with one of them; for liveness a caller of `wait_for_exit` with one of them |
| `History`, `Retained` | chunks kept by the Agent and by Core | two each: as large as the output, so a gap is not the window's doing |
| `Producers`, `MaxEvents`, `MaxOutages` | coroutines that publish, sequence numbers, events not stored | two and four: commits and announcements in both orders, a replay of several batches, a queue that overflows |
| `QueueSize`, `BatchLimit` | not the environment's, but far below the code's 32 and more | two and one: the queue overflows and a replay needs several queries |
| `MaxDrops`, `MaxRestarts` | lost streams, restarts of Core | two and one: a reconnection after a reconnection, with a restart between them |

Larger instances were run beside those in the `.cfg` files: the safety run of
the dispatcher with two cancellations (3.5 million states) and with two crashes
(5.8 million), a termination run of the process runtime with three troubles (6.2
million), automations with two edits, two runs by hand and a later time. The last
showed that an edit can also overtake a run that a restart has recovered ahead of
an unsaved time, which is why `edited` and `forgotten` are as wide as they are.

*Fairness.* `AgentDispatch.FairSpec` assumes that coroutines which are ready run
(weak fairness; strong where they wait for the lock or compete for the queue,
since `asyncio.Lock` and `PriorityQueue` serve waiters in order), that an
execution that does not end by itself ends by its timeout (`Fail`, from
`asyncio.wait_for`), that the supervisor, a loop with a fixed period, looks at
every dead executor and at every queued row, and that a stopped Core is started
again. It assumes no creation, cancellation, retry or approval.
`AgentDirector.FairSpec` assumes that coroutines run, executors finish what they
execute (their timeout sees to it), and Core is started again. `ChatTurns.FairSpec`
assumes that coroutines run, that models and tools return (their calls have
timeouts) and that an approval nobody answers times out; the user need do nothing.
`DeviceRequests.FairSpec` assumes that Core's coroutines run and its timers fire,
that a revocation goes on to the closing, and that an Agent with a connection
reads it and beats; a job need not finish and nobody need connect.
`Automations.FairSpec` assumes that coroutines run, the scheduler's timer fires some
time, be it late, a run ends by its timeout, and Core is started again.
`ProcessRuntime.FairSpec` assumes that ready coroutines run, that the
acknowledgement timer of `start_process` fires, that the Agent reconnects (its
connection loop never gives up) and reads what it receives, and that every
process ends some day. It does not assume that `wait_for_exit` times out or that
a watchdog runs. `RuntimeEvents.FairSpec` assumes that what `publish` has begun
it ends and that the coroutine of an open stream runs; nobody has to publish, and
the client need not connect.

`CHECK_DEADLOCK FALSE` appears in every `.cfg`: when the environment's budget is
spent and all work is done, the systems really have nothing left to do, and
the liveness properties say what a deadlock check would be for.

## 10. The runs

| run | what it covers | checks |
|---|---|---|
| `agent_safety` | 2 executors, 1 cancellation, 1 retry, 1 crash, 1 failed recovery, 1 halt | `TypeOK`, `OneExecutor`, `NoLeakedSlot`, `CancelStopsWork` |
| `agent_recovery` | 2 executors, 1 cancellation, 2 crashes, 1 halt, fair | `NoAutomaticReplay`, `QueuedWorkIsDispatched`, `ActiveWorkEnds` |
| `agent_replay` | 2 crashes, also while the row is queued | `NoAutomaticReplay` is violated |
| `director` | 9 deployments of a workflow, fair | `TypeOK`, `OneTaskPerStep`, `HandoffAsReviewed`, `OverIsAnswered`, `ClaimsAreTrue`, `AnsweredOnce`, `ReceiptEndsWork`, `NoToolReplay`, `WorkflowIsAnswered` |
| `chat_tools` | 8 scenes of turns, agents and tools, fair | `TypeOK`, `RunsAsAgreed`, `LostConnectionStops`, `ConfirmedOrRefused`, `AuditedOnce`, `TurnEnds` |
| `chat_promotion` | one answer, one change of the permission | `NeverPromoted` is violated |
| `device_requests` | 5 scenes of requests, connections and faults, fair | `TypeOK`, `OneRunPerKey`, `EndsAreTrue`, `WelcomedIsReachable`, `RequestEnds`, `RevokedLeaves` |
| `process_safety` | 2 chunks across a fault; a termination and a fault; a timeout and one of them | `TypeOK`, `ChunksInOrder`, `ReportsAreTrue` |
| `process_progress` | a caller of `wait_for_exit`, a termination or a fault, fair | `ActiveRowsEnd`, `WaiterWakes` |
| `process_replay_gap` | 2 chunks, 1 fault | `NoOutputGap` is violated |
| `automations` | 6 scenes of one automation, fair | `TypeOK`, `StartedOnce`, `DueIsSettled` |
| `event_stream` | 2 producers, 4 events, 1 outage, 2 lost streams, 1 restart, `Serial` and `Listening`, fair | `TypeOK`, `NothingMissed`, `ImplementsLog`, `StreamDelivers` |

The passing runs have between 41 thousand and 2.4 million distinct states. What
they show:

* **One executor per task.** Whatever is enqueued, cancelled, retried or
  recovered around it, a task is never in the hands of two executors, and every
  dispatch or generation that makes `enqueue` refuse a task has somebody who
  will clear it.
* **A cancellation stops work.** Once recorded and signalled, no executor is
  assigned the task and none asks the model again, begins a tool call of a turn or
  another round of the closure, until the user retries. What was already past the
  check of the event may finish, and this includes a whole batch of evidence tools:
  the runner calls them one after the other without looking at the event. So further
  tools do start after a signalled cancellation, in the bootstrap and in a follow-up.
* **Recovery terminates.** Queued work is dispatched and active rows end, when
  recoveries succeed. A recovery that fails is forgotten by the supervisor and
  its row stays active until Core restarts: `agent_recovery` grants none.
* **A workflow is answered once, in the end, with what was reviewed.** Each step
  gets one task over any resumption, a handoff never claims what did not
  complete, a failed task with tool activity is not retried by the Director, the
  receipt ends its work, and a workflow that left a trace is answered after any
  stop, unless a step or the Director itself raises an error (`pc` is `"raised"`: a
  quarantined task, a query, a model or a stored text that is refused). The code
  then logs it and tells nobody; the workflow waits for the next start of Core,
  which answers it from what was stored, or raises again.
* **A tool runs as agreed.** A denial found by the call cannot be turned into a
  run; what had to be asked was allowed, for the call or for its shape; an
  answer given for a lost connection runs nothing, as long as the same account has
  not been connected again; the audit tells one true end; a calendar turn says
  "done" only after a completed call of a calendar write, whatever else was
  completed; every turn ends.
* **Device requests.** Two callers with one key make the Agent work once, the
  loser of the race raises. Rows say what happened, even where a timeout, a
  cancellation and a result commit over each other. A request ends unless
  `_mark_running` overtook its result or Core was restarted. Handlers of older
  connections cannot cut off a welcomed Agent, and a revoked device leaves at
  its next heartbeat at the latest.
* **Statuses of processes are true.** `completed`, `cancelled` and `timed_out`
  are said only of a process that ended so, even though `process.exited` is
  applied to final rows and rows are judged before they are written. Chunks are
  stored once and in order but where two loops' commits cross, and **active rows
  end** after every loss the bounds allow, as the next snapshot tells what was
  missed, or sweeps what is gone; a row revived by a late commit waits for it.
* **Automations.** A due time starts one run in one life of Core, whoever starts
  it, and is run, marked as missed, or changed by the user. The exceptions are
  in the properties by name and are reached by the run: Core comes to the job
  later than its grace (`overslept`: dropped in silence), an edit when the time
  has come or a run has begun (`edited`: the automation is scheduled with a past
  date and runs again), and a death of Core while `next_run_at` is not the time
  of the row (`forgotten`: cleared for a run that had not begun, or not yet
  stored after an edit; the row is then enabled and never run, or run early).
* **The seam of replay and live delivery holds.** Subscribing before taking the
  watermark is right on SQLite: every row after the cursor with which a client
  connected has been shown, is on its way, or was dropped by a full queue; none
  is shown twice, in whatever order rows are announced; and a stream that stays
  open shows in the end every row after its cursor. A row that is announced late may
  be *below* the cursor of a client that disconnects before it comes: it then
  never comes, and `NothingMissed`, which speaks of rows after the cursor, does
  not promise it.

The disagreements between the code and what it says of itself:

* `agent_replay`. The recovery of a dead executor releases a generation before
  it loads the row, and a commit follows later. When the executor died before
  its first write, the row says `queued` and another executor may have taken
  the task by then; the late commit writes `queued` over an attempt that has
  run a tool, and a further attempt runs tools again.
* `process_replay_gap`. Live output after a reconnect raises the row's last
  sequence before the requested replay arrives, and the replay is then refused.
* `chat_promotion`. *Allow for this chat* saves the permission the call found.
  When the user has set the tool to *deny* while the approval was open, the
  answer puts the older and weaker permission back.

Behaviours of the models that no source line calls wrong, kept as hazards in
`PROJECT.json` with a note: two Retry taps that both judge the row before either
commits; a process marked lost while the Agent runs it; replay on a database that
does not commit in the order of its numbers (PostgreSQL), where the watermark
skips a row; the message of a directly created task that is lost between its
completion and its handoff; a batch of evidence tools that goes on after a
cancellation; loops whose commits cross; a workflow that raised and tells nobody; a
job dropped because Core came late; the client of `shell/runtime.ts` that never
connects. Two more contradict a line of the source: a forced delegation that is
denied, fails or times out ends its turn as accepted, and the bridge still tells the
user that it was started, where the docstring of `wrap_stream_agent` promises the
opposite (`agent_delegation_bridge.py:207` and `:76`); and an approval from before a
disconnect runs once the account is connected again (section 6).

## 11. What is proved

Each proof module takes the assumptions of its specification, named in it and
evaluated by TLC on the runs, and nothing else: every set of tasks, executors,
producers, callers, processes or connections, every priority, policy, plan and
bound. Three theorems have a further hypothesis on a constant, which their
`ASSUME` states. Each is the hypothesis under which the run checks the property,
and without each the property is false; both are said below.

`AgentDispatch_proofs`:

* `TypeCorrect`: `Spec => []TypeOK`. One step per action; the records of the
  specification are opened once, in the lemmas before it.
* `OneExecutorAlways`: `Spec => []OneExecutor`. The property is not inductive: a
  step cannot know that nobody else has the task without knowing *why*. The
  strengthening `Ownership` states it: an owner holds the active generation of
  its task (`OwnersAreActive`); a task is never queued and active at once and no
  generation exceeds the last one given out (`QueuedXorActive`); tuples carry
  real generations (`TuplesAreDispatches`); and what a slot shows is either its
  living owner's dispatch or a dead executor's generation that is neither queued
  nor active any more (`SlotsAreCurrentOrDead`). The last part makes the
  supervisor's late `_release_dispatch` harmless: it compares generations, and
  the one it brings can no longer be the active one. One lemma per group of
  actions shows that it keeps `Ownership`; the theorem combines them.
* `NothingLeaks`: `NoLeakedSlot`, from `Supervised` (the supervisor is only ever
  busy with an executor that has died, so what it releases has no living owner). It
  assumes that no executor dies between taking a tuple and claiming it (`"got" \notin CrashPoints`): such a death leaves a queued
  dispatch without a tuple, which is the leak.
* `CancelStops`: the action property `CancelStopsWork`, from `Told`: a recorded
  cancellation stays in the row through every stale commit (`Written` never takes
  back what it did not change), and once signalled every executor at work on the
  task finds its event set, the ones that begin later included. What takes up work
  (`TakesUpWork`) looks at the event in the same step; the calls of an evidence batch
  do not look, and the theorem does not speak of them.
* `ReplayedNever`: `NoAutomaticReplay`, from `ReplayInv`. An attempt that ran a
  tool was the first, is on record and is not queued again, and nobody but its
  executor can be at work (`Spent`); the intent is in the row before the tool runs
  (`UnderWay`); a dead executor's task is left alone by the dispatcher until the
  supervisor has taken it up (`Orphans`), and the supervisor has seen the evidence
  there is (`Evidenced`). It assumes `~CrashWhileQueued` (see `agent_replay`) and
  `MaxRetries = 0`. With a Retry the property is false even for executors that
  die late: the supervisor loads the row of a dead executor without evidence, a
  Retry that had judged the row before queues the task again, a second executor
  runs a tool, and the supervisor's commit, judged by what it loaded, queues the
  task once more. TLC finds this behaviour as soon as one retry is allowed, so
  `agent_recovery` allows none.

`AgentDirector_proofs`, from the inductive invariant `DirectorInv`:

* `PlanFromAgentsValid`: a plan built from any selection of specialists is one
  `_plan_valid` accepts.
* `TypeCorrect`, from `Shape`.
* `OneTaskAlways`. `Fresh` says why: a task that exists is counted once, and a
  step that may still create one has none; it needs `Lifecycle`, that steps run
  only under a gathering (or broken) workflow while Core is up.
* `ClaimsAlwaysTrue`, from `Claims`: outcomes and texts, whether in memory or in
  the checkpoint, call completed only what is, and what is completed stays so.
* `HandoffAlwaysReviewed`, from `Reviewed`: the stage of the checkpoint, the stage
  that was loaded and the text in hand agree between review and handoff.
* `OverAlwaysAnswered`, from `Closed`: whatever says that a workflow is over, in a
  row or in the snapshot of a coroutine that will write it back, has its answer.
* `ReceiptEndsAllWork` and `HandoffAnswersOnce` (every step is a step of
  `AnswerOnce` or a stutter), from `Delivered`: once the receipt is there the
  workflow is nowhere but in its bookkeeping.
* `ToolsNotReplayed`, from `RetrySafe`: between the look at a failure and the
  retry the task can gain no tool activity but by the user's own retry.

`ChatTurns_proofs`, from the inductive invariant `ChatInv`:

* `TypeCorrect`, from `Typed` and `Turns` (a batch never asks for more calls than
  a turn has left).
* `AlwaysRunsAsAgreed`, from `Consent`: a call that has passed its consent was
  agreed to, by what it noted when it looked; a grant, a stored permission or a
  second answer that comes later changes nothing of it. `Decided` is what makes
  the stored permission a permission.
* `LostConnectionAlwaysStops`, from `Stopped`: a stranded call stands before the
  revalidation, which a lost connection does not pass until it is connected again;
  `Reconnect` ends the claim for the calls that are open then.
* `AlwaysConfirmedOrRefused`, from `Turns`: `completed` is remembered only of a
  call of the turn that completed and was of its write tool, and prose needs it.
* `AuditAnswersOnce`: the audit rows implement `AnswerOnce`, from `Told`: a final
  status is written only where the call is over or about to be, and says
  whether the tool ran.

`RuntimeEvents_proofs`:

* `TypeCorrect`: `Spec => []TypeOK`, with `Numbering` (a number belongs to one
  producer or one row), which bounds the rows and so makes the latest one exist.
* `StreamImplementsLog`: `Spec => ImplementsLog`. Every step is a step of
  `EventLog` or a stutter. The inductive invariant `Delivery` says why what is
  shown is new: a number still to be announced has not been shown, unless the
  watermark covers it (`BusyNotShown`); what the queue holds past the watermark
  is committed, unseen, there once, and nobody will announce it again
  (`QueueIsNews`); what the replay holds is committed and between the cursor and
  the watermark, in increasing order (`BatchIsAhead`). It is stated over the
  numbers that are still *held*, as after a restart that pruned every row the
  cursor may be ahead of the bus's sequence.
* `NothingIsMissed`: `NothingMissed`, which speaks of the rows after the cursor a
  stream was opened with and not of those below it, from `Seam`: the rows past the bus's
  sequence still have the producer that will announce them (`Unannounced`), no
  row appears below one that is committed (`InOrder`), and what the replay has
  not sent of the rows up to its last fetch is in its batch (`Fetched`). It
  assumes `Serial`, a database that numbers and commits in one order, as SQLite
  does; otherwise a row may commit below a watermark that was already passed.

`DeviceRequests_proofs`, from the inductive invariant `DeviceInv`, which follows a
request along its way (`DeviceInvariant`):

* `TypeCorrect`, from `Typed`.
* `EndsTrue`: `EndsAreTrue`. A request under way is the only one of its call and
  has a row (`Posted`); a job was asked for by a row and has an end only when it
  is over (`Worked`); a result that travels, or that a loop is about to store, is
  the end of its job (`Carried`); and a row that failed without a job never gets
  one (`Ended`), as its caller has left and nothing of it is on the wire.
* `OneRun`: `OneRunPerKey`, from `Keyed`: of the calls with one key one has a row,
  and a job needs a row.
* `WelcomedReachable`: `WelcomedIsReachable`, from `Reached`: whoever is welcomed,
  or has the welcome under way, is the connection Core sends to, unless a close is
  under way, which is then the last message of a connection Core has left.

`Automations_proofs`, from the inductive invariant `AutomationInv`
(`AutomationInvariant`); its assumption says that a scene's due time is one the
clock can reach:

* `TypeCorrect`, from `Typed`.
* `OnceStarted`: `StartedOnce`, in one life of Core and unless the user edits the
  automation when its time has come or a run of it has begun. Who may start a run
  is divided among the parts:
  the job in memory has one instance (`Single`); only the start of Core looks for
  a missed run (`Courses`), and then nothing else does anything (`Starting`); a
  recovered run is alone and nobody puts the job back (`Alone`); once a run has
  begun it is the only one until it has turned the automation off (`Turned`).
  `Held` is the semaphore, `Dead` what a crash leaves.

`ProcessRuntime_proofs`:

* `TypeCorrect`, from `Typed`: types, that a transaction under way is on the row of
  a process and knows the end it will write (`Transactions`), and that the messages
  are ones the handlers can handle (`Messages`).
* `ReportsTrue`: `ReportsAreTrue`, from `Truth`. The Agent starts a process once
  (`StartedOnce`), so that an end that has happened stays so; hence every end that
  the Agent remembers (`SessionsTrue`), that is on the wire, alone or in a snapshot
  (`WireTrue`), or that a handler is about to write (`LoopsTrue`) is true. The
  theorem covers loops that commit over each other: no report is false, although it
  may not be the last word.
* `StartFindsNothing`: when a `process.start` arrives, the Agent has no session for
  it. No run checks it; it is what lets the model leave out that branch of `_start`.
* `OutputInOrder` (in `ProcessOutput_proofs`): `ChunksInOrder`, from `Ordered`:
  stored chunks rise from one crossing to the next (`InOrder`); the last of them is not beyond the
  row's last sequence (`Bounded`); and a chunk about to be written came after the
  last sequence its handler saw, when there were not more chunks than now
  (`Behind`). Where the row is still as the handler saw it the new chunk therefore
  rises, and otherwise its position is a crossing. It covers any number of loops
  inside transactions at once.

Only model-checked: liveness (`QueuedWorkIsDispatched`, `ActiveWorkEnds`,
`ActiveRowsEnd`, `WaiterWakes`, `StreamDelivers`, `WorkflowIsAnswered`, `TurnEnds`,
`RequestEnds`, `RevokedLeaves`, `DueIsSettled`). It rests on fairness, and the
prover does not reason about `ENABLED`.

## 12. Plan

1. *Terminal runtime*: the output side of `ProcessRuntime` with an input stream
   and reattachment; a second caller of `wait_for_exit`.
2. *Model gateway* (breaker and half-open probes) and *control sessions*.
3. *Proofs*: what holds with a retry in place of `NoAutomaticReplay` (attempts are
   bounded by retries and recoveries), and what holds of `NothingMissed` without
   `Serial`.

Recursive operators are avoided everywhere, so that each module can be proved
about.
