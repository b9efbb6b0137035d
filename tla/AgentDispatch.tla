--------------------------- MODULE AgentDispatch ---------------------------
(***************************************************************************)
(* The background-agent dispatcher of Jace Core: the in-memory             *)
(* AgentManager (queue, generations, executors, supervisor), the           *)
(* persistent AgentTask rows it dispatches, the executor's life            *)
(* (execute_agent_task), the cancel and retry requests of the API, and the *)
(* recovery of executors that die and of Core restarts.                    *)
(*                                                                         *)
(* A database session that reads a row and commits later is two actions:   *)
(* SQLAlchemy keeps what was loaded and its UPDATE writes only the columns *)
(* that changed against it, so a late commit can overwrite a newer row.    *)
(* asyncio switches coroutines only at an await; everything between two    *)
(* awaits is one action.                                                   *)
(***************************************************************************)
EXTENDS Integers, FiniteSets

CONSTANTS
    Tasks,          \* ids of AgentTask rows
    Workers,        \* executor slots, agent_settings.max_parallel_tasks of them
    NoTask,         \* None, where the code keeps a task id
    NoWorker,       \* the supervisor is handling no executor
    Taps,           \* Retry requests a client may have in flight for one task
    Priority,       \* task.priority
    SafeRecovery,   \* settings.agent_safe_recovery_enabled
    MaxRecoveries,  \* recover_task_after_worker_crash(max_recoveries=1)
    CrashPoints,    \* where an executor coroutine may die (fault model) ...
    CrashWhileQueued, \* ... and whether also while its row still says queued
    MaxCancels,     \* bounds on what the environment does in a behaviour
    MaxRetries,
    MaxCrashes,
    MaxRecoveryFaults,
    MaxHalts

Terminal == {"completed", "failed", "cancelled"}
Active   == {"running", "thinking", "using_tool", "waiting_permission"}
Statuses == {"absent", "queued"} \cup Active \cup Terminal

\* Program points of one _worker coroutine.  It owns its task from the claim
\* to the release; it is executing between its first and its last write.
Executing == {"assigned", "starting", "loop", "turn", "beginning", "probing",
              "using", "waiting", "acting", "reviewing", "closing", "handoff"}
Owning    == Executing \cup {"claimed", "aborting", "cancelling", "failing",
                             "recording", "finished"}
Points    == Owning \cup {"idle", "got", "dead"}

ASSUME ConstantsAssumption ==
    /\ NoTask \notin Tasks
    /\ NoWorker \notin Workers
    /\ Priority \in [Tasks -> Int]
    /\ SafeRecovery \in BOOLEAN
    /\ MaxRecoveries \in Nat
    /\ CrashPoints \subseteq Owning \cup {"got"}
    /\ CrashWhileQueued \in BOOLEAN
    /\ MaxCancels \in Nat /\ MaxRetries \in Nat
    /\ MaxCrashes \in Nat /\ MaxRecoveryFaults \in Nat /\ MaxHalts \in Nat

Row == [status : Statuses, cancel : BOOLEAN, recoveries : Nat,
        quarantined : BOOLEAN, evidence : BOOLEAN]

\* Batches of tools the runner calls by itself to gather evidence: "open" is
\* the bootstrap before the first turn or the follow-up of a finished one,
\* "closing" a round of the closure of the evidence frontier.
Batches == {"none", "open", "closing"}

VARIABLES
    row,                \* the agent_tasks table (survives Core)
    manager,            \* "up" | "stopping" | "down"
    heap,               \* tuples in _queue
    queuedDispatch,     \* _queued_dispatches / _queued_ids, 0 when absent
    dispatchGeneration, \* _dispatch_generation
    activeGeneration,   \* _active_generation / _running_ids, 0 when absent
    cancelEvents,       \* the (task, generation) pairs whose event is set
    enqueuing,          \* the task whose enqueue() holds _lock across a read
    worker,             \* the _worker coroutines
    slot,               \* _worker_states: the assignment the supervisor sees
    supervisor,         \* _recover_worker_exit in progress, and what it loaded
    cancelRequest,      \* manager.cancel() in progress, per task
    retryRequest,       \* retry_agent_task() in progress, per task and tap
    budget,             \* what the environment may still do
    attempts,           \* history: attempts that ran a tool since the last retry
    stopped             \* history: how far a recorded cancellation got

dispatcher == <<heap, queuedDispatch, dispatchGeneration, activeGeneration,
                cancelEvents, enqueuing>>
requests   == <<cancelRequest, retryRequest>>
history    == <<attempts, stopped>>
vars == <<row, manager, dispatcher, worker, slot, supervisor, requests,
          budget, history>>

Idle      == [pc |-> "idle", task |-> NoTask, gen |-> 0, counted |-> FALSE,
              batch |-> "none"]
Dead      == [Idle EXCEPT !.pc = "dead"]
NoSlot    == [task |-> NoTask, gen |-> 0]
NewRow    == [status |-> "absent", cancel |-> FALSE, recoveries |-> 0,
              quarantined |-> FALSE, evidence |-> FALSE]
NoHandler == [worker |-> NoWorker, seen |-> NewRow]
NoCancel  == [step |-> "none", seen |-> NewRow]
NoRetry   == [pending |-> FALSE, seen |-> NewRow]

\* What a commit leaves in a column that was loaded as `loaded` and assigned
\* `new`: an assignment that changes nothing is not part of the UPDATE.
Written(loaded, new, current) == IF loaded = new THEN current ELSE new

LockFree == enqueuing = NoTask
Live     == manager \in {"up", "stopping"}

Init ==
    /\ row = [t \in Tasks |-> NewRow]
    /\ manager = "up"
    /\ heap = {}
    /\ queuedDispatch = [t \in Tasks |-> 0]
    /\ dispatchGeneration = [t \in Tasks |-> 0]
    /\ activeGeneration = [t \in Tasks |-> 0]
    /\ cancelEvents = {}
    /\ enqueuing = NoTask
    /\ worker = [w \in Workers |-> Idle]
    /\ slot = [w \in Workers |-> NoSlot]
    /\ supervisor = NoHandler
    /\ cancelRequest = [t \in Tasks |-> NoCancel]
    /\ retryRequest = [t \in Tasks |-> [k \in Taps |-> NoRetry]]
    /\ budget = [cancels |-> MaxCancels, retries |-> MaxRetries,
                 crashes |-> MaxCrashes, recoveryFaults |-> MaxRecoveryFaults,
                 halts |-> MaxHalts]
    /\ attempts = [t \in Tasks |-> 0]
    /\ stopped = [t \in Tasks |-> "no"]

-----------------------------------------------------------------------------
(* Creating a task and putting it into the dispatcher.                     *)

\* create_task commits a queued row; the caller enqueues it afterwards.
CreateTask(t) ==
    /\ manager = "up"
    /\ row[t].status = "absent"
    /\ row' = [row EXCEPT ![t].status = "queued"]
    /\ UNCHANGED <<manager, dispatcher, worker, slot, supervisor, requests,
                   budget, history>>

\* enqueue() takes _lock, refuses a task that is queued or running, and reads
\* the row.  Its callers (the API, the Director, start(), the supervisor's
\* reconciliation every few seconds) may call it at any time.
EnqueueRead(t) ==
    /\ manager = "up"
    /\ LockFree
    /\ queuedDispatch[t] = 0 /\ activeGeneration[t] = 0
    /\ row[t].status = "queued" /\ ~row[t].cancel
    /\ enqueuing' = t
    /\ UNCHANGED <<row, manager, heap, queuedDispatch, dispatchGeneration,
                   activeGeneration, cancelEvents, worker, slot, supervisor,
                   requests, budget, history>>

\* ... and, still under _lock, registers a dispatch of a new generation.
EnqueuePut ==
    /\ Live
    /\ enqueuing \in Tasks
    /\ LET t == enqueuing
           g == dispatchGeneration[t] + 1
       IN  /\ dispatchGeneration' = [dispatchGeneration EXCEPT ![t] = g]
           /\ queuedDispatch' = [queuedDispatch EXCEPT ![t] = g]
           /\ heap' = heap \cup {[task |-> t, gen |-> g]}
    /\ enqueuing' = NoTask
    /\ UNCHANGED <<row, manager, activeGeneration, cancelEvents, worker, slot,
                   supervisor, requests, budget, history>>

-----------------------------------------------------------------------------
(* One executor, _worker(w).                                               *)

Goto(w, p) == worker' = [worker EXCEPT ![w].pc = p]

\* A batch of evidence tools begins (or, with b = "none", is over).
Enter(w, p, b) == worker' = [worker EXCEPT ![w].pc = p, ![w].batch = b]

SetStatus(t, s) == row' = [row EXCEPT ![t].status = s]

CancelSet(w) == [task |-> worker[w].task, gen |-> worker[w].gen] \in cancelEvents

\* PriorityQueue.get: highest priority first; arrival order among equals is
\* left open.
Take(w) ==
    /\ manager = "up"
    /\ worker[w].pc = "idle"
    /\ \E e \in heap :
        /\ \A f \in heap : Priority[e.task] >= Priority[f.task]
        /\ heap' = heap \ {e}
        /\ worker' = [worker EXCEPT ![w] = [Idle EXCEPT !.pc = "got",
                                              !.task = e.task, !.gen = e.gen]]
    /\ UNCHANGED <<row, manager, queuedDispatch, dispatchGeneration,
                   activeGeneration, cancelEvents, enqueuing, slot, supervisor,
                   requests, budget, history>>

\* _claim_dispatch under _lock: a tuple of an older generation is discarded.
Claim(w) ==
    LET t == worker[w].task
        g == worker[w].gen
    IN  /\ Live
        /\ worker[w].pc = "got"
        /\ LockFree
        /\ IF queuedDispatch[t] = g
           THEN /\ queuedDispatch' = [queuedDispatch EXCEPT ![t] = 0]
                /\ activeGeneration' = [activeGeneration EXCEPT ![t] = g]
                /\ Goto(w, "claimed")
           ELSE /\ worker' = [worker EXCEPT ![w] = Idle]
                /\ UNCHANGED <<queuedDispatch, activeGeneration>>
        /\ UNCHANGED <<row, manager, heap, dispatchGeneration, cancelEvents,
                       enqueuing, slot, supervisor, requests, budget, history>>

\* Mutant: an executor that refuses its task returns to the queue without
\* releasing the generation it claimed.
CheckRowKeepsClaim(w) ==
    LET t == worker[w].task
    IN  /\ Live
        /\ worker[w].pc = "claimed"
        /\ IF row[t].status = "queued" /\ ~row[t].cancel /\ ~CancelSet(w)
           THEN /\ slot' = [slot EXCEPT ![w] = [task |-> t,
                                                gen |-> worker[w].gen]]
                /\ Goto(w, "assigned")
           ELSE /\ worker' = [worker EXCEPT ![w] = Idle]
                /\ UNCHANGED slot
        /\ UNCHANGED <<row, manager, dispatcher, supervisor, requests, budget,
                       history>>

\* Mutant: the assignment is not made visible to the supervisor.
CheckRowUnseen(w) ==
    LET t == worker[w].task
    IN  /\ Live
        /\ worker[w].pc = "claimed"
        /\ Goto(w, IF row[t].status = "queued" /\ ~row[t].cancel
                      /\ ~CancelSet(w)
                   THEN "assigned" ELSE "finished")
        /\ UNCHANGED <<row, manager, dispatcher, slot, supervisor, requests,
                       budget, history>>

\* After the claim the row is read again: a cancellation that landed in
\* between makes the executor let go.  Otherwise the assignment becomes
\* visible to the supervisor.
CheckRow(w) ==
    LET t == worker[w].task
    IN  /\ Live
        /\ worker[w].pc = "claimed"
        /\ IF row[t].status = "queued" /\ ~row[t].cancel /\ ~CancelSet(w)
           THEN /\ slot' = [slot EXCEPT ![w] = [task |-> t,
                                                gen |-> worker[w].gen]]
                /\ Goto(w, "assigned")
           ELSE /\ Goto(w, "finished")
                /\ UNCHANGED slot
        /\ UNCHANGED <<row, manager, dispatcher, supervisor, requests, budget,
                       history>>

\* The steps below leave everything but the row and the coroutine alone.
StepFrame == UNCHANGED <<manager, dispatcher, slot, supervisor, requests,
                         budget, history>>

\* AgentTaskCancelled, raised at a check of the cancel event (or, before the
\* start, of the row).
Abort(w) ==
    /\ Live
    /\ \/ /\ worker[w].pc \in {"assigned", "loop", "turn", "closing"}
          /\ CancelSet(w)
       \/ worker[w].pc = "assigned" /\ row[worker[w].task].cancel
    /\ Goto(w, "aborting")
    /\ UNCHANGED row
    /\ StepFrame

\* The prologue of execute_agent_task passes its checks.
Prologue(w) ==
    /\ Live
    /\ worker[w].pc = "assigned"
    /\ ~row[worker[w].task].cancel /\ ~CancelSet(w)
    /\ Goto(w, "starting")
    /\ UNCHANGED row
    /\ StepFrame

\* The first write, _set_state(status="running"), is not guarded by what the
\* row says by then.  A task that needs local sources begins with the evidence
\* bootstrap.
Start(w) ==
    /\ Live
    /\ worker[w].pc = "starting"
    /\ SetStatus(worker[w].task, "running")
    /\ Goto(w, "loop") \/ Enter(w, "probing", "open")
    /\ StepFrame

\* The top of the model/tool loop.
Think(w) ==
    /\ Live
    /\ worker[w].pc = "loop"
    /\ ~CancelSet(w)
    /\ SetStatus(worker[w].task, "thinking")
    /\ Goto(w, "turn")
    /\ StepFrame

\* _background_model_turn gives way to a chat in the foreground.
YieldToForeground(w) ==
    /\ Live
    /\ worker[w].pc \in {"turn", "closing"}
    /\ SetStatus(worker[w].task, "running")
    /\ UNCHANGED worker
    /\ StepFrame

\* A draft that names evidence nobody has read: its follow-up in the loop begins
\* without a look at the event, a round of the frontier's closure after one.
SeekEvidence(w) ==
    /\ Live
    /\ \/ worker[w].pc = "turn" /\ Enter(w, "probing", "open")
       \/ /\ worker[w].pc \in {"turn", "closing"}
          /\ ~CancelSet(w)
          /\ Enter(w, "probing", "closing")
    /\ UNCHANGED row
    /\ StepFrame

\* The tools of a batch follow each other without a look at the event; the
\* follow-up leads back to the top of the loop, the round to the next one.
EndBatch(w) ==
    /\ Live
    /\ worker[w].pc = "probing"
    /\ Enter(w, IF worker[w].batch = "closing" THEN "closing" ELSE "loop", "none")
    /\ UNCHANGED row
    /\ StepFrame

\* A tool call of the finished turn: the event is checked first ...
CallTool(w) ==
    /\ Live
    /\ worker[w].pc = "turn"
    /\ ~CancelSet(w)
    /\ Goto(w, "beginning")
    /\ UNCHANGED row
    /\ StepFrame

\* Mutant: the intent to run a tool is shown in the status only.
RecordIntentAsStatus(w) ==
    /\ Live
    /\ worker[w].pc \in {"beginning", "probing"}
    /\ SetStatus(worker[w].task, "using_tool")
    /\ Goto(w, "using")
    /\ StepFrame

\* ... then "tool_started" is committed before anything is executed.
RecordIntent(w) ==
    /\ Live
    /\ worker[w].pc \in {"beginning", "probing"}
    /\ row' = [row EXCEPT ![worker[w].task].status = "using_tool",
                          ![worker[w].task].evidence = TRUE]
    /\ Goto(w, "using")
    /\ StepFrame

\* _execute_tool: the tool is refused or unknown, allowed, or must be approved.
DecidePermission(w) ==
    /\ Live
    /\ worker[w].pc = "using"
    /\ \/ Goto(w, "reviewing") /\ UNCHANGED row
       \/ Goto(w, "acting") /\ UNCHANGED row
       \/ Goto(w, "waiting")
          /\ SetStatus(worker[w].task, "waiting_permission")
    /\ StepFrame

CancelVisible(w) ==
    \/ row[worker[w].task].cancel
    \/ row[worker[w].task].status = "cancelled"

\* _wait_for_background_approval polls the row for a cancellation.
ApprovalCancelled(w) ==
    /\ Live
    /\ worker[w].pc = "waiting"
    /\ CancelVisible(w)
    /\ Goto(w, "aborting")
    /\ UNCHANGED row
    /\ StepFrame

\* The user grants or refuses, or the approval times out (which is not
\* followed by a look at the row).
ApprovalAnswered(w) ==
    /\ Live
    /\ worker[w].pc = "waiting"
    /\ \/ ~CancelVisible(w) /\ Goto(w, "acting")
       \/ Goto(w, "reviewing")
    /\ SetStatus(worker[w].task, "using_tool")
    /\ StepFrame

\* The tool runs: this is the step that may have a side effect.
RunTool(w) ==
    LET t == worker[w].task
    IN  /\ Live
        /\ worker[w].pc = "acting"
        /\ worker' = [worker EXCEPT ![w].pc = "reviewing",
                                    ![w].counted = TRUE]
        /\ attempts' = IF worker[w].counted \/ attempts[t] = 2 THEN attempts
                       ELSE [attempts EXCEPT ![t] = @ + 1]
        /\ UNCHANGED <<row, manager, dispatcher, slot, supervisor, requests,
                       budget, stopped>>

\* "tool_completed": the next call of the same turn or batch, or another turn.
Review(w) ==
    /\ Live
    /\ worker[w].pc = "reviewing"
    /\ SetStatus(worker[w].task, "thinking")
    /\ \E p \in IF worker[w].batch = "none" THEN {"turn", "loop"} ELSE {"probing"} :
         Goto(w, p)
    /\ StepFrame

\* The final text: completed is written whatever the row says, and the
\* handoff message follows in later transactions.
Complete(w) ==
    /\ Live
    /\ worker[w].pc \in {"turn", "closing"}
    /\ SetStatus(worker[w].task, "completed")
    /\ Goto(w, "handoff")
    /\ StepFrame

Handoff(w) ==
    /\ Live
    /\ worker[w].pc = "handoff"
    /\ Goto(w, "finished")
    /\ UNCHANGED row
    /\ StepFrame

\* Any exception, and the timeout of asyncio.wait_for.
Fail(w) ==
    /\ Live
    /\ worker[w].pc \in Executing
    /\ Goto(w, "failing")
    /\ UNCHANGED row
    /\ StepFrame

\* _fail_task and the handler of AgentTaskCancelled read the row ...
ReadBeforeEnd(w) ==
    LET s == row[worker[w].task].status
    IN  /\ Live
        /\ \/ /\ worker[w].pc = "failing"
              /\ Goto(w, IF s \in {"completed", "cancelled"}
                         THEN "finished" ELSE "recording")
           \/ /\ worker[w].pc = "aborting"
              /\ Goto(w, IF s \in Terminal THEN "finished" ELSE "cancelling")
        /\ UNCHANGED row
        /\ StepFrame

\* ... and commit the end of the attempt.
CommitEnd(w) ==
    /\ Live
    /\ worker[w].pc \in {"recording", "cancelling"}
    /\ SetStatus(worker[w].task,
                 IF worker[w].pc = "recording" THEN "failed" ELSE "cancelled")
    /\ Goto(w, "finished")
    /\ StepFrame

\* Mutant: a release does not ask whose generation is active.
ReleasedWhoever(t, g) ==
    /\ activeGeneration' = [activeGeneration EXCEPT ![t] = 0]
    /\ cancelEvents' = cancelEvents \ {[task |-> t, gen |-> g]}

\* Mutant: a release forgets the event but not the generation.
ReleasedEventOnly(t, g) ==
    /\ UNCHANGED activeGeneration
    /\ cancelEvents' = cancelEvents \ {[task |-> t, gen |-> g]}

\* _release_dispatch: only the generation that is active is released.
Released(t, g) ==
    /\ activeGeneration' =
         [activeGeneration EXCEPT ![t] = IF @ = g THEN 0 ELSE @]
    /\ cancelEvents' = cancelEvents \ {[task |-> t, gen |-> g]}

\* The finally block: release the generation and the visible assignment.
Release(w) ==
    LET t == worker[w].task
        g == worker[w].gen
    IN  /\ Live
        /\ worker[w].pc = "finished"
        /\ LockFree
        /\ Released(t, g)
        /\ slot' = [slot EXCEPT ![w] =
                      IF @ = [task |-> t, gen |-> g] THEN NoSlot ELSE @]
        /\ worker' = [worker EXCEPT ![w] = Idle]
        /\ UNCHANGED <<row, manager, heap, queuedDispatch, dispatchGeneration,
                       enqueuing, supervisor, requests, budget, history>>

\* The coroutine dies (it is cancelled, or an exception leaves _worker).  Once
\* it has claimed, its finally block still releases the generation; the
\* assignment stays for the supervisor.
WorkerCrash(w) ==
    LET t == worker[w].task
        g == worker[w].gen
    IN  /\ manager = "up"
        /\ worker[w].pc \in CrashPoints
        /\ CrashWhileQueued \/ row[t].status # "queued"
        /\ budget.crashes > 0
        /\ budget' = [budget EXCEPT !.crashes = @ - 1]
        /\ \/ worker[w].pc = "got" /\ UNCHANGED <<activeGeneration, cancelEvents>>
           \/ worker[w].pc # "got" /\ LockFree /\ Released(t, g)
        /\ worker' = [worker EXCEPT ![w] = Dead]
        /\ UNCHANGED <<row, manager, heap, queuedDispatch, dispatchGeneration,
                       enqueuing, slot, supervisor, requests, history>>

-----------------------------------------------------------------------------
(* The supervisor: _recover_worker_exit, one dead executor at a time.      *)

\* Release what the dead coroutine was assigned, then load the row and the
\* evidence of tool activity.  An executor that had no assignment yet is
\* simply restarted.
SuperviseExit(w) ==
    LET t == slot[w].task
    IN  /\ manager = "up"
        /\ supervisor.worker = NoWorker
        /\ worker[w].pc = "dead"
        /\ IF t = NoTask
           THEN /\ worker' = [worker EXCEPT ![w] = Idle]
                /\ UNCHANGED <<supervisor, activeGeneration, cancelEvents>>
           ELSE /\ LockFree
                /\ Released(t, slot[w].gen)
                /\ supervisor' = [worker |-> w, seen |-> row[t]]
                /\ UNCHANGED worker
        /\ UNCHANGED <<row, manager, heap, queuedDispatch, dispatchGeneration,
                       enqueuing, slot, requests, budget, history>>

\* Mutant: the recovery counts down.
RecoveredRowCountsDown(seen, current) ==
    IF seen.status \in Terminal THEN current
    ELSE [current EXCEPT !.status = "queued",
                         !.recoveries = seen.recoveries - 1]

\* recover_task_after_worker_crash decides on the row as it was loaded.
RecoveredRow(seen, current) ==
    IF seen.status \in Terminal THEN current
    ELSE IF seen.cancel THEN [current EXCEPT !.status = "cancelled"]
    ELSE IF SafeRecovery /\ (seen.evidence \/ seen.quarantined)
         THEN [current EXCEPT !.status = "failed", !.quarantined = TRUE]
    ELSE IF seen.recoveries >= MaxRecoveries
         THEN [current EXCEPT !.status = "failed"]
    ELSE [current EXCEPT !.status = Written(seen.status, "queued", @),
                         !.recoveries = seen.recoveries + 1]

\* The executor is restarted; its task returns through EnqueueRead.
Restarted(w) ==
    /\ worker' = [worker EXCEPT ![w] = Idle]
    /\ slot' = [slot EXCEPT ![w] = NoSlot]
    /\ supervisor' = NoHandler

RecoverTask ==
    /\ manager = "up"
    /\ \E w \in Workers :
        /\ supervisor.worker = w
        /\ row' = [row EXCEPT ![slot[w].task] =
                     RecoveredRow(supervisor.seen, @)]
        /\ Restarted(w)
    /\ UNCHANGED <<manager, dispatcher, requests, budget, history>>

\* The recovery itself fails (the database refuses): the supervisor logs it,
\* restarts the executor and forgets the assignment.
RecoverTaskFails ==
    /\ manager = "up"
    /\ budget.recoveryFaults > 0
    /\ budget' = [budget EXCEPT !.recoveryFaults = @ - 1]
    /\ \E w \in Workers : supervisor.worker = w /\ Restarted(w)
    /\ UNCHANGED <<row, manager, dispatcher, requests, history>>

-----------------------------------------------------------------------------
(* manager.cancel(): read, commit, then signal under _lock.                *)

CancelRead(t) ==
    /\ manager = "up"
    /\ row[t].status # "absent"
    /\ cancelRequest[t].step = "none"
    /\ budget.cancels > 0
    /\ budget' = [budget EXCEPT !.cancels = @ - 1]
    /\ cancelRequest' = [cancelRequest EXCEPT ![t] =
                           [step |-> "read", seen |-> row[t]]]
    /\ UNCHANGED <<row, manager, dispatcher, worker, slot, supervisor,
                   retryRequest, history>>

\* request_cancel: nothing for a finished task, at once for a queued one, a
\* flag for an active one.
CancelledRow(seen, current) ==
    IF seen.status \in Terminal THEN current
    ELSE [current EXCEPT
            !.cancel = Written(seen.cancel, TRUE, @),
            !.status = IF seen.status = "queued" THEN "cancelled" ELSE @]

CancelCommit(t) ==
    LET seen == cancelRequest[t].seen
    IN  /\ Live
        /\ cancelRequest[t].step = "read"
        /\ row' = [row EXCEPT ![t] = CancelledRow(seen, @)]
        /\ cancelRequest' = [cancelRequest EXCEPT ![t].step = "committed"]
        /\ stopped' = [stopped EXCEPT ![t] =
                         IF seen.status \in Terminal \/ seen.cancel
                         THEN @ ELSE "recorded"]
        /\ UNCHANGED <<manager, dispatcher, worker, slot, supervisor,
                       retryRequest, budget, attempts>>

\* Mutant: only a queued dispatch is cancelled, a running one is left alone.
SignalledNobody(t) == cancelEvents

\* The event of the execution that is active by now.
Signalled(t) ==
    IF activeGeneration[t] = 0 THEN cancelEvents
    ELSE cancelEvents \cup {[task |-> t, gen |-> activeGeneration[t]]}

\* Withdraw the queued dispatch (its tuple stays in the heap, one generation
\* behind) and signal the active one.
CancelSignal(t) ==
    LET g == queuedDispatch[t]
    IN  /\ Live
        /\ cancelRequest[t].step = "committed"
        /\ LockFree
        /\ IF g # 0
           THEN /\ queuedDispatch' = [queuedDispatch EXCEPT ![t] = 0]
                /\ dispatchGeneration' =
                     [dispatchGeneration EXCEPT ![t] =
                        (IF @ >= g THEN @ ELSE g) + 1]
           ELSE UNCHANGED <<queuedDispatch, dispatchGeneration>>
        /\ cancelEvents' = Signalled(t)
        /\ cancelRequest' = [cancelRequest EXCEPT ![t] = NoCancel]
        /\ stopped' = [stopped EXCEPT ![t] = IF @ = "recorded" THEN "signalled"
                                             ELSE @]
        /\ UNCHANGED <<row, manager, heap, activeGeneration, enqueuing, worker,
                       slot, supervisor, retryRequest, budget, attempts>>

-----------------------------------------------------------------------------
(* retry_agent_task(): the row is loaded, the agent's readiness is awaited *)
(* (model probes), then prepare_retry judges and rewrites the loaded row.  *)

RetryRead(t, k) ==
    /\ manager = "up"
    /\ row[t].status \in {"failed", "cancelled"} /\ ~row[t].quarantined
    /\ ~retryRequest[t][k].pending
    /\ budget.retries > 0
    /\ budget' = [budget EXCEPT !.retries = @ - 1]
    /\ retryRequest' = [retryRequest EXCEPT ![t][k] =
                          [pending |-> TRUE, seen |-> row[t]]]
    /\ UNCHANGED <<row, manager, dispatcher, worker, slot, supervisor,
                   cancelRequest, history>>

\* The crash counters are dropped and used_tools is emptied; the events and
\* audit rows of earlier attempts remain.  The user has now authorised a new
\* attempt: the history variables start again.
RetryCommit(t, k) ==
    LET seen == retryRequest[t][k].seen
    IN  /\ Live
        /\ retryRequest[t][k].pending
        /\ row' = [row EXCEPT
             ![t].status = "queued",
             ![t].cancel = Written(seen.cancel, FALSE, @),
             ![t].recoveries = Written(seen.recoveries, 0, @),
             ![t].quarantined = IF seen.recoveries = 0 THEN @ ELSE FALSE]
        /\ retryRequest' = [retryRequest EXCEPT ![t][k] = NoRetry]
        /\ attempts' = [attempts EXCEPT ![t] = 0]
        /\ stopped' = [stopped EXCEPT ![t] = "no"]
        /\ worker' = [w \in Workers |->
                        IF worker[w].task = t
                        THEN [worker[w] EXCEPT !.counted = TRUE]
                        ELSE worker[w]]
        /\ UNCHANGED <<manager, dispatcher, slot, supervisor, cancelRequest,
                       budget>>

-----------------------------------------------------------------------------
(* Stopping, dying and starting Core.                                      *)

\* stop() first sets every cancel event; executors go on until it cancels
\* them.
StopSignal ==
    /\ manager = "up"
    /\ budget.halts > 0
    /\ budget' = [budget EXCEPT !.halts = @ - 1]
    /\ manager' = "stopping"
    /\ cancelEvents' = {[task |-> t, gen |-> activeGeneration[t]] :
                          t \in {u \in Tasks : activeGeneration[u] # 0}}
    /\ UNCHANGED <<row, heap, queuedDispatch, dispatchGeneration,
                   activeGeneration, enqueuing, worker, slot, supervisor,
                   requests, history>>

\* The end of stop(), or of the process at any moment: only the rows remain.
VolatileLost ==
    /\ manager' = "down"
    /\ heap' = {}
    /\ queuedDispatch' = [t \in Tasks |-> 0]
    /\ dispatchGeneration' = [t \in Tasks |-> 0]
    /\ activeGeneration' = [t \in Tasks |-> 0]
    /\ cancelEvents' = {}
    /\ enqueuing' = NoTask
    /\ worker' = [w \in Workers |-> Idle]
    /\ slot' = [w \in Workers |-> NoSlot]
    /\ supervisor' = NoHandler
    /\ cancelRequest' = [t \in Tasks |-> NoCancel]
    /\ retryRequest' = [t \in Tasks |-> [k \in Taps |-> NoRetry]]

StopEnd ==
    /\ manager = "stopping"
    /\ VolatileLost
    /\ UNCHANGED <<row, budget, history>>

Kill ==
    /\ manager = "up"
    /\ budget.halts > 0
    /\ budget' = [budget EXCEPT !.halts = @ - 1]
    /\ VolatileLost
    /\ UNCHANGED <<row, history>>

\* recover_incomplete_tasks, row by row.
RestartedRow(r) ==
    IF r.status \notin Active \cup {"queued"} THEN r
    ELSE IF r.cancel THEN [r EXCEPT !.status = "cancelled"]
    ELSE IF SafeRecovery /\ (r.evidence \/ r.quarantined)
         THEN [r EXCEPT !.status = "failed", !.quarantined = TRUE]
    ELSE [r EXCEPT !.status = "queued"]

StartManager ==
    /\ manager = "down"
    /\ manager' = "up"
    /\ row' = [t \in Tasks |-> RestartedRow(row[t])]
    /\ UNCHANGED <<dispatcher, worker, slot, supervisor, requests, budget,
                   history>>

-----------------------------------------------------------------------------

Run(w) == \/ Prologue(w) \/ Start(w) \/ Think(w) \/ YieldToForeground(w)
          \/ SeekEvidence(w) \/ EndBatch(w)
          \/ CallTool(w) \/ RecordIntent(w) \/ DecidePermission(w)
          \/ ApprovalAnswered(w) \/ RunTool(w) \/ Review(w)
          \/ Complete(w) \/ Handoff(w)

\* The steps a scheduled coroutine takes without waiting for a model, a tool
\* or the user.
Drive(w) == \/ Take(w) \/ Claim(w) \/ CheckRow(w) \/ ReadBeforeEnd(w)
            \/ CommitEnd(w) \/ Release(w)

Cancel(t) == CancelRead(t) \/ CancelCommit(t) \/ CancelSignal(t)

Retry(t, k) == RetryRead(t, k) \/ RetryCommit(t, k)

Next ==
    \/ \E t \in Tasks : CreateTask(t) \/ EnqueueRead(t) \/ Cancel(t)
    \/ \E t \in Tasks, k \in Taps : Retry(t, k)
    \/ EnqueuePut
    \/ \E w \in Workers : \/ Drive(w) \/ Run(w) \/ Abort(w)
                          \/ ApprovalCancelled(w) \/ Fail(w)
                          \/ WorkerCrash(w) \/ SuperviseExit(w)
    \/ RecoverTask \/ RecoverTaskFails
    \/ StopSignal \/ StopEnd \/ Kill \/ StartManager

Spec == Init /\ [][Next]_vars

\* Coroutines that are ready run; a started execution ends at the latest with
\* its timeout (Fail); the supervisor reconciles queued rows every few seconds
\* and looks at every dead executor; a stopped Core is started again.  Nobody
\* has to create, cancel or retry.
Fairness ==
    /\ \A t \in Tasks : /\ SF_vars(EnqueueRead(t))
                        /\ WF_vars(CancelCommit(t)) /\ SF_vars(CancelSignal(t))
    /\ \A t \in Tasks, k \in Taps : WF_vars(RetryCommit(t, k))
    /\ WF_vars(EnqueuePut)
    /\ \A w \in Workers : /\ SF_vars(Drive(w)) /\ WF_vars(Fail(w))
                          /\ SF_vars(SuperviseExit(w))
    /\ WF_vars(RecoverTask \/ RecoverTaskFails)
    /\ WF_vars(StopEnd) /\ WF_vars(StartManager)

FairSpec == Spec /\ Fairness

-----------------------------------------------------------------------------
(* What the dispatcher promises.                                           *)

Dispatch == [task : Tasks, gen : Nat]
Coroutine == [pc : Points, task : Tasks \cup {NoTask}, gen : Nat,
              counted : BOOLEAN, batch : Batches]
Assignment == [task : Tasks \cup {NoTask}, gen : Nat]
CancelState == [step : {"none", "read", "committed"}, seen : Row]
RetryState == [pending : BOOLEAN, seen : Row]
Budget == [cancels : Nat, retries : Nat, crashes : Nat,
           recoveryFaults : Nat, halts : Nat]

\* Every variable has the shape the code gives it.
TypeOK ==
    /\ row \in [Tasks -> Row]
    /\ manager \in {"up", "stopping", "down"}
    /\ heap \subseteq Dispatch
    /\ queuedDispatch \in [Tasks -> Nat]
    /\ dispatchGeneration \in [Tasks -> Nat]
    /\ activeGeneration \in [Tasks -> Nat]
    /\ cancelEvents \subseteq Dispatch
    /\ enqueuing \in Tasks \cup {NoTask}
    /\ worker \in [Workers -> Coroutine]
    /\ slot \in [Workers -> Assignment]
    /\ supervisor \in [worker : Workers \cup {NoWorker}, seen : Row]
    /\ cancelRequest \in [Tasks -> CancelState]
    /\ retryRequest \in [Tasks -> [Taps -> RetryState]]
    /\ budget \in Budget
    /\ attempts \in [Tasks -> 0..2]
    /\ stopped \in [Tasks -> {"no", "recorded", "signalled"}]

Owns(w) == worker[w].pc \in Owning

\* At most one executor works on a task, whatever is cancelled, retried,
\* re-enqueued or recovered around it.
OneExecutor ==
    \A v, w \in Workers :
        Owns(v) /\ Owns(w) /\ worker[v].task = worker[w].task => v = w

\* Why: an owner holds the active generation of its task, a task is never
\* queued and active at once, and the generation a dead executor left in its
\* slot is never queued or active again, so that the supervisor's late release
\* of it releases nothing.
OwnersAreActive ==
    \A w \in Workers :
        Owns(w) => /\ worker[w].task \in Tasks
                   /\ worker[w].gen # 0
                   /\ activeGeneration[worker[w].task] = worker[w].gen

QueuedXorActive ==
    \A t \in Tasks :
        /\ enqueuing = t => queuedDispatch[t] = 0 /\ activeGeneration[t] = 0
        /\ queuedDispatch[t] # 0 => activeGeneration[t] = 0
        /\ queuedDispatch[t] <= dispatchGeneration[t]
        /\ activeGeneration[t] <= dispatchGeneration[t]

TuplesAreDispatches ==
    /\ \A e \in heap : e.gen # 0
    /\ \A w \in Workers : worker[w].pc = "got" =>
         worker[w].task \in Tasks /\ worker[w].gen # 0

SlotsAreCurrentOrDead ==
    \A w \in Workers : slot[w].task # NoTask =>
        \/ /\ Owns(w)
           /\ worker[w].task = slot[w].task /\ worker[w].gen = slot[w].gen
        \/ /\ worker[w].pc = "dead"
           /\ slot[w].gen # 0
           /\ slot[w].gen <= dispatchGeneration[slot[w].task]
           /\ slot[w].gen # queuedDispatch[slot[w].task]
           /\ slot[w].gen # activeGeneration[slot[w].task]

Ownership == OwnersAreActive /\ QueuedXorActive /\ TuplesAreDispatches
             /\ SlotsAreCurrentOrDead /\ OneExecutor

\* Everything that keeps enqueue() from accepting a task has someone who will
\* clear it: a queued dispatch still has its tuple (in the heap or in the
\* hands of an executor about to claim it), an active generation is owned by
\* an executor that is alive.  A leak here parks the task until Core restarts.
NoLeakedSlot ==
    \A t \in Tasks :
        /\ queuedDispatch[t] # 0 =>
             \/ [task |-> t, gen |-> queuedDispatch[t]] \in heap
             \/ \E w \in Workers : /\ worker[w].pc = "got"
                                   /\ worker[w].task = t
                                   /\ worker[w].gen = queuedDispatch[t]
        /\ activeGeneration[t] # 0 =>
             \E w \in Workers : /\ Owns(w)
                                /\ worker[w].task = t
                                /\ worker[w].gen = activeGeneration[t]

\* The steps that take an execution further.
TakesUpWork(w) ==
    \/ worker[w].pc # worker'[w].pc /\ worker'[w].pc \in {"assigned", "beginning"}
    \/ worker[w].pc = "loop" /\ worker'[w].pc = "turn"
    \/ /\ worker[w].pc \in {"turn", "closing"} /\ worker'[w].pc = "probing"
       /\ worker'[w].batch = "closing"

\* Once a cancellation has been recorded and signalled, and unless the user
\* retries, no executor is given the task, asks the model for another turn,
\* begins a tool call of a turn or a round of the frontier's closure.  All that
\* still runs is a batch of evidence tools that was due: the bootstrap, or the
\* follow-up of the turn that just ended, whose calls follow each other without
\* a look at the event.
CancelStopsWork ==
    [][\A w \in Workers :
         TakesUpWork(w) => stopped[worker'[w].task] # "signalled"]_vars

\* After one authorisation (creation, or the user's retry) at most one attempt
\* ever runs tools: an attempt that may have had a side effect is not replayed
\* by a recovery.
NoAutomaticReplay == SafeRecovery => \A t \in Tasks : attempts[t] <= 1

\* A queued row that nobody cancelled does not stay queued: it is dispatched,
\* even after its volatile queue entry, its executor or Core was lost.
QueuedWorkIsDispatched ==
    \A t \in Tasks :
        (row[t].status = "queued" /\ ~row[t].cancel)
            ~> ~(row[t].status = "queued" /\ ~row[t].cancel)

\* A row never stays active without end: the executor finishes, fails, times
\* out or is recovered.
ActiveWorkEnds ==
    \A t \in Tasks : row[t].status \in Active ~> row[t].status \notin Active
=============================================================================
