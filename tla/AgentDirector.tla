--------------------------- MODULE AgentDirector ---------------------------
(***************************************************************************)
(* One workflow of the Agent Director: a plan of specialist steps, each    *)
(* run as an agent task of its own, a synthesis of what they returned, an  *)
(* optional review, and one handoff message to the conversation.  Core     *)
(* may stop between any two awaits; what is resumed then is what the       *)
(* database shows: the tasks, the checkpoint and the receipt.              *)
(*                                                                         *)
(* The dispatcher that executes the tasks is AgentDispatch; here a task    *)
(* keeps its status, its place in the dispatcher, and whether a tool or an *)
(* approval was ever recorded for it.                                      *)
(***************************************************************************)
EXTENDS Naturals, Sequences

CONSTANT
    Deployments  \* settings, a route, and what may happen around the workflow

Flags == [handoffs : BOOLEAN,     \* director_durable_handoffs_enabled
          checkpoints : BOOLEAN,  \* director_workflow_checkpoints_enabled
          safe : BOOLEAN]         \* agent_safe_recovery_enabled

\* The specialists _normalise_route_agents chooses from.
Steps == {"research", "code", "files", "analyst", "general"}

\* How often what may happen.
Bounds == [crashes : Nat,   \* stops of Core, ...
           cancels : Nat,   \* ... tasks the user cancels, ...
           retries : Nat,   \* ... tasks the user retries, ...
           faults : Nat]    \* ... errors of a step or of the Director itself

ASSUME ConstantsAssumption ==
    /\ Deployments \subseteq [flags : Flags, selected : SUBSET Steps,
                              bounds : Bounds]
    /\ \A d \in Deployments : d.flags.checkpoints => d.flags.handoffs

\* _plan_from_agents: the analyst follows every specialist that gathers
\* evidence; a plan is never empty.
PlanOf(selected) ==
    LET evidence == selected \cap {"research", "code", "files"}
        review   == evidence \cup (selected \cap {"analyst"})
        steps    == IF review # {} THEN review
                    ELSE IF "general" \in selected THEN {"general"}
                    ELSE {"analyst"}
    IN  [s \in steps |-> IF s = "analyst" THEN evidence ELSE {}]

\* _plan_valid: every dependency is a step, and the steps can be put in an
\* order in which each one follows its dependencies.
PlanValid(deps) ==
    /\ DOMAIN deps # {}
    /\ \A s \in DOMAIN deps : deps[s] \subseteq DOMAIN deps
    /\ \A S \in SUBSET DOMAIN deps :
        S # {} => \E s \in S : deps[s] \cap S = {}

VARIABLES
    flags,        \* the settings, the same after a restart
    plan,         \* what each step depends on
    task,         \* AgentTask, the task of each step
    created,      \* history: how many tasks were created for a step
    checkpoint,   \* DirectorWorkflowCheckpoint
    receipt,      \* DirectorHandoffReceipt is there
    messages,     \* history: the handoffs ever written
    conversation, \* the conversation exists
    slot,         \* where the dispatcher has a task
    workflow,     \* _run_workflow
    step,         \* _run_step of each step
    marker,       \* _mark_workflow_recovered
    core,         \* Core runs, is down, or is starting
    budget        \* what the environment may still do

records  == <<checkpoint, receipt, messages, conversation>>
rows     == <<task, created>>
memory   == <<workflow, step, marker>>
setting  == <<flags, plan>>
vars     == <<setting, rows, records, slot, memory, core, budget>>

Terminal == {"completed", "failed", "cancelled"}
Stages   == <<"none", "planned", "synthesized", "reviewed", "completed">>
Rank(stage) == CHOOSE i \in 1..Len(Stages) : Stages[i] = stage

NoTask == [status |-> "none", tools |-> FALSE, cancel |-> FALSE,
           held |-> FALSE, final |-> FALSE, recovered |-> FALSE,
           byUser |-> FALSE]
NoText == [seen |-> [s \in Steps |-> "none"], turn |-> 0, reviewed |-> 0]
NoCheckpoint == [stage |-> "none", synthesis |-> NoText, result |-> NoText]
NoStep == [pc |-> "off", known |-> "none", outcome |-> "none"]
NoWorkflow == [pc |-> "off", outcome |-> [s \in Steps |-> "none"],
               loaded |-> "none", text |-> NoText,
               snapshot |-> {}]
NoMarker == [pc |-> "off", targets |-> {}, final |-> {}]

\* launch_director_workflow has just accepted the workflow, in memory only.
Launched == [NoWorkflow EXCEPT !.pc = "receipt"]

Init ==
    /\ \E d \in Deployments :
        /\ flags = d.flags
        /\ plan = PlanOf(d.selected)
        /\ budget = d.bounds
    /\ task = [s \in Steps |-> NoTask]
    /\ created = [s \in Steps |-> 0]
    /\ checkpoint = NoCheckpoint /\ receipt = FALSE
    /\ messages = <<>> /\ conversation = TRUE
    /\ slot = [s \in Steps |-> "none"]
    /\ workflow = Launched
    /\ step = [s \in Steps |-> NoStep]
    /\ marker = NoMarker
    /\ core = "up"

Goto(pc) == workflow' = [workflow EXCEPT !.pc = pc]
Spend(what) ==
    /\ budget[what] > 0
    /\ budget' = [budget EXCEPT ![what] = @ - 1]

-----------------------------------------------------------------------------
(* _run_workflow                                                           *)

\* Mutant of CheckReceipt: the receipt of an earlier run is not looked for.
CheckNoReceipt ==
    /\ workflow.pc = "receipt"
    /\ Goto("plan")
    /\ UNCHANGED <<setting, rows, records, slot, step, marker, core, budget>>

\* A committed receipt ends the workflow: only the bookkeeping is made up for.
CheckReceipt ==
    /\ workflow.pc = "receipt"
    /\ IF flags.handoffs /\ receipt
       THEN /\ checkpoint' = IF flags.checkpoints
                                /\ checkpoint.stage = "reviewed"
                             THEN [checkpoint EXCEPT !.stage = "completed"]
                             ELSE checkpoint
            /\ Goto("finalise")
       ELSE Goto("plan") /\ UNCHANGED checkpoint
    /\ UNCHANGED <<setting, rows, receipt, messages, conversation, slot, step,
                   marker, core, budget>>

\* The stored plan, or a new one; save_plan.
SavePlan ==
    /\ workflow.pc = "plan"
    /\ checkpoint' = IF flags.checkpoints /\ checkpoint.stage = "none"
                     THEN [checkpoint EXCEPT !.stage = "planned"]
                     ELSE checkpoint
    /\ Goto("tasks")
    /\ UNCHANGED <<setting, rows, receipt, messages, conversation, slot, step,
                   marker, core, budget>>

\* Mutant of LoadTasks: tasks that failed count as not created.
LoadTasksForgetting ==
    /\ workflow.pc = "tasks"
    /\ step' = [s \in Steps |-> [NoStep EXCEPT
                    !.known = IF task[s].status \in {"failed", "cancelled"}
                              THEN "none" ELSE task[s].status]]
    /\ Goto("loop")
    /\ UNCHANGED <<setting, rows, records, slot, marker, core, budget>>

\* _existing_workflow_tasks, read once before the loop.
LoadTasks ==
    /\ workflow.pc = "tasks"
    /\ step' = [s \in Steps |-> [NoStep EXCEPT !.known = task[s].status]]
    /\ Goto("loop")
    /\ UNCHANGED <<setting, rows, records, slot, marker, core, budget>>

Pending(outcome) == {s \in DOMAIN plan : outcome[s] = "none"}

\* The steps that follow, at any distance, a step that did not complete.
Skipped(outcome) ==
    LET Follows(S) == {s \in Pending(outcome) : \E d \in plan[s] :
                          d \in S \/ outcome[d] \notin {"none", "completed"}}
    IN  {s \in Pending(outcome) :
            \A S \in SUBSET Pending(outcome) : Follows(S) \subseteq S => s \in S}

Ready(outcome) ==
    {s \in Pending(outcome) : \A d \in plan[s] : outcome[d] = "completed"}

\* One turn of the loop, up to the gather of the steps that are ready.  The
\* two queries of _mark_workflow_recovered are over by then.
SelectSteps ==
    /\ workflow.pc = "loop" /\ marker.pc = "off"
    /\ LET outcome == [s \in Steps |-> IF s \in Skipped(workflow.outcome)
                                       THEN "skipped"
                                       ELSE workflow.outcome[s]]
       IN  /\ workflow' = [workflow EXCEPT
                !.outcome = outcome,
                !.pc = IF Pending(outcome) = {} THEN "synthesis"
                       ELSE IF Ready(outcome) = {} THEN "stalled"
                       ELSE "gather"]
           /\ step' = [s \in Steps |-> IF s \in Ready(outcome)
                                       THEN [step[s] EXCEPT !.pc = "begin"]
                                       ELSE step[s]]
    /\ UNCHANGED <<setting, rows, records, slot, marker, core, budget>>

\* gather() returns when the last step of the batch has.
Gathered ==
    /\ workflow.pc = "gather"
    /\ \A s \in Steps : step[s].pc \in {"off", "returned"}
    /\ workflow' = [workflow EXCEPT
            !.pc = "loop",
            !.outcome = [s \in Steps |-> IF step[s].pc = "returned"
                                         THEN step[s].outcome
                                         ELSE workflow.outcome[s]]]
    /\ step' = [s \in Steps |-> IF step[s].pc = "returned" THEN NoStep
                                ELSE step[s]]
    /\ UNCHANGED <<setting, rows, records, slot, marker, core, budget>>

Stored(stages) == flags.checkpoints /\ checkpoint.stage \in stages
Run == budget.crashes + 1   \* tells the texts of different runs apart

\* The stored synthesis, or a model turn and save_stage("synthesized").
Synthesise ==
    /\ workflow.pc = "synthesis"
    /\ LET stored == Stored({"synthesized", "reviewed", "completed"})
           text   == IF stored THEN checkpoint.synthesis
                     ELSE [seen |-> workflow.outcome, turn |-> Run,
                           reviewed |-> 0]
       IN  /\ workflow' = [workflow EXCEPT !.pc = "review", !.text = text,
                                           !.loaded = checkpoint.stage]
           /\ checkpoint' = IF flags.checkpoints /\ ~stored
                            THEN [checkpoint EXCEPT !.stage = "synthesized",
                                                    !.synthesis = text]
                            ELSE checkpoint
    /\ UNCHANGED <<setting, rows, receipt, messages, conversation, slot, step,
                   marker, core, budget>>

\* Mutant of Review: a stored review is repeated instead of reused.
ReviewAgain ==
    /\ workflow.pc = "review"
    /\ \E reviewed \in {0, Run} :
        LET text == [workflow.text EXCEPT !.reviewed = reviewed]
        IN  /\ workflow' = [workflow EXCEPT !.pc = "handoff", !.text = text]
            /\ checkpoint' = IF Stored({"synthesized"})
                             THEN [checkpoint EXCEPT !.stage = "reviewed",
                                                     !.result = text]
                             ELSE checkpoint
    /\ UNCHANGED <<setting, rows, receipt, messages, conversation, slot, step,
                   marker, core, budget>>

\* The stored final text, or a review of the synthesis when one is enabled,
\* and save_stage("reviewed").
Review ==
    /\ workflow.pc = "review"
    /\ LET stored == flags.checkpoints
                     /\ workflow.loaded \in {"reviewed", "completed"}
       IN  \E reviewed \in {0, Run} :
            LET text == IF stored THEN checkpoint.result
                        ELSE [workflow.text EXCEPT !.reviewed = reviewed]
            IN  /\ workflow' = [workflow EXCEPT !.pc = "handoff",
                                                !.text = text]
                /\ checkpoint' = IF Stored({"synthesized"})
                                 THEN [checkpoint EXCEPT !.stage = "reviewed",
                                                         !.result = text]
                                 ELSE checkpoint
    /\ UNCHANGED <<setting, rows, receipt, messages, conversation, slot, step,
                   marker, core, budget>>

\* Mutants of SaveHandoff: the receipt is left out where there is no
\* conversation, and everywhere.
SaveHandoffToConversation ==
    /\ workflow.pc = "handoff"
    /\ messages' = IF conversation /\ ~(flags.handoffs /\ receipt)
                   THEN Append(messages, workflow.text) ELSE messages
    /\ receipt' = (flags.handoffs /\ conversation)
    /\ workflow' = [NoWorkflow EXCEPT !.pc = "complete"]
    /\ UNCHANGED <<setting, rows, checkpoint, conversation, slot, step, marker,
                   core, budget>>

SaveHandoffWithoutReceipt ==
    /\ workflow.pc = "handoff"
    /\ messages' = IF conversation /\ ~(flags.handoffs /\ receipt)
                   THEN Append(messages, workflow.text) ELSE messages
    /\ workflow' = [NoWorkflow EXCEPT !.pc = "complete"]
    /\ UNCHANGED <<setting, rows, checkpoint, receipt, conversation, slot,
                   step, marker, core, budget>>

\* save_handoff_once: the receipt and the message in one transaction.
\* _persist_director_handoff: a message, whatever was written before.
SaveHandoff ==
    /\ workflow.pc = "handoff"
    /\ messages' = IF conversation /\ ~(flags.handoffs /\ receipt)
                   THEN Append(messages, workflow.text) ELSE messages
    /\ receipt' = flags.handoffs
    /\ workflow' = [NoWorkflow EXCEPT !.pc = "complete"]
    /\ UNCHANGED <<setting, rows, checkpoint, conversation, slot, step, marker,
                   core, budget>>

Complete ==
    /\ workflow.pc = "complete"
    /\ checkpoint' = IF Stored({"reviewed"})
                     THEN [checkpoint EXCEPT !.stage = "completed"]
                     ELSE checkpoint
    /\ Goto("finalise")
    /\ UNCHANGED <<setting, rows, receipt, messages, conversation, slot, step,
                   marker, core, budget>>

Exists(s) == task[s].status # "none"

\* _mark_finalized writes the metadata it has read.
LoadFinal ==
    /\ workflow.pc = "finalise"
    /\ workflow' = [workflow EXCEPT !.pc = "mark",
            !.snapshot = {s \in Steps : task[s].recovered}]
    /\ UNCHANGED <<setting, rows, records, slot, step, marker, core, budget>>

MarkFinal ==
    /\ workflow.pc = "mark"
    /\ task' = [s \in Steps |->
            IF Exists(s) THEN [task[s] EXCEPT !.final = TRUE,
                                  !.recovered = s \in workflow.snapshot]
            ELSE task[s]]
    /\ workflow' = [NoWorkflow EXCEPT !.pc = "done"]
    /\ UNCHANGED <<setting, created, records, slot, step, marker, core, budget>>

\* A query, a model turn, or a check of the stored plan or text fails.
\* _track_workflow logs the error and forgets the workflow; what was stored
\* stays, and only the next start of Core takes it up again.
WorkflowFails ==
    /\ core # "down"
    /\ workflow.pc \in {"receipt", "plan", "tasks", "synthesis", "review",
                        "handoff", "complete", "finalise", "mark"}
    /\ Spend("faults")
    /\ workflow' = [NoWorkflow EXCEPT !.pc = "raised"]
    /\ UNCHANGED <<setting, rows, records, slot, step, marker, core>>

-----------------------------------------------------------------------------
(* _run_step                                                               *)

At(s, pc) == core # "down" /\ step[s].pc = pc
StepGoto(s, pc) == step' = [step EXCEPT ![s] = [NoStep EXCEPT !.pc = pc]]
Return(s, outcome) ==
    step' = [step EXCEPT ![s] = [NoStep EXCEPT !.pc = "returned",
                                               !.outcome = outcome]]

Unfinished(status) == status \notin Terminal \cup {"none"}

\* existing_task_requires_manual_review
NeedsReview(s) ==
    /\ flags.checkpoints
    /\ Unfinished(step[s].known)
    /\ Unfinished(task[s].status) /\ task[s].tools

\* A task of an earlier run: only waited for, unless it may have had effects.
Resume(s) ==
    /\ At(s, "begin") /\ step[s].known # "none"
    /\ IF NeedsReview(s) THEN Return(s, "failed") ELSE StepGoto(s, "wait")
    /\ UNCHANGED <<setting, rows, records, slot, workflow, marker, core, budget>>

SpecialistUnavailable(s) ==
    /\ At(s, "begin") /\ step[s].known = "none"
    /\ Return(s, "failed")
    /\ UNCHANGED <<setting, rows, records, slot, workflow, marker, core, budget>>

CreateTask(s) ==
    /\ At(s, "begin") /\ step[s].known = "none"
    /\ task' = [task EXCEPT ![s] = [NoTask EXCEPT !.status = "queued"]]
    /\ created' = [created EXCEPT ![s] = @ + 1]
    /\ StepGoto(s, "enqueue")
    /\ UNCHANGED <<setting, records, slot, workflow, marker, core, budget>>

\* AgentManager.enqueue accepts a queued task it does not hold already.
Acceptable(s) == task[s].status = "queued" /\ slot[s] = "none"

\* _enqueue_task: until the task is accepted, or is no longer queued, or
\* fifteen attempts have been refused.
Enqueue(s) ==
    /\ \E again \in BOOLEAN :
        /\ At(s, IF again THEN "enqueueAgain" ELSE "enqueue")
        /\ \/ /\ Acceptable(s)
              /\ slot' = [slot EXCEPT ![s] = "queued"]
              /\ StepGoto(s, IF again THEN "waitAgain" ELSE "wait")
           \/ /\ task[s].status \notin {"queued", "failed", "cancelled"}
              /\ StepGoto(s, IF again THEN "waitAgain" ELSE "wait")
              /\ UNCHANGED slot
           \/ /\ ~Acceptable(s)
              /\ task[s].status \in {"queued", "failed", "cancelled"}
              /\ Return(s, IF again THEN "queued" ELSE "failed")
              /\ UNCHANGED slot
    /\ UNCHANGED <<setting, rows, records, workflow, marker, core, budget>>

\* Mutant of SeeEnd: every failure is retried.
SeeEndRetrying(s) ==
    /\ At(s, "wait") /\ task[s].status \in Terminal
    /\ IF task[s].status = "failed" THEN StepGoto(s, "retry")
       ELSE Return(s, task[s].status)
    /\ UNCHANGED <<setting, rows, records, slot, workflow, marker, core, budget>>

\* _wait_for_terminal; failed_task_is_retry_safe
SeeEnd(s) ==
    /\ At(s, "wait") /\ task[s].status \in Terminal
    /\ IF task[s].status = "failed" /\ (flags.handoffs => ~task[s].tools)
       THEN StepGoto(s, "retry")
       ELSE Return(s, task[s].status)
    /\ UNCHANGED <<setting, rows, records, slot, workflow, marker, core, budget>>

\* Mutant of SeeSecondEnd: a step that ended after its retry has succeeded.
SeeSecondEndAsSuccess(s) ==
    /\ At(s, "waitAgain") /\ task[s].status \in Terminal
    /\ Return(s, "completed")
    /\ UNCHANGED <<setting, rows, records, slot, workflow, marker, core, budget>>

SeeSecondEnd(s) ==
    /\ At(s, "waitAgain") /\ task[s].status \in Terminal
    /\ Return(s, task[s].status)
    /\ UNCHANGED <<setting, rows, records, slot, workflow, marker, core, budget>>

\* Mutant of Requeued: the status is lost on the way.
RequeuedAsRetried(t) == [t EXCEPT !.status = "retried", !.cancel = FALSE]

\* prepare_retry; the events of the first attempt stay.
Requeued(t) == [t EXCEPT !.status = "queued", !.cancel = FALSE]

RetryTask(s) ==
    /\ At(s, "retry") /\ task[s].status = "failed" /\ ~task[s].held
    /\ task' = [task EXCEPT ![s] = Requeued(@)]
    /\ StepGoto(s, "enqueueAgain")
    /\ UNCHANGED <<setting, created, records, slot, workflow, marker, core,
                   budget>>

\* The user has retried the task meanwhile: the failure stands.
RetryMoot(s) ==
    /\ At(s, "retry") /\ task[s].status # "failed"
    /\ Return(s, "failed")
    /\ UNCHANGED <<setting, rows, records, slot, workflow, marker, core, budget>>

\* An exception of one step is gather()'s: the workflow ends, and the other
\* steps of the batch go on without it.
Raise(s) ==
    /\ step' = [step EXCEPT ![s] = NoStep]
    /\ workflow' = [NoWorkflow EXCEPT !.pc = "raised"]
    /\ UNCHANGED <<setting, rows, records, slot, marker, core>>

\* prepare_retry refuses a quarantined task with a ValueError.
RetryRefused(s) ==
    /\ At(s, "retry") /\ task[s].status = "failed" /\ task[s].held
    /\ Raise(s)
    /\ UNCHANGED budget

StepFails(s) ==
    /\ core # "down" /\ step[s].pc \notin {"off", "returned"}
    /\ Spend("faults")
    /\ Raise(s)

-----------------------------------------------------------------------------
(* The tasks in the dispatcher, and the user.                              *)

\* A queued task gets an executor.
Dispatch(s) ==
    /\ core # "down" /\ slot[s] = "queued"
    /\ IF task[s].status = "queued"
       THEN /\ task' = [task EXCEPT ![s].status = "running"]
            /\ slot' = [slot EXCEPT ![s] = "running"]
       ELSE slot' = [slot EXCEPT ![s] = "none"] /\ UNCHANGED task
    /\ UNCHANGED <<setting, created, records, memory, core, budget>>

UseTool(s) ==
    /\ core # "down" /\ slot[s] = "running" /\ task[s].status = "running"
    /\ ~task[s].tools /\ ~task[s].cancel
    /\ task' = [task EXCEPT ![s].tools = TRUE]
    /\ UNCHANGED <<setting, created, records, slot, memory, core, budget>>

Finish(s) ==
    /\ core # "down" /\ slot[s] = "running" /\ task[s].status = "running"
    /\ \E status \in Terminal :
        /\ status = "cancelled" <=> task[s].cancel
        /\ task' = [task EXCEPT ![s].status = status]
    /\ UNCHANGED <<setting, created, records, slot, memory, core, budget>>

\* The executor lets go of the task after its last write.
Release(s) ==
    /\ core # "down" /\ slot[s] = "running" /\ task[s].status # "running"
    /\ slot' = [slot EXCEPT ![s] = "none"]
    /\ UNCHANGED <<setting, rows, records, memory, core, budget>>

\* _reconcile_orphaned_queued_tasks
Reconcile(s) ==
    /\ core # "down" /\ Acceptable(s)
    /\ slot' = [slot EXCEPT ![s] = "queued"]
    /\ UNCHANGED <<setting, rows, records, memory, core, budget>>

\* request_cancel
Cancel(s) ==
    /\ core # "down" /\ task[s].status \in {"queued", "running"}
    /\ ~task[s].cancel
    /\ Spend("cancels")
    /\ task' = [task EXCEPT ![s].cancel = TRUE,
                            ![s].status = IF @ = "queued" THEN "cancelled"
                                          ELSE @]
    /\ UNCHANGED <<setting, created, records, slot, memory, core>>

\* retry_agent_task
UserRetry(s) ==
    /\ core # "down" /\ task[s].status \in {"failed", "cancelled"}
    /\ ~task[s].held
    /\ Spend("retries")
    /\ task' = [task EXCEPT ![s] = [Requeued(@) EXCEPT !.byUser = TRUE]]
    /\ UNCHANGED <<setting, created, records, slot, memory, core>>

\* Only SaveHandoff reads the conversation: when it went before that does not
\* matter.
DeleteConversation ==
    /\ workflow.pc = "handoff" /\ conversation
    /\ conversation' = FALSE
    /\ UNCHANGED <<setting, rows, checkpoint, receipt, messages, slot, memory,
                   core, budget>>

-----------------------------------------------------------------------------
(* Core stops and starts again.                                            *)

\* A crash, or stop_director_workflows: what was in memory is gone.
Stop ==
    /\ core # "down"
    /\ Spend("crashes")
    /\ core' = "down"
    /\ workflow' = NoWorkflow /\ marker' = NoMarker
    /\ step' = [s \in Steps |-> NoStep]
    /\ slot' = [s \in Steps |-> "none"]
    /\ UNCHANGED <<setting, rows, records>>

\* recover_incomplete_tasks
Recovered(t) ==
    IF t.status \notin {"queued", "running"} THEN t
    ELSE IF t.cancel THEN [t EXCEPT !.status = "cancelled"]
    ELSE IF flags.safe /\ t.tools THEN [t EXCEPT !.status = "failed",
                                                 !.held = TRUE]
    ELSE [t EXCEPT !.status = "queued"]

Start ==
    /\ core = "down"
    /\ core' = "starting"
    /\ task' = [s \in Steps |-> Recovered(task[s])]
    /\ slot' = [s \in Steps |-> IF task'[s].status = "queued" THEN "queued"
                                ELSE "none"]
    /\ UNCHANGED <<setting, created, records, memory, budget>>

\* Mutant of Resumable: checkpoints without a task are not looked for.
ResumableFromTasks ==
    /\ \A s \in Steps : ~task[s].final
    /\ \E s \in Steps : Exists(s)

\* A workflow that left a trace and is not marked as finalised.
Resumable ==
    /\ \A s \in Steps : ~task[s].final
    /\ \/ \E s \in Steps : Exists(s)
       \/ flags.checkpoints
          /\ checkpoint.stage \in {"planned", "synthesized", "reviewed"}

\* resume_director_workflows: the workflow is a coroutine of its own before
\* its tasks are marked as recovered.
ResumeWorkflow ==
    /\ core = "starting"
    /\ core' = "up"
    /\ IF Resumable
       THEN /\ workflow' = Launched
            /\ marker' = [marker EXCEPT !.pc = "load"]
       ELSE UNCHANGED <<workflow, marker>>
    /\ UNCHANGED <<setting, rows, records, slot, step, budget>>

\* _mark_workflow_recovered writes the metadata it has read.
LoadRecovered ==
    /\ marker.pc = "load"
    /\ marker' = [pc |-> "commit",
                  targets |-> {s \in Steps : Exists(s) /\ ~task[s].recovered},
                  final |-> {s \in Steps : task[s].final}]
    /\ UNCHANGED <<setting, rows, records, slot, workflow, step, core, budget>>

MarkRecovered ==
    /\ marker.pc = "commit"
    /\ task' = [s \in Steps |->
            IF s \in marker.targets
            THEN [task[s] EXCEPT !.recovered = TRUE,
                                 !.final = s \in marker.final]
            ELSE task[s]]
    /\ marker' = NoMarker
    /\ UNCHANGED <<setting, created, records, slot, workflow, step, core,
                   budget>>

-----------------------------------------------------------------------------
Director ==
    \/ CheckReceipt \/ SavePlan \/ LoadTasks \/ SelectSteps \/ Gathered
    \/ Synthesise \/ Review \/ SaveHandoff \/ Complete \/ LoadFinal \/ MarkFinal

Specialist(s) ==
    \/ Resume(s) \/ SpecialistUnavailable(s) \/ CreateTask(s) \/ Enqueue(s)
    \/ SeeEnd(s) \/ SeeSecondEnd(s) \/ RetryTask(s) \/ RetryMoot(s)
    \/ RetryRefused(s)

Dispatcher(s) == Dispatch(s) \/ Finish(s) \/ Release(s) \/ Reconcile(s)

Startup == Start \/ ResumeWorkflow \/ LoadRecovered \/ MarkRecovered

User(s) == Cancel(s) \/ UserRetry(s)

Next ==
    \/ Director \/ WorkflowFails \/ Startup \/ Stop \/ DeleteConversation
    \/ \E s \in Steps :
        \/ Specialist(s) \/ StepFails(s) \/ Dispatcher(s) \/ UseTool(s)
        \/ User(s)

Spec == Init /\ [][Next]_vars

\* The event loop runs every coroutine that can go on, executors finish what
\* they execute, and Core is started again.
FairSpec ==
    /\ Spec
    /\ WF_vars(Director) /\ WF_vars(Startup)
    /\ \A s \in Steps : WF_vars(Specialist(s)) /\ WF_vars(Dispatcher(s))

-----------------------------------------------------------------------------
Texts == [seen : [Steps -> Terminal \cup {"none", "skipped", "queued"}],
          turn : Nat, reviewed : Nat]
Statuses == {"none", "queued", "running"} \cup Terminal

TypeOK ==
    /\ flags \in Flags
    /\ task \in [Steps -> [status : Statuses, tools : BOOLEAN,
                           cancel : BOOLEAN, held : BOOLEAN, final : BOOLEAN,
                           recovered : BOOLEAN, byUser : BOOLEAN]]
    /\ created \in [Steps -> Nat]
    /\ checkpoint.stage \in {Stages[i] : i \in 1..Len(Stages)}
    /\ checkpoint.synthesis \in Texts /\ checkpoint.result \in Texts
    /\ receipt \in BOOLEAN /\ conversation \in BOOLEAN
    /\ messages \in Seq(Texts)
    /\ slot \in [Steps -> {"none", "queued", "running"}]
    /\ workflow.text \in Texts
    /\ core \in {"up", "down", "starting"}

\* A step has at most one task, however often the workflow is resumed: what
\* an interrupted run created is found again by the next one.
\* (_existing_workflow_tasks, _run_step)
OneTaskPerStep == \A s \in Steps : created[s] <= 1

\* What the conversation is told is the text that was stored as reviewed:
\* no stop of Core between the review and the handoff makes another one.
\* (save_stage, save_handoff_once)
HandoffAsReviewed ==
    \A i \in 1..Len(messages) : flags.checkpoints =>
        /\ Stored({"reviewed", "completed"})
        /\ messages[i] = checkpoint.result

\* A workflow is only ever marked as over when its handoff is in the
\* database: nothing would resume it to deliver one later. (_mark_finalized)
OverIsAnswered ==
    \/ \E s \in Steps : task[s].final
    \/ checkpoint.stage = "completed"
    => \/ receipt
       \/ ~flags.handoffs /\ (messages # <<>> \/ ~conversation)

\* No handoff claims the completion of a step whose task did not complete.
\* (_run_step, _run_workflow, save_stage)
ClaimsAreTrue ==
    \A i \in 1..Len(messages) : \A s \in Steps :
        messages[i].seen[s] = "completed" => task[s].status = "completed"

\* With durable handoffs the workflow is answered once, and the answer stays:
\* the conversation of AnswerOnce.
Handoff == INSTANCE AnswerOnce WITH
    Requests   <- {"workflow"},
    Answers    <- (SUBSET Seq(Texts)) \ {{}},
    Unanswered <- {},
    answer     <- [w \in {"workflow"} |-> IF flags.handoffs
                                             /\ (receipt \/ messages # <<>>)
                                          THEN {messages} ELSE {}]

AnsweredOnce == Handoff!Spec

\* A committed receipt ends the work of the Director: no task is created or
\* retried by it and no model asked again, whatever is resumed afterwards.
\* (_run_workflow, existing_receipt)
ReceiptEndsWork ==
    [][receipt => /\ created' = created
                  /\ ~\E s \in Steps : RetryTask(s)
                  /\ checkpoint'.synthesis = checkpoint.synthesis
                  /\ messages' = messages]_vars

\* With durable handoffs the Director does not start a failed task again once
\* a tool or an approval was recorded for it, unless the user has taken the
\* task over by retrying it. (failed_task_is_retry_safe)
NoToolReplay ==
    [][\A s \in Steps :
        flags.handoffs /\ RetryTask(s) => ~task[s].tools \/ task[s].byUser]_vars

Accepted == checkpoint.stage # "none" \/ \E s \in Steps : Exists(s)
Answered == receipt \/ messages # <<>> \/ ~conversation

\* A workflow that has left a trace in the database is answered in the end,
\* whatever stops of Core come in between, unless a step or the Director
\* itself raised an error: then it waits for the next start, after which it
\* is answered or raises again. (resume_director_workflows, _track_workflow)
WorkflowIsAnswered == Accepted ~> (Answered \/ workflow.pc = "raised")

=============================================================================
