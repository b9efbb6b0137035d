------------------------ MODULE AgentDirector_proofs ------------------------
(***************************************************************************)
(* Theorems of AgentDirector, for every set of deployments: every route,   *)
(* every admissible setting and every number of stops, cancellations,      *)
(* retries and faults.                                                     *)
(***************************************************************************)
EXTENDS AgentDirector, TLAPS

USE ConstantsAssumption

-----------------------------------------------------------------------------
(* Plans.                                                                  *)

\* Whatever specialists are selected, the plan built from them is one that
\* _plan_valid accepts: it has a step, depends on its own steps only, and can
\* be put in order.
THEOREM PlanFromAgentsValid ==
    ASSUME NEW selected \in SUBSET Steps
    PROVE  PlanValid(PlanOf(selected))
<1> DEFINE evidence == selected \cap {"research", "code", "files"}
           review   == evidence \cup (selected \cap {"analyst"})
           steps    == IF review # {} THEN review
                       ELSE IF "general" \in selected THEN {"general"}
                       ELSE {"analyst"}
           deps     == [s \in steps |-> IF s = "analyst" THEN evidence ELSE {}]
<1>1. PlanOf(selected) = deps
  BY DEF PlanOf
<1>2. DOMAIN deps = steps /\ steps # {} /\ evidence \subseteq steps
  OBVIOUS
<1>3. ASSUME NEW s \in steps PROVE deps[s] \subseteq steps
  BY <1>2
<1>4. ASSUME NEW S \in SUBSET steps, S # {}
      PROVE  \E s \in S : deps[s] \cap S = {}
  <2>1. CASE S = {"analyst"}
    <3>1. deps["analyst"] = evidence /\ "analyst" \notin evidence
      BY <2>1, <1>4
    <3> QED BY <2>1, <3>1
  <2>2. CASE S # {"analyst"}
    <3>1. PICK s \in S : s # "analyst"
      BY <2>2, <1>4
    <3>2. deps[s] = {}
      BY <3>1, <1>4
    <3> QED BY <3>2
  <2> QED BY <2>1, <2>2
<1> HIDE DEF deps, steps
<1> QED
  BY <1>1, <1>2, <1>3, <1>4 DEF PlanValid

-----------------------------------------------------------------------------
(* Types.                                                                  *)

StageNames == {"none", "planned", "synthesized", "reviewed", "completed"}
Outcomes   == {"none", "skipped", "queued"} \cup Terminal

CheckpointType == [stage : StageNames, synthesis : Texts, result : Texts]
WorkflowType == [pc : {"off", "receipt", "plan", "tasks", "loop", "stalled",
                       "gather", "raised", "synthesis", "review", "handoff",
                       "complete", "finalise", "mark", "done"},
                 outcome : [Steps -> Outcomes],
                 loaded : StageNames, text : Texts, snapshot : SUBSET Steps]
StepType == [pc : {"off", "begin", "enqueue", "wait", "retry", "enqueueAgain",
                   "waitAgain", "returned"},
             known : Statuses, outcome : Outcomes]
MarkerType == [pc : {"off", "load", "commit"},
               targets : SUBSET Steps, final : SUBSET Steps]
TaskType == [status : Statuses, tools : BOOLEAN, cancel : BOOLEAN,
             held : BOOLEAN, final : BOOLEAN, recovered : BOOLEAN,
             byUser : BOOLEAN]

\* The shape of every variable; TypeOK shows a part of it.
Shape ==
    /\ flags \in Flags /\ (flags.checkpoints => flags.handoffs)
    /\ DOMAIN plan \subseteq Steps
    /\ task \in [Steps -> TaskType]
    /\ created \in [Steps -> Nat]
    /\ checkpoint \in CheckpointType
    /\ receipt \in BOOLEAN /\ conversation \in BOOLEAN
    /\ messages \in Seq(Texts)
    /\ slot \in [Steps -> {"none", "queued", "running"}]
    /\ workflow \in WorkflowType
    /\ step \in [Steps -> StepType]
    /\ marker \in MarkerType
    /\ core \in {"up", "down", "starting"}
    /\ budget \in Bounds

\* The stages are these five names.
LEMMA StagesAreNames == {Stages[i] : i \in 1..Len(Stages)} = StageNames
<1>1. Stages = <<"none", "planned", "synthesized", "reviewed", "completed">>
  BY DEF Stages
<1>2. Len(Stages) = 5
  BY <1>1
<1>3. 1..Len(Stages) = {1, 2, 3, 4, 5}
  BY <1>2
<1> QED
  BY <1>1, <1>3 DEF StageNames

LEMMA ShapeShown == Shape => TypeOK
  BY StagesAreNames DEF Shape, TypeOK, TaskType, CheckpointType, WorkflowType

\* The constants used as values of the records have the right types.
LEMMA RecordTypes ==
    /\ NoText \in Texts
    /\ NoTask \in TaskType
    /\ NoStep \in StepType
    /\ NoMarker \in MarkerType
    /\ NoCheckpoint \in CheckpointType
    /\ NoWorkflow \in WorkflowType
    /\ Launched \in WorkflowType
<1>1. NoText \in Texts
  BY DEF NoText, Texts
<1>2. NoTask \in TaskType
  BY DEF NoTask, TaskType, Statuses
<1>3. NoStep \in StepType
  BY DEF NoStep, StepType, Statuses, Outcomes
<1>4. NoMarker \in MarkerType
  BY DEF NoMarker, MarkerType
<1>5. NoCheckpoint \in CheckpointType
  BY <1>1 DEF NoCheckpoint, CheckpointType, StageNames
<1>6. NoWorkflow \in WorkflowType
  BY <1>1 DEF NoWorkflow, WorkflowType, StageNames, Outcomes
<1>7. Launched \in WorkflowType
  BY <1>6 DEF Launched, WorkflowType
<1> QED
  BY <1>1, <1>2, <1>3, <1>4, <1>5, <1>6, <1>7

\* Moving a step: only this step changes, to a fresh record.
LEMMA StepMoves ==
    ASSUME step \in [Steps -> StepType], NEW s \in Steps,
           NEW p \in {"enqueue", "wait", "retry", "enqueueAgain", "waitAgain"},
           StepGoto(s, p)
    PROVE  /\ step' \in [Steps -> StepType]
           /\ step'[s] = [NoStep EXCEPT !.pc = p]
           /\ step'[s].pc = p /\ step'[s].outcome = "none"
           /\ \A r \in Steps \ {s} : step'[r] = step[r]
<1>1. [NoStep EXCEPT !.pc = p] \in StepType
  BY RecordTypes DEF StepType
<1>2. [NoStep EXCEPT !.pc = p].pc = p /\ [NoStep EXCEPT !.pc = p].outcome = "none"
  BY DEF NoStep
<1> QED
  BY <1>1, <1>2 DEF StepGoto

LEMMA StepReturns ==
    ASSUME step \in [Steps -> StepType], NEW s \in Steps,
           NEW o \in Outcomes, Return(s, o)
    PROVE  /\ step' \in [Steps -> StepType]
           /\ step'[s].pc = "returned" /\ step'[s].outcome = o
           /\ \A r \in Steps \ {s} : step'[r] = step[r]
<1> DEFINE new == [NoStep EXCEPT !.pc = "returned", !.outcome = o]
<1>1. new \in StepType
  BY RecordTypes DEF StepType
<1>2. new.pc = "returned" /\ new.outcome = o
  BY DEF NoStep
<1> HIDE DEF new
<1>3. step' = [step EXCEPT ![s] = new]
  BY DEF Return, new
<1> QED
  BY <1>1, <1>2, <1>3

LEMMA PlanInSteps ==
    ASSUME NEW selected \in SUBSET Steps
    PROVE  DOMAIN PlanOf(selected) \subseteq Steps
  BY DEF PlanOf, Steps

LEMMA ShapeInit == Init => Shape
<1> SUFFICES ASSUME Init PROVE Shape
  OBVIOUS
<1>1. PICK d \in Deployments : flags = d.flags /\ plan = PlanOf(d.selected)
                               /\ budget = d.bounds
  BY DEF Init
<1>2. flags \in Flags /\ (flags.checkpoints => flags.handoffs)
      /\ budget \in Bounds
  BY <1>1
<1>3. DOMAIN plan \subseteq Steps
  BY <1>1, PlanInSteps
<1>4. messages \in Seq(Texts)
  BY DEF Init
<1>5. /\ task \in [Steps -> TaskType] /\ step \in [Steps -> StepType]
      /\ created \in [Steps -> Nat]
      /\ slot \in [Steps -> {"none", "queued", "running"}]
  BY RecordTypes DEF Init
<1> QED
  BY <1>2, <1>3, <1>4, <1>5, RecordTypes DEF Init, Shape

\* A part of the budget that is spent leaves a budget.
LEMMA SpendType ==
    ASSUME budget \in Bounds,
           NEW what \in {"crashes", "cancels", "retries", "faults"}, Spend(what)
    PROVE  budget' \in Bounds
  BY DEF Spend, Bounds

\* A change of a task's record keeps the table of tasks well typed.
LEMMA TaskWrite ==
    ASSUME task \in [Steps -> TaskType], NEW s \in Steps, NEW t \in TaskType,
           task' = [task EXCEPT ![s] = t]
    PROVE  task' \in [Steps -> TaskType]
  OBVIOUS

\* Requeueing and recovering a task keeps its shape.
LEMMA TaskChanges ==
    ASSUME NEW t \in TaskType
    PROVE  /\ Requeued(t) \in TaskType
           /\ [Requeued(t) EXCEPT !.byUser = TRUE] \in TaskType
           /\ Recovered(t) \in TaskType
           /\ \A x \in Statuses : [t EXCEPT !.status = x] \in TaskType
           /\ [t EXCEPT !.tools = TRUE] \in TaskType
           /\ [t EXCEPT !.cancel = TRUE,
                        !.status = IF @ = "queued" THEN "cancelled" ELSE @]
              \in TaskType
           /\ \A f, r \in BOOLEAN :
                /\ [t EXCEPT !.final = f, !.recovered = r] \in TaskType
                /\ [t EXCEPT !.recovered = r, !.final = f] \in TaskType
<1>1. Requeued(t) \in TaskType
  BY DEF Requeued, TaskType, Statuses
<1>2. [Requeued(t) EXCEPT !.byUser = TRUE] \in TaskType
  BY <1>1 DEF TaskType
<1>3. Recovered(t) \in TaskType
  BY DEF Recovered, TaskType, Statuses, Terminal
<1>4. \A x \in Statuses : [t EXCEPT !.status = x] \in TaskType
  BY DEF TaskType
<1>5. [t EXCEPT !.tools = TRUE] \in TaskType
  BY DEF TaskType
<1>6. [t EXCEPT !.cancel = TRUE,
                !.status = IF @ = "queued" THEN "cancelled" ELSE @] \in TaskType
  <2>1. [t EXCEPT !.cancel = TRUE] \in TaskType
    BY DEF TaskType
  <2> QED BY <2>1 DEF TaskType, Statuses, Terminal
<1>7. \A f, r \in BOOLEAN :
        /\ [t EXCEPT !.final = f, !.recovered = r] \in TaskType
        /\ [t EXCEPT !.recovered = r, !.final = f] \in TaskType
  BY DEF TaskType
<1> QED BY <1>1, <1>2, <1>3, <1>4, <1>5, <1>6, <1>7

\* A review keeps a text a text.
LEMMA TextReviewed ==
    ASSUME NEW t \in Texts, NEW n \in Nat
    PROVE  [t EXCEPT !.reviewed = n] \in Texts
  BY DEF Texts


\* The steps of the director keep the shape.
LEMMA ShapeDirector == Shape /\ Director => Shape'
<1> SUFFICES ASSUME Shape, Director PROVE Shape'
  OBVIOUS
<1> USE DEF Shape, setting, rows, records, Goto
<1>1. CASE CheckReceipt
  BY <1>1, ZenonT(40) DEF CheckReceipt, CheckpointType, WorkflowType, StageNames
<1>2. CASE SavePlan
  <2>1. checkpoint' \in CheckpointType
    BY <1>2 DEF SavePlan, CheckpointType, StageNames
  <2>2. workflow' \in WorkflowType
    BY <1>2 DEF SavePlan, WorkflowType
  <2> QED BY <1>2, <2>1, <2>2 DEF SavePlan
<1>3. CASE LoadTasks
  <2>1. \A s \in Steps : [NoStep EXCEPT !.known = task[s].status] \in StepType
    BY RecordTypes DEF StepType, TaskType
  <2> QED BY <1>3, <2>1 DEF LoadTasks, WorkflowType
<1>4. CASE SelectSteps
  BY <1>4, ZenonT(40) DEF SelectSteps, WorkflowType, StepType, Outcomes
<1>5. CASE Gathered
  <2>1. workflow' \in WorkflowType
    BY <1>5 DEF Gathered, WorkflowType, StepType
  <2>2. step' \in [Steps -> StepType]
    BY <1>5, RecordTypes DEF Gathered
  <2> QED BY <1>5, <2>1, <2>2 DEF Gathered
<1>6. CASE Synthesise
  <2> DEFINE stored == Stored({"synthesized", "reviewed", "completed"})
             text   == IF stored THEN checkpoint.synthesis
                       ELSE [seen |-> workflow.outcome, turn |-> Run,
                             reviewed |-> 0]
  <2>1. Run \in Nat
    BY DEF Run, Bounds
  <2>2. text \in Texts
    <3>1. workflow.outcome \in [Steps -> Terminal \cup {"none", "skipped", "queued"}]
      BY DEF WorkflowType, Outcomes
    <3>2. [seen |-> workflow.outcome, turn |-> Run, reviewed |-> 0] \in Texts
      BY <2>1, <3>1 DEF Texts
    <3> QED BY <3>2 DEF CheckpointType
  <2> HIDE DEF text, stored
  <2>3. /\ workflow' = [workflow EXCEPT !.pc = "review", !.text = text,
                                        !.loaded = checkpoint.stage]
        /\ checkpoint' = IF flags.checkpoints /\ ~stored
                         THEN [checkpoint EXCEPT !.stage = "synthesized",
                                                 !.synthesis = text]
                         ELSE checkpoint
    BY <1>6 DEF Synthesise, text, stored
  <2>4. workflow' \in WorkflowType
    BY <2>2, <2>3 DEF WorkflowType, CheckpointType
  <2>5. checkpoint' \in CheckpointType
    BY <2>2, <2>3 DEF CheckpointType, StageNames
  <2> QED BY <1>6, <2>4, <2>5 DEF Synthesise
<1>7. CASE Review
  <2>1. Run \in Nat
    BY DEF Run, Bounds
  <2>2. PICK text \in Texts :
          /\ workflow' = [workflow EXCEPT !.pc = "handoff", !.text = text]
          /\ checkpoint' = IF Stored({"synthesized"})
                           THEN [checkpoint EXCEPT !.stage = "reviewed",
                                                   !.result = text]
                           ELSE checkpoint
    <3>1. checkpoint.result \in Texts /\ workflow.text \in Texts
      BY DEF CheckpointType, WorkflowType
    <3>2. \A n \in {0, Run} : [workflow.text EXCEPT !.reviewed = n] \in Texts
      BY <2>1, <3>1, TextReviewed
    <3> QED BY <1>7, <3>1, <3>2 DEF Review
  <2>3. workflow' \in WorkflowType
    BY <2>2 DEF WorkflowType
  <2>4. checkpoint' \in CheckpointType
    BY <2>2 DEF CheckpointType, StageNames
  <2> QED BY <1>7, <2>3, <2>4 DEF Review
<1>8. CASE SaveHandoff
  <2>1. workflow.text \in Texts
    BY DEF WorkflowType
  <2>2. messages' \in Seq(Texts)
    BY <1>8, <2>1 DEF SaveHandoff
  <2>3. receipt' \in BOOLEAN
    BY <1>8 DEF SaveHandoff, Flags
  <2>4. workflow' \in WorkflowType
    BY <1>8, RecordTypes DEF SaveHandoff, WorkflowType
  <2> QED BY <1>8, <2>2, <2>3, <2>4 DEF SaveHandoff
<1>9. CASE Complete
  BY <1>9 DEF Complete, CheckpointType, WorkflowType, StageNames
<1>10. CASE LoadFinal
  BY <1>10 DEF LoadFinal, WorkflowType
<1>11. CASE MarkFinal
  <2>1. workflow' \in WorkflowType
    BY <1>11, RecordTypes DEF MarkFinal, WorkflowType
  <2>2. ASSUME NEW s \in Steps
        PROVE  [task[s] EXCEPT !.final = TRUE,
                               !.recovered = s \in workflow.snapshot] \in TaskType
    <3>1. TRUE \in BOOLEAN /\ (s \in workflow.snapshot) \in BOOLEAN
      OBVIOUS
    <3> QED BY <3>1, TaskChanges
  <2>3. task' \in [Steps -> TaskType]
    BY <1>11, <2>2 DEF MarkFinal
  <2> QED BY <1>11, <2>1, <2>3 DEF MarkFinal
<1> QED
  BY <1>1, <1>2, <1>3, <1>4, <1>5, <1>6, <1>7, <1>8, <1>9, <1>10, <1>11
     DEF Director

\* The steps of the specialists keep the shape.
LEMMA ShapeSpecialist ==
    ASSUME Shape, NEW s \in Steps, Specialist(s) \/ StepFails(s)
    PROVE  Shape'
<1> USE DEF Shape, setting, rows, records
<1>1. CASE Resume(s)
  BY <1>1, StepMoves, StepReturns DEF Resume, Outcomes, Terminal
<1>2. CASE SpecialistUnavailable(s)
  BY <1>2, StepReturns DEF SpecialistUnavailable, Outcomes, Terminal
<1>3. CASE CreateTask(s)
  <2>1. [NoTask EXCEPT !.status = "queued"] \in TaskType
    BY RecordTypes DEF TaskType, Statuses
  <2>2. task' \in [Steps -> TaskType]
    BY <1>3, <2>1 DEF CreateTask
  <2>3. created' \in [Steps -> Nat]
    BY <1>3 DEF CreateTask
  <2> QED BY <1>3, <2>2, <2>3, StepMoves DEF CreateTask
<1>4. CASE Enqueue(s)
  <2>1. step' \in [Steps -> StepType]
    BY <1>4, StepMoves, StepReturns DEF Enqueue, Outcomes, Terminal
  <2>2. slot' \in [Steps -> {"none", "queued", "running"}]
    BY <1>4 DEF Enqueue
  <2> QED BY <1>4, <2>1, <2>2 DEF Enqueue
<1>5. CASE SeeEnd(s)
  BY <1>5, StepMoves, StepReturns DEF SeeEnd, Outcomes
<1>6. CASE SeeSecondEnd(s)
  BY <1>6, StepReturns DEF SeeSecondEnd, Outcomes
<1>7. CASE RetryTask(s)
  BY <1>7, StepMoves, TaskChanges, TaskWrite DEF RetryTask
<1>8. CASE RetryMoot(s)
  BY <1>8, StepReturns DEF RetryMoot, Outcomes, Terminal
<1>9. ASSUME Raise(s) PROVE step' \in [Steps -> StepType] /\ workflow' \in WorkflowType
  BY <1>9, RecordTypes DEF Raise, WorkflowType
<1>10. CASE RetryRefused(s)
  BY <1>9, <1>10 DEF RetryRefused, Raise
<1>11. CASE StepFails(s)
  BY <1>9, <1>11, SpendType DEF StepFails, Raise
<1> QED
  BY <1>1, <1>2, <1>3, <1>4, <1>5, <1>6, <1>7, <1>8, <1>10, <1>11
     DEF Specialist

\* The dispatcher, the executors and the user keep the shape.
LEMMA ShapeTasks ==
    ASSUME Shape, NEW s \in Steps, Dispatcher(s) \/ UseTool(s) \/ User(s)
    PROVE  Shape'
<1> USE DEF Shape, setting, rows, records, memory
<1>1. CASE Dispatch(s)
  <2>1. [task[s] EXCEPT !.status = "running"] \in TaskType
    BY TaskChanges DEF Statuses
  <2>2. task' \in [Steps -> TaskType]
    BY <1>1, <2>1 DEF Dispatch
  <2> QED BY <1>1, <2>2 DEF Dispatch
<1>2. CASE Finish(s)
  <2>1. \A x \in Terminal : [task[s] EXCEPT !.status = x] \in TaskType
    BY TaskChanges DEF Statuses
  <2>2. task' \in [Steps -> TaskType]
    BY <1>2, <2>1 DEF Finish
  <2> QED BY <1>2, <2>2 DEF Finish
<1>3. CASE Release(s)
  BY <1>3 DEF Release
<1>4. CASE Reconcile(s)
  BY <1>4 DEF Reconcile
<1>5. CASE UseTool(s)
  <2>1. task' \in [Steps -> TaskType]
    BY <1>5, TaskChanges DEF UseTool
  <2> QED BY <1>5, <2>1 DEF UseTool
<1>6. CASE Cancel(s)
  <2>1. [task[s] EXCEPT !.cancel = TRUE,
                        !.status = IF @ = "queued" THEN "cancelled" ELSE @]
        \in TaskType
    BY TaskChanges
  <2>2. task' \in [Steps -> TaskType]
    BY <1>6, <2>1 DEF Cancel
  <2> QED BY <1>6, <2>2, SpendType DEF Cancel
<1>7. CASE UserRetry(s)
  BY <1>7, TaskChanges, TaskWrite, SpendType DEF UserRetry
<1> QED
  BY <1>1, <1>2, <1>3, <1>4, <1>5, <1>6, <1>7 DEF Dispatcher, User

\* An error of the Director ends the workflow and changes nothing else.
LEMMA FailsFrame ==
    ASSUME Shape, WorkflowFails
    PROVE  /\ workflow' = [NoWorkflow EXCEPT !.pc = "raised"]
           /\ workflow' \in WorkflowType
           /\ workflow'.pc = "raised" /\ workflow'.text = NoText
           /\ \A s \in Steps : workflow'.outcome[s] = "none"
           /\ workflow.pc \notin {"off", "loop", "gather", "raised"}
           /\ core # "down" /\ budget' \in Bounds
           /\ UNCHANGED <<flags, plan, task, created, checkpoint, receipt,
                          messages, conversation, slot, step, marker, core>>
<1>1. workflow' = [NoWorkflow EXCEPT !.pc = "raised"]
  BY DEF WorkflowFails
<1>2. /\ workflow' \in WorkflowType
      /\ workflow'.pc = "raised" /\ workflow'.text = NoText
      /\ \A s \in Steps : workflow'.outcome[s] = "none"
  BY <1>1, RecordTypes DEF WorkflowType, NoWorkflow
<1>3. budget' \in Bounds
  BY SpendType DEF WorkflowFails, Shape
<1> QED
  BY <1>1, <1>2, <1>3 DEF WorkflowFails, setting, rows, records

\* Stopping, starting and failing keep the shape.
LEMMA ShapeRest ==
    ASSUME Shape, \/ Startup \/ Stop \/ DeleteConversation
                  \/ WorkflowFails \/ UNCHANGED vars
    PROVE  Shape'
<1> USE DEF Shape, setting, rows, records, memory
<1>1. CASE Start
  <2>1. task' \in [Steps -> TaskType]
    BY <1>1, TaskChanges DEF Start
  <2> QED BY <1>1, <2>1 DEF Start
<1>2. CASE ResumeWorkflow
  <2>1. /\ workflow' \in {workflow, Launched}
        /\ marker' \in {marker, [marker EXCEPT !.pc = "load"]}
        /\ core' = "up"
        /\ UNCHANGED <<setting, rows, records, slot, step, budget>>
    BY <1>2 DEF ResumeWorkflow
  <2>2. workflow' \in WorkflowType
    BY <2>1, RecordTypes
  <2>3. marker' \in MarkerType
    BY <2>1 DEF MarkerType
  <2> QED BY <2>1, <2>2, <2>3
<1>3. CASE LoadRecovered
  BY <1>3 DEF LoadRecovered, MarkerType
<1>4. CASE MarkRecovered
  <2>1. ASSUME NEW s \in Steps
        PROVE  [task[s] EXCEPT !.recovered = TRUE,
                               !.final = s \in marker.final] \in TaskType
    <3>1. TRUE \in BOOLEAN /\ (s \in marker.final) \in BOOLEAN
      OBVIOUS
    <3> QED BY <3>1, TaskChanges
  <2>2. task' \in [Steps -> TaskType]
    BY <1>4, <2>1 DEF MarkRecovered
  <2> QED BY <1>4, <2>2, RecordTypes DEF MarkRecovered
<1>5. CASE Stop
  BY <1>5, RecordTypes, SpendType DEF Stop
<1>6. CASE DeleteConversation
  BY <1>6 DEF DeleteConversation
<1>7. CASE UNCHANGED vars
  BY <1>7 DEF vars
<1>8. CASE WorkflowFails
  BY <1>8, FailsFrame
<1> QED
  BY <1>1, <1>2, <1>3, <1>4, <1>5, <1>6, <1>7, <1>8 DEF Startup

LEMMA ShapeNext == Shape /\ [Next]_vars => Shape'
  BY ShapeDirector, ShapeSpecialist, ShapeTasks, ShapeRest DEF Next

\* Every variable keeps its type.
THEOREM TypeCorrect == Spec => []TypeOK
<1>1. Spec => []Shape
  BY ShapeInit, ShapeNext, PTL DEF Spec
<1> QED
  BY <1>1, ShapeShown, PTL

-----------------------------------------------------------------------------
(* What the kinds of steps leave alone.                                    *)

\* The dispatcher, the executors and the user touch tasks and slots only.
LEMMA TasksFrame ==
    ASSUME NEW s \in Steps, Dispatcher(s) \/ UseTool(s) \/ User(s)
    PROVE  UNCHANGED <<flags, plan, created, checkpoint, receipt, messages,
                       conversation, workflow, step, marker, core>>
  BY DEF Dispatcher, User, Dispatch, Finish, Release, Reconcile, UseTool,
         Cancel, UserRetry, setting, rows, records, memory

\* A specialist changes its own step, its own task, and the workflow only by
\* raising an error.
LEMMA SpecialistFrame ==
    ASSUME Shape, NEW s \in Steps, Specialist(s) \/ StepFails(s)
    PROVE  /\ UNCHANGED <<flags, plan, checkpoint, receipt, messages,
                          conversation, marker, core>>
           /\ step[s].pc \notin {"off", "returned"}
           /\ step' \in [Steps -> StepType]
           /\ \A r \in Steps \ {s} : step'[r] = step[r] /\ task'[r] = task[r]
                                      /\ created'[r] = created[r]
           /\ \/ workflow' = workflow /\ step'[s].pc # "off"
              \/ workflow' = [NoWorkflow EXCEPT !.pc = "raised"]
                 /\ step'[s] = NoStep
<1> USE DEF Shape, setting, rows, records, At
<1>1. CASE Resume(s)
  BY <1>1, StepMoves, StepReturns DEF Resume, Outcomes, Terminal
<1>2. CASE SpecialistUnavailable(s)
  BY <1>2, StepReturns DEF SpecialistUnavailable, Outcomes, Terminal
<1>3. CASE CreateTask(s)
  BY <1>3, StepMoves DEF CreateTask
<1>4. CASE Enqueue(s)
  BY <1>4, StepMoves, StepReturns DEF Enqueue, Outcomes, Terminal
<1>5. CASE SeeEnd(s)
  BY <1>5, StepMoves, StepReturns DEF SeeEnd, Outcomes
<1>6. CASE SeeSecondEnd(s)
  BY <1>6, StepReturns DEF SeeSecondEnd, Outcomes
<1>7. CASE RetryTask(s)
  BY <1>7, StepMoves DEF RetryTask
<1>8. CASE RetryMoot(s)
  BY <1>8, StepReturns DEF RetryMoot, Outcomes, Terminal
<1>9. CASE RetryRefused(s)
  BY <1>9, RecordTypes DEF RetryRefused, Raise
<1>10. CASE StepFails(s)
  BY <1>10, RecordTypes DEF StepFails, Raise
<1> QED
  BY <1>1, <1>2, <1>3, <1>4, <1>5, <1>6, <1>7, <1>8, <1>9, <1>10
     DEF Specialist

\* What happens to the task of a step, unless it is created: it is there or
\* not as before, completed is final, what the user took over stays so, and a
\* failure without tools ends by a retry only.
LEMMA TaskSteps ==
    ASSUME Shape, [Next]_vars, NEW s \in Steps, ~CreateTask(s)
    PROVE  /\ created'[s] = created[s]
           /\ task'[s].status = "none" <=> task[s].status = "none"
           /\ task[s].status = "completed" => task'[s].status = "completed"
           /\ task[s].byUser => task'[s].byUser
           /\ task[s].status = "failed" /\ ~task[s].tools =>
                \/ task'[s].status = "failed" /\ ~task'[s].tools
                \/ task'[s].byUser
                \/ RetryTask(s)
<1> USE DEF Shape, TaskType, setting, rows, records, memory, Goto, Statuses,
            Terminal
<1>1. CASE Director
  <2>1. CASE MarkFinal
    BY <2>1 DEF MarkFinal
  <2>2. CASE task' = task /\ created' = created
    BY <2>2
  <2> QED
    BY <1>1, <2>1, <2>2 DEF Director, CheckReceipt, SavePlan, LoadTasks,
       SelectSteps, Gathered, Synthesise, Review, SaveHandoff, Complete,
       LoadFinal
<1>2. ASSUME NEW r \in Steps, Specialist(r) \/ StepFails(r)
      PROVE  \/ r # s
             \/ RetryTask(s)
             \/ task'[s] = task[s] /\ created'[s] = created[s]
  BY <1>2 DEF Specialist, Resume, SpecialistUnavailable, Enqueue,
     SeeEnd, SeeSecondEnd, RetryMoot, RetryRefused, StepFails, Raise
<1>3. ASSUME RetryTask(s)
      PROVE  task' = [task EXCEPT ![s] = Requeued(task[s])]
             /\ created' = created /\ task[s].status = "failed"
  BY <1>3 DEF RetryTask
<1>4. ASSUME NEW r \in Steps, Specialist(r) \/ StepFails(r)
      PROVE  created'[s] = created[s] /\ (task'[s] = task[s] \/ RetryTask(s))
  BY <1>2, <1>3, <1>4, SpecialistFrame
<1>5. CASE \E r \in Steps : Specialist(r) \/ StepFails(r)
  BY <1>3, <1>4, <1>5, ZenonT(40) DEF Requeued
<1>6. ASSUME NEW r \in Steps, Dispatcher(r) \/ UseTool(r) \/ User(r)
      PROVE  /\ created' = created
             /\ task'[s].status = "none" <=> task[s].status = "none"
             /\ task[s].status = "completed" => task'[s].status = "completed"
             /\ task[s].byUser => task'[s].byUser
             /\ task[s].status = "failed" /\ ~task[s].tools =>
                  \/ task'[s].status = "failed" /\ ~task'[s].tools
                  \/ task'[s].byUser
  <2>1. CASE Dispatch(r)
    <3>1. created' = created
      BY <2>1 DEF Dispatch
    <3>2. CASE task[r].status = "queued"
      <4>1. task' = [task EXCEPT ![r] = [task[r] EXCEPT !.status = "running"]]
        BY <2>1, <3>2 DEF Dispatch
      <4> QED BY <3>1, <3>2, <4>1
    <3>3. CASE task[r].status # "queued"
      <4>1. task' = task
        BY <2>1, <3>3 DEF Dispatch
      <4> QED BY <3>1, <4>1
    <3> QED BY <3>2, <3>3
  <2>2. CASE Finish(r)
    BY <2>2 DEF Finish
  <2>3. CASE Release(r) \/ Reconcile(r)
    BY <2>3 DEF Release, Reconcile
  <2>4. CASE UseTool(r)
    BY <2>4 DEF UseTool
  <2>5. CASE Cancel(r)
    BY <2>5 DEF Cancel
  <2>6. CASE UserRetry(r)
    BY <2>6 DEF UserRetry, Requeued
  <2> QED BY <1>6, <2>1, <2>2, <2>3, <2>4, <2>5, <2>6 DEF Dispatcher, User
<1>7. CASE Start
  BY <1>7 DEF Start, Recovered
<1>8. CASE MarkRecovered
  BY <1>8 DEF MarkRecovered
<1>9. CASE ResumeWorkflow \/ LoadRecovered \/ Stop \/ DeleteConversation
           \/ UNCHANGED vars
  BY <1>9 DEF ResumeWorkflow, LoadRecovered, Stop, DeleteConversation, vars
<1>10. CASE WorkflowFails
  BY <1>10, FailsFrame
<1> QED
  BY <1>1, <1>5, <1>6, <1>7, <1>8, <1>9, <1>10 DEF Next, Startup

-----------------------------------------------------------------------------
(* One task for a step.                                                    *)

\* Steps run in the gather of a workflow, or after an error has ended it;
\* nothing of this runs while Core is down or starting.
Lifecycle ==
    /\ core # "up" => workflow.pc = "off" /\ marker.pc = "off"
    /\ \A s \in Steps : step[s].pc # "off" =>
        core = "up" /\ workflow.pc \in {"gather", "raised"}

\* A task is counted when it is there; a step that is about to create one,
\* or may come to it, has none.
Fresh ==
    /\ \A s \in Steps :
        /\ created[s] = IF task[s].status = "none" THEN 0 ELSE 1
        /\ step[s].pc = "begin" /\ step[s].known = "none" =>
             task[s].status = "none"
        /\ step[s].pc = "returned" => step[s].outcome # "none"
    /\ workflow.pc \in {"loop", "gather"} =>
        \A s \in Steps :
            /\ workflow.outcome[s] = "none"
            /\ step[s].pc = "off" /\ step[s].known = "none"
            => task[s].status = "none"

LEMMA LifecycleNext ==
    ASSUME Shape, Lifecycle, [Next]_vars
    PROVE  Lifecycle'
<1> USE DEF Lifecycle, Goto, setting, rows, records, memory
<1>1. CASE Director
  <2>1. CASE SelectSteps
    <3> DEFINE outcome == [s \in Steps |-> IF s \in Skipped(workflow.outcome)
                                           THEN "skipped"
                                           ELSE workflow.outcome[s]]
    <3>1. Ready(outcome) \subseteq Pending(outcome)
      BY DEF Ready
    <3> HIDE DEF outcome
    <3>2. /\ workflow.pc = "loop"
          /\ workflow'.pc = IF Pending(outcome) = {} THEN "synthesis"
                            ELSE IF Ready(outcome) = {} THEN "stalled"
                            ELSE "gather"
          /\ step' = [s \in Steps |-> IF s \in Ready(outcome)
                                      THEN [step[s] EXCEPT !.pc = "begin"]
                                      ELSE step[s]]
          /\ core' = core /\ marker' = marker
      BY <2>1 DEF SelectSteps, Shape, WorkflowType, outcome
    <3> QED BY <3>1, <3>2
  <2>2. CASE Gathered
    BY <2>2 DEF Gathered, NoStep, Shape, WorkflowType
  <2>3. CASE LoadTasks
    BY <2>3 DEF LoadTasks, NoStep, Shape, WorkflowType
  <2>4. CASE CheckReceipt \/ SavePlan \/ Synthesise \/ Review \/ SaveHandoff
             \/ Complete \/ LoadFinal \/ MarkFinal
    BY <2>4 DEF CheckReceipt, SavePlan, Synthesise, Review, SaveHandoff,
       Complete, LoadFinal, MarkFinal, Shape, WorkflowType, NoWorkflow
  <2> QED BY <1>1, <2>1, <2>2, <2>3, <2>4 DEF Director
<1>2. CASE \E s \in Steps : Specialist(s) \/ StepFails(s)
  <2>1. PICK s \in Steps : Specialist(s) \/ StepFails(s)
    BY <1>2
  <2>2. step[s].pc # "off"
    BY <2>1, SpecialistFrame
  <2>3. core' = core /\ marker' = marker
    BY <2>1, SpecialistFrame
  <2>4. /\ workflow'.pc = workflow.pc \/ workflow'.pc = "raised"
        /\ \A r \in Steps \ {s} : step'[r] = step[r]
    BY <2>1, SpecialistFrame DEF NoWorkflow
  <2> QED BY <2>2, <2>3, <2>4
<1>3. CASE \E s \in Steps : Dispatcher(s) \/ UseTool(s) \/ User(s)
  BY <1>3, TasksFrame
<1>4. CASE Startup
  BY <1>4 DEF Startup, Start, ResumeWorkflow, LoadRecovered, MarkRecovered,
     NoMarker
<1>5. CASE Stop
  BY <1>5 DEF Stop, NoWorkflow, NoMarker, NoStep
<1>6. CASE DeleteConversation \/ UNCHANGED vars
  BY <1>6 DEF DeleteConversation, vars
<1>7. CASE WorkflowFails
  BY <1>7, FailsFrame
<1> QED
  BY <1>1, <1>2, <1>3, <1>4, <1>5, <1>6, <1>7 DEF Next

\* A new task is made only where there is none.
LEMMA CreateFresh ==
    ASSUME Shape, Fresh, NEW s \in Steps, CreateTask(s)
    PROVE  /\ task[s].status = "none" /\ created[s] = 0
           /\ task'[s].status = "queued" /\ created'[s] = 1
           /\ step'[s].pc = "enqueue" /\ step'[s].outcome = "none"
           /\ workflow' = workflow
           /\ \A r \in Steps \ {s} : task'[r] = task[r]
<1>1. step[s].pc = "begin" /\ step[s].known = "none"
  BY DEF CreateTask, At
<1>2. task[s].status = "none" /\ created[s] = 0
  BY <1>1 DEF Fresh
<1>3. step'[s].pc = "enqueue" /\ step'[s].outcome = "none"
  BY StepMoves DEF CreateTask, Shape
<1> QED
  BY <1>2, <1>3 DEF CreateTask, Shape, NoTask, TaskType

\* A specialist that does not raise has done something: it is past its start.
LEMMA SpecialistMoves ==
    ASSUME Shape, NEW s \in Steps, Specialist(s) \/ StepFails(s)
    PROVE  /\ step'[s].pc # "begin"
           /\ step'[s].pc = "returned" => step'[s].outcome # "none"
           /\ step'[s].outcome = "completed" => task'[s].status = "completed"
<1> USE DEF Shape
<1>1. CASE Resume(s)
  BY <1>1, StepMoves, StepReturns DEF Resume, Outcomes, Terminal
<1>2. CASE SpecialistUnavailable(s)
  BY <1>2, StepReturns DEF SpecialistUnavailable, Outcomes, Terminal
<1>3. CASE CreateTask(s)
  BY <1>3, StepMoves DEF CreateTask
<1>4. CASE Enqueue(s)
  BY <1>4, StepMoves, StepReturns DEF Enqueue, Outcomes, Terminal
<1>5. CASE SeeEnd(s)
  BY <1>5, StepMoves, StepReturns DEF SeeEnd, Outcomes, Terminal, rows
<1>6. CASE SeeSecondEnd(s)
  BY <1>6, StepReturns DEF SeeSecondEnd, Outcomes, Terminal, rows
<1>7. CASE RetryTask(s)
  BY <1>7, StepMoves DEF RetryTask
<1>8. CASE RetryMoot(s)
  BY <1>8, StepReturns DEF RetryMoot, Outcomes, Terminal
<1>9. CASE RetryRefused(s) \/ StepFails(s)
  BY <1>9 DEF RetryRefused, StepFails, Raise, NoStep
<1> QED
  BY <1>1, <1>2, <1>3, <1>4, <1>5, <1>6, <1>7, <1>8, <1>9 DEF Specialist

LEMMA FreshNext ==
    ASSUME Shape, Lifecycle, Fresh, [Next]_vars
    PROVE  Fresh'
<1>1. ASSUME NEW s \in Steps
      PROVE  created'[s] = IF task'[s].status = "none" THEN 0 ELSE 1
  BY <1>1, CreateFresh, TaskSteps DEF Fresh
<1>2. ASSUME NEW s \in Steps, task[s].status = "none",
             task'[s].status # "none"
      PROVE  CreateTask(s)
  BY <1>2, TaskSteps
<1>3. CASE Director
  <2>1. ASSUME NEW s \in Steps
        PROVE  task'[s].status = "none" <=> task[s].status = "none"
    <3>1. CASE ~CreateTask(s)
      BY <3>1, TaskSteps
    <3>2. CASE CreateTask(s)
      <4>1. step[s].pc = "begin" /\ step'[s].pc = "enqueue"
        BY <3>2, CreateFresh DEF CreateTask, At
      <4>2. workflow.pc \in {"gather", "raised"} /\ workflow' = workflow
        BY <3>2, <4>1, CreateFresh DEF Lifecycle
      <4>3. Gathered
        BY <1>3, <4>2 DEF Director, CheckReceipt, SavePlan, LoadTasks,
           SelectSteps, Synthesise, Review, SaveHandoff, Complete, LoadFinal,
           MarkFinal
      <4>4. step[s].pc \in {"off", "returned"}
        BY <4>3 DEF Gathered
      <4> QED BY <4>1, <4>4
    <3> QED BY <3>1, <3>2
  <2>2. CASE LoadTasks
    BY <1>1, <2>1, <2>2 DEF LoadTasks, Fresh, NoStep, Goto, Shape, WorkflowType
  <2>3. CASE SelectSteps
    <3> DEFINE outcome == [s \in Steps |-> IF s \in Skipped(workflow.outcome)
                                           THEN "skipped"
                                           ELSE workflow.outcome[s]]
    <3>1. \A s \in Ready(outcome) : s \in Steps => workflow.outcome[s] = "none"
      BY DEF Ready, Pending
    <3>2. \A s \in Steps : outcome[s] = "none" => workflow.outcome[s] = "none"
      OBVIOUS
    <3> HIDE DEF outcome
    <3>3. /\ workflow.pc = "loop" /\ workflow'.outcome = outcome
          /\ step' = [s \in Steps |-> IF s \in Ready(outcome)
                                      THEN [step[s] EXCEPT !.pc = "begin"]
                                      ELSE step[s]]
      BY <2>3 DEF SelectSteps, Shape, WorkflowType, outcome
    <3>4. \A s \in Steps : step[s].pc = "off"
      BY <3>3 DEF Lifecycle
    <3>5. \A s \in Steps :
            /\ step'[s].known = step[s].known
            /\ step'[s].outcome = step[s].outcome
            /\ step'[s].pc = IF s \in Ready(outcome) THEN "begin" ELSE "off"
      BY <3>3, <3>4 DEF Shape, StepType
    <3> QED BY <1>1, <2>1, <3>1, <3>2, <3>3, <3>4, <3>5 DEF Fresh
  <2>4. CASE Gathered
    <3>1. ASSUME NEW s \in Steps
          PROVE  /\ step'[s] = IF step[s].pc = "returned" THEN NoStep
                               ELSE step[s]
                 /\ workflow'.outcome[s] = IF step[s].pc = "returned"
                                           THEN step[s].outcome
                                           ELSE workflow.outcome[s]
                 /\ step[s].pc \in {"off", "returned"}
                 /\ workflow.pc = "gather"
      BY <2>4 DEF Gathered, Shape, WorkflowType
    <3> QED BY <1>1, <2>1, <3>1 DEF Fresh, NoStep
  <2>5. CASE CheckReceipt \/ SavePlan \/ Synthesise \/ Review \/ SaveHandoff
             \/ Complete \/ LoadFinal \/ MarkFinal
    <3>1. step' = step /\ workflow'.pc \notin {"loop", "gather"}
      BY <2>5 DEF CheckReceipt, SavePlan, Synthesise, Review, SaveHandoff,
         Complete, LoadFinal, MarkFinal, Shape, WorkflowType, NoWorkflow, Goto
    <3> QED BY <1>1, <2>1, <3>1 DEF Fresh
  <2> QED BY <1>3, <2>2, <2>3, <2>4, <2>5 DEF Director
<1>4. CASE \E s \in Steps : Specialist(s) \/ StepFails(s)
  <2>1. PICK s \in Steps : Specialist(s) \/ StepFails(s)
    BY <1>4
  <2>2. \A r \in Steps \ {s} : step'[r] = step[r] /\ task'[r] = task[r]
    BY <2>1, SpecialistFrame
  <2>3. /\ step'[s].pc # "begin"
        /\ step'[s].pc = "returned" => step'[s].outcome # "none"
    BY <2>1, SpecialistMoves
  <2>4. \/ workflow' = workflow /\ step'[s].pc # "off"
        \/ workflow'.pc = "raised"
    BY <2>1, SpecialistFrame DEF NoWorkflow
  <2> QED BY <1>1, <2>2, <2>3, <2>4 DEF Fresh
<1>5. ASSUME step' = step, workflow' = workflow PROVE Fresh'
  <2>1. ASSUME NEW s \in Steps, CreateTask(s) PROVE FALSE
    <3>1. step[s].pc = "begin" /\ step'[s].pc = "enqueue"
      BY <2>1, CreateFresh DEF CreateTask, At
    <3> QED BY <1>5, <3>1
  <2> QED BY <1>1, <1>2, <1>5, <2>1 DEF Fresh
<1>6. CASE \E s \in Steps : Dispatcher(s) \/ UseTool(s) \/ User(s)
  BY <1>5, <1>6, TasksFrame
<1>7. CASE ResumeWorkflow
  <2>1. step' = step /\ \A s \in Steps : step[s].pc = "off"
    BY <1>7 DEF ResumeWorkflow, Lifecycle
  <2>2. workflow'.pc \notin {"loop", "gather"}
    BY <1>7 DEF ResumeWorkflow, Lifecycle, Launched, NoWorkflow
  <2> QED BY <1>1, <2>1, <2>2 DEF Fresh
<1>8. CASE Start \/ LoadRecovered \/ MarkRecovered
  BY <1>5, <1>8 DEF Start, LoadRecovered, MarkRecovered, memory
<1>9. CASE Stop
  BY <1>1, <1>9 DEF Fresh, Stop, NoStep, NoWorkflow
<1>10. CASE DeleteConversation \/ UNCHANGED vars
  BY <1>5, <1>10 DEF DeleteConversation, memory, vars
<1>11. CASE WorkflowFails
  BY <1>1, <1>11, FailsFrame DEF Fresh
<1> QED
  BY <1>3, <1>4, <1>6, <1>7, <1>8, <1>9, <1>10, <1>11 DEF Next, Startup

LEMMA FreshInit == Init => Lifecycle /\ Fresh
  BY DEF Init, Lifecycle, Fresh, NoStep, NoTask, NoWorkflow, Launched, NoMarker

\* A step never gets a second task, however often the workflow is resumed.
THEOREM OneTaskAlways == Spec => []OneTaskPerStep
<1>1. Shape /\ Fresh => OneTaskPerStep
  BY DEF Fresh, OneTaskPerStep
<1> QED
  BY <1>1, ShapeInit, FreshInit, ShapeNext, LifecycleNext, FreshNext, PTL
     DEF Spec

-----------------------------------------------------------------------------
(* What the conversation is told.                                          *)

Honest(text) ==
    \A s \in Steps : text.seen[s] = "completed" => task[s].status = "completed"

\* Outcomes and texts, stored or not, call completed only what is.
Claims ==
    /\ \A s \in Steps :
        /\ workflow.outcome[s] = "completed" => task[s].status = "completed"
        /\ step[s].outcome = "completed" => task[s].status = "completed"
    /\ Honest(workflow.text)
    /\ Honest(checkpoint.synthesis) /\ Honest(checkpoint.result)
    /\ \A i \in 1..Len(messages) : Honest(messages[i])

\* The task of a completed step stays completed: nothing creates it again.
LEMMA CompletedStays ==
    ASSUME Shape, Fresh, [Next]_vars, NEW s \in Steps,
           task[s].status = "completed"
    PROVE  task'[s].status = "completed"
<1>1. ~CreateTask(s)
  BY CreateFresh
<1> QED BY <1>1, TaskSteps

LEMMA NoTextIsHonest == \A s \in Steps : NoText.seen[s] # "completed"
  BY DEF NoText

LEMMA ClaimsNext ==
    ASSUME Shape, Fresh, Claims, [Next]_vars
    PROVE  Claims'
<1> DEFINE HonestNext(text) ==
        \A s \in Steps : text.seen[s] = "completed" =>
            task'[s].status = "completed"
           TextsKept == /\ UNCHANGED messages
                        /\ checkpoint'.synthesis = checkpoint.synthesis
                        /\ checkpoint'.result = checkpoint.result
<1>1. ASSUME NEW text, Honest(text) PROVE HonestNext(text)
  BY <1>1, CompletedStays DEF Honest
<1>2. HonestNext(NoText)
  BY NoTextIsHonest
<1>3. SUFFICES
        /\ \A s \in Steps :
            /\ workflow'.outcome[s] = "completed" =>
                 task'[s].status = "completed"
            /\ step'[s].outcome = "completed" =>
                 task'[s].status = "completed"
        /\ HonestNext(workflow'.text)
        /\ HonestNext(checkpoint'.synthesis) /\ HonestNext(checkpoint'.result)
        /\ \A i \in 1..Len(messages') : HonestNext(messages'[i])
  BY DEF Claims, Honest
<1>4. /\ HonestNext(workflow.text)
      /\ HonestNext(checkpoint.synthesis) /\ HonestNext(checkpoint.result)
      /\ \A i \in 1..Len(messages) : HonestNext(messages[i])
  BY <1>1 DEF Claims
<1>5. \A s \in Steps :
        /\ workflow.outcome[s] = "completed" => task'[s].status = "completed"
        /\ step[s].outcome = "completed" => task'[s].status = "completed"
  BY CompletedStays DEF Claims
<1> HIDE DEF HonestNext
<1>6. CASE Synthesise
  <2>1. /\ step' = step /\ messages' = messages
        /\ workflow'.outcome = workflow.outcome
        /\ checkpoint'.result = checkpoint.result
    BY <1>6 DEF Synthesise, Shape, WorkflowType, CheckpointType
  <2>2. \/ workflow'.text = checkpoint.synthesis
        \/ workflow'.text = [seen |-> workflow.outcome, turn |-> Run,
                             reviewed |-> 0]
    BY <1>6 DEF Synthesise, Shape, WorkflowType
  <2>3. checkpoint'.synthesis \in {checkpoint.synthesis, workflow'.text}
    BY <1>6 DEF Synthesise, Shape, WorkflowType, CheckpointType
  <2>4. HonestNext([seen |-> workflow.outcome, turn |-> Run, reviewed |-> 0])
    BY <1>5 DEF HonestNext
  <2> QED BY <1>4, <1>5, <2>1, <2>2, <2>3, <2>4
<1>7. CASE Review
  <2>1. /\ step' = step /\ messages' = messages
        /\ workflow'.outcome = workflow.outcome
        /\ checkpoint'.synthesis = checkpoint.synthesis
    BY <1>7 DEF Review, Shape, WorkflowType, CheckpointType
  <2>2. \/ workflow'.text = checkpoint.result
        \/ \E n \in {0, Run} :
             workflow'.text = [workflow.text EXCEPT !.reviewed = n]
    BY <1>7 DEF Review, Shape, WorkflowType
  <2>3. checkpoint'.result \in {checkpoint.result, workflow'.text}
    BY <1>7 DEF Review, Shape, WorkflowType, CheckpointType
  <2>4. ASSUME NEW n PROVE HonestNext([workflow.text EXCEPT !.reviewed = n])
    <3>1. [workflow.text EXCEPT !.reviewed = n].seen = workflow.text.seen
      BY DEF Shape, WorkflowType, Texts
    <3> QED BY <1>4, <3>1 DEF HonestNext
  <2>5. HonestNext(workflow'.text)
    BY <1>4, <2>2, <2>4
  <2>6. HonestNext(checkpoint'.result)
    BY <1>4, <2>3, <2>5
  <2> QED BY <1>4, <1>5, <2>1, <2>5, <2>6
<1>8. CASE SaveHandoff
  <2>1. /\ step' = step /\ checkpoint' = checkpoint
        /\ workflow'.text = NoText
        /\ \A s \in Steps : workflow'.outcome[s] = "none"
        /\ messages' \in {messages, Append(messages, workflow.text)}
    BY <1>8 DEF SaveHandoff, NoWorkflow
  <2>2. ASSUME NEW i \in 1..Len(messages')
        PROVE  HonestNext(messages'[i])
    <3>1. workflow.text \in Texts /\ messages \in Seq(Texts)
      BY DEF Shape, WorkflowType
    <3>2. CASE messages' = messages
      BY <1>4, <3>2
    <3>3. CASE messages' = Append(messages, workflow.text)
      <4>1. \/ i \in 1..Len(messages) /\ messages'[i] = messages[i]
            \/ messages'[i] = workflow.text
        BY <3>1, <3>3
      <4> QED BY <1>4, <4>1
    <3> QED BY <2>1, <3>2, <3>3
  <2> QED BY <1>2, <1>4, <1>5, <2>1, <2>2
<1>9. CASE LoadTasks
  <2>1. TextsKept /\ workflow'.text = workflow.text
        /\ workflow'.outcome = workflow.outcome
    BY <1>9 DEF LoadTasks, records, Goto, Shape, WorkflowType
  <2>2. \A s \in Steps : step'[s].outcome = "none"
    BY <1>9 DEF LoadTasks, NoStep
  <2> QED BY <1>4, <1>5, <2>1, <2>2
<1>10. CASE SelectSteps
  <2>1. TextsKept /\ workflow'.text = workflow.text
    BY <1>10 DEF SelectSteps, records, Shape, WorkflowType
  <2>2. \A s \in Steps : workflow'.outcome[s] \in
                             {"skipped", workflow.outcome[s]}
    BY <1>10 DEF SelectSteps, Shape, WorkflowType
  <2>3. \A s \in Steps : step'[s].outcome = step[s].outcome
    BY <1>10 DEF SelectSteps, Shape, StepType
  <2> QED BY <1>4, <1>5, <2>1, <2>2, <2>3
<1>11. CASE Gathered
  <2>1. TextsKept /\ workflow'.text = workflow.text
    BY <1>11 DEF Gathered, records, Shape, WorkflowType
  <2>2. \A s \in Steps : workflow'.outcome[s] \in
                             {step[s].outcome, workflow.outcome[s]}
    BY <1>11 DEF Gathered, Shape, WorkflowType
  <2>3. \A s \in Steps : step'[s].outcome \in {"none", step[s].outcome}
    BY <1>11 DEF Gathered, NoStep
  <2> QED BY <1>4, <1>5, <2>1, <2>2, <2>3
<1>12. CASE CheckReceipt \/ SavePlan \/ Complete \/ LoadFinal \/ MarkFinal
  <2>1. TextsKept /\ step' = step
    BY <1>12 DEF CheckReceipt, SavePlan, Complete, LoadFinal, MarkFinal,
       records, Shape, CheckpointType
  <2>2. workflow'.text \in {workflow.text, NoText}
    BY <1>12 DEF CheckReceipt, SavePlan, Complete, LoadFinal, MarkFinal, Goto,
       NoWorkflow, Shape, WorkflowType
  <2>3. \A s \in Steps : workflow'.outcome[s] \in
                             {"none", workflow.outcome[s]}
    <3>1. CASE MarkFinal
      BY <3>1 DEF MarkFinal, NoWorkflow
    <3>2. CASE workflow'.outcome = workflow.outcome
      BY <3>2
    <3> QED BY <1>12, <3>1, <3>2 DEF CheckReceipt, SavePlan, Complete,
               LoadFinal, Goto, Shape, WorkflowType
  <2> QED BY <1>2, <1>4, <1>5, <2>1, <2>2, <2>3
<1>13. CASE \E s \in Steps : Specialist(s) \/ StepFails(s)
  <2>1. PICK s \in Steps : Specialist(s) \/ StepFails(s)
    BY <1>13
  <2>2. TextsKept /\ \A r \in Steps \ {s} : step'[r] = step[r]
    BY <2>1, SpecialistFrame
  <2>3. step'[s].outcome = "completed" => task'[s].status = "completed"
    BY <2>1, SpecialistMoves
  <2>4. workflow'.text \in {workflow.text, NoText}
        /\ \A r \in Steps : workflow'.outcome[r] \in
                                {"none", workflow.outcome[r]}
    BY <2>1, SpecialistFrame DEF NoWorkflow
  <2> QED BY <1>2, <1>4, <1>5, <2>2, <2>3, <2>4
<1>14. CASE \E s \in Steps : Dispatcher(s) \/ UseTool(s) \/ User(s)
  BY <1>4, <1>5, <1>14, TasksFrame
<1>15. CASE Startup
  <2>1. TextsKept /\ step' = step
    BY <1>15 DEF Startup, Start, ResumeWorkflow, LoadRecovered, MarkRecovered,
       records, memory
  <2>2. workflow' \in {workflow, Launched}
    BY <1>15 DEF Startup, Start, ResumeWorkflow, LoadRecovered, MarkRecovered,
       memory
  <2>3. Launched.text = NoText /\ \A s \in Steps : Launched.outcome[s] = "none"
    BY DEF Launched, NoWorkflow
  <2> QED BY <1>2, <1>4, <1>5, <2>1, <2>2, <2>3
<1>16. CASE Stop
  <2>1. TextsKept /\ workflow'.text = NoText
        /\ \A s \in Steps : /\ workflow'.outcome[s] = "none"
                             /\ step'[s].outcome = "none"
    BY <1>16 DEF Stop, records, NoWorkflow, NoStep
  <2> QED BY <1>2, <1>4, <2>1
<1>17. CASE DeleteConversation \/ UNCHANGED vars
  BY <1>4, <1>5, <1>17 DEF DeleteConversation, vars, records, memory
<1>18. CASE WorkflowFails
  <2>1. TextsKept /\ step' = step /\ workflow'.text = NoText
        /\ \A s \in Steps : workflow'.outcome[s] = "none"
    BY <1>18, FailsFrame
  <2> QED BY <1>2, <1>4, <1>5, <2>1
<1> QED
  BY <1>6, <1>7, <1>8, <1>9, <1>10, <1>11, <1>12, <1>13, <1>14, <1>15, <1>16,
     <1>17, <1>18 DEF Next, Director

LEMMA ClaimsInit == Init => Claims
  BY DEF Init, Claims, Honest, NoText, NoStep, NoWorkflow, Launched,
     NoCheckpoint

\* No handoff claims the completion of a step whose task did not complete.
THEOREM ClaimsAlwaysTrue == Spec => []ClaimsAreTrue
<1>1. Claims => ClaimsAreTrue
  BY DEF Claims, ClaimsAreTrue, Honest
<1> QED
  BY <1>1, ShapeInit, FreshInit, ClaimsInit, ShapeNext, LifecycleNext,
     FreshNext, ClaimsNext, PTL DEF Spec

-----------------------------------------------------------------------------
(* The answer and what is marked as over.                                  *)

\* With durable handoffs a message has its receipt, and once the receipt is
\* there the workflow never comes back to its work.
Delivered ==
    /\ receipt => /\ flags.handoffs
                  /\ workflow.pc \in {"off", "receipt", "complete", "finalise",
                                      "mark", "done", "raised"}
                  /\ \A s \in Steps : step[s].pc = "off"
    /\ flags.handoffs /\ messages # <<>> => receipt

InDatabase ==
    \/ receipt
    \/ ~flags.handoffs /\ (messages # <<>> \/ ~conversation)

\* What says that a workflow is over, or is about to be written.
Closed ==
    \/ \E s \in Steps : task[s].final
    \/ marker.final # {}
    \/ checkpoint.stage = "completed"
    \/ workflow.pc \in {"complete", "finalise", "mark"}
    => InDatabase

\* The stored text is the one that is handed over.
Reviewed ==
    flags.checkpoints =>
        /\ workflow.pc = "review" =>
            /\ checkpoint.stage \in {"synthesized", "reviewed", "completed"}
            /\ workflow.loaded \in {"reviewed", "completed"} <=>
                 checkpoint.stage \in {"reviewed", "completed"}
        /\ workflow.pc = "handoff" =>
            /\ checkpoint.stage \in {"reviewed", "completed"}
            /\ workflow.text = checkpoint.result
        /\ messages # <<>> => checkpoint.stage \in {"reviewed", "completed"}
        /\ \A i \in 1..Len(messages) : messages[i] = checkpoint.result

\* Once the receipt is there, no step of a specialist is left.
LEMMA ReceiptQuiet ==
    ASSUME Shape, Lifecycle, Delivered, receipt, NEW s \in Steps
    PROVE  step[s].pc = "off" /\ ~Specialist(s) /\ ~StepFails(s)
<1>1. step[s].pc = "off"
  BY DEF Delivered
<1> QED BY <1>1, SpecialistFrame

\* Steps other than these leave the records and the settings alone.
LEMMA RecordsFrame ==
    ASSUME Shape, [Next]_vars
    PROVE  /\ UNCHANGED <<flags, plan>>
           /\ \/ CheckReceipt \/ SavePlan \/ Synthesise \/ Review
              \/ SaveHandoff \/ Complete \/ DeleteConversation
              \/ UNCHANGED <<checkpoint, receipt, messages, conversation>>
<1>1. CASE Director
  BY <1>1 DEF Director, CheckReceipt, SavePlan, LoadTasks, SelectSteps,
     Gathered, Synthesise, Review, SaveHandoff, Complete, LoadFinal, MarkFinal,
     setting, records
<1>2. CASE \E s \in Steps : Specialist(s) \/ StepFails(s)
  BY <1>2, SpecialistFrame
<1>3. CASE \E s \in Steps : Dispatcher(s) \/ UseTool(s) \/ User(s)
  BY <1>3, TasksFrame
<1>4. CASE Startup \/ Stop \/ DeleteConversation \/ UNCHANGED vars
  BY <1>4 DEF Startup, Start, ResumeWorkflow, LoadRecovered, MarkRecovered,
     Stop, DeleteConversation, vars, setting, records
<1>5. CASE WorkflowFails
  BY <1>5, FailsFrame
<1> QED BY <1>1, <1>2, <1>3, <1>4, <1>5 DEF Next

\* Outside of the Director the workflow is only raised, dropped or resumed.
LEMMA WorkflowFrame ==
    ASSUME Shape, [Next]_vars, ~Director
    PROVE  \/ workflow' = workflow
           \/ workflow'.pc \in {"off", "receipt"}
           \/ workflow'.pc = "raised"
<1>1. CASE \E s \in Steps : Specialist(s) \/ StepFails(s)
  BY <1>1, SpecialistFrame DEF NoWorkflow
<1>2. CASE \E s \in Steps : Dispatcher(s) \/ UseTool(s) \/ User(s)
  BY <1>2, TasksFrame
<1>3. CASE Startup \/ Stop \/ DeleteConversation \/ UNCHANGED vars
  <2>1. \/ workflow' = workflow
        \/ workflow' = NoWorkflow
        \/ workflow' = Launched
    BY <1>3 DEF Startup, Start, ResumeWorkflow, LoadRecovered, MarkRecovered,
       Stop, DeleteConversation, vars, memory
  <2> QED BY <2>1 DEF Launched, NoWorkflow
<1>4. CASE WorkflowFails
  BY <1>4, FailsFrame
<1> QED BY <1>1, <1>2, <1>3, <1>4 DEF Next

\* Outside of the Director and of its specialists, a step that is off stays
\* so.
LEMMA StepsFrame ==
    ASSUME Shape, [Next]_vars, ~SelectSteps,
           \A s \in Steps : step[s].pc = "off"
    PROVE  \A s \in Steps : step'[s].pc = "off"
<1>1. \A s \in Steps : ~Specialist(s) /\ ~StepFails(s)
  BY SpecialistFrame
<1>2. CASE step' = step
  BY <1>2
<1>3. CASE LoadTasks
  BY <1>3 DEF LoadTasks, NoStep
<1>4. CASE Gathered
  BY <1>4 DEF Gathered, NoStep
<1>5. CASE Stop
  BY <1>5 DEF Stop, NoStep
<1>6. CASE \E r \in Steps : Dispatcher(r) \/ UseTool(r) \/ User(r)
  BY <1>6, TasksFrame
<1>7. CASE WorkflowFails
  BY <1>7, FailsFrame
<1> QED
  BY <1>1, <1>2, <1>3, <1>4, <1>5, <1>6, <1>7 DEF Next, Director, Startup,
     CheckReceipt, SavePlan, Synthesise, Review, SaveHandoff, Complete,
     LoadFinal, MarkFinal, Start, ResumeWorkflow, LoadRecovered,
     MarkRecovered, DeleteConversation, vars, memory

\* How the receipt and the messages change.
LEMMA ReceiptSteps ==
    ASSUME Shape, Delivered, [Next]_vars
    PROVE  /\ flags' = flags
           /\ receipt => receipt' /\ messages' = messages
           /\ \/ receipt' = receipt /\ messages' = messages
              \/ SaveHandoff
           /\ messages # <<>> => messages' # <<>>
           /\ ~conversation => ~conversation'
<1>1. CASE SaveHandoff
  <2>1. workflow.pc = "handoff" /\ ~receipt
    BY <1>1 DEF SaveHandoff, Delivered
  <2>2. messages' \in {messages, Append(messages, workflow.text)}
    BY <1>1 DEF SaveHandoff
  <2>3. messages \in Seq(Texts) /\ workflow.text \in Texts
    BY DEF Shape, WorkflowType
  <2>4. Append(messages, workflow.text) # <<>>
    BY <2>3
  <2> QED BY <1>1, <2>1, <2>2, <2>4 DEF SaveHandoff, setting
<1>2. CASE CheckReceipt \/ SavePlan \/ Synthesise \/ Review \/ Complete
           \/ DeleteConversation
  BY <1>2 DEF CheckReceipt, SavePlan, Synthesise, Review, Complete,
     DeleteConversation, setting, Shape
<1>3. CASE UNCHANGED <<checkpoint, receipt, messages, conversation>>
  BY <1>3, RecordsFrame
<1> QED BY <1>1, <1>2, <1>3, RecordsFrame

LEMMA InDatabaseStays ==
    ASSUME Shape, Delivered, [Next]_vars, InDatabase
    PROVE  InDatabase'
  BY ReceiptSteps DEF InDatabase

LEMMA DeliveredNext ==
    ASSUME Shape, Lifecycle, Delivered, [Next]_vars
    PROVE  Delivered'
<1>1. CASE SaveHandoff
  <2>1. /\ workflow.pc = "handoff" /\ step' = step
        /\ workflow'.pc = "complete" /\ receipt' = flags.handoffs
    BY <1>1 DEF SaveHandoff, NoWorkflow
  <2>2. \A s \in Steps : step'[s].pc = "off"
    BY <2>1 DEF Lifecycle
  <2> QED BY <2>1, <2>2, ReceiptSteps DEF Delivered, Shape
<1>2. CASE receipt
  <2>1. /\ receipt' /\ flags' = flags /\ flags.handoffs
        /\ workflow.pc \in {"off", "receipt", "complete", "finalise", "mark",
                            "done", "raised"}
    BY <1>2, ReceiptSteps DEF Delivered
  <2>2. ASSUME Director
        PROVE  workflow'.pc \in {"complete", "finalise", "mark", "done"}
    BY <1>2, <2>1, <2>2 DEF Director, CheckReceipt, SavePlan, LoadTasks,
       SelectSteps, Gathered, Synthesise, Review, SaveHandoff, Complete,
       LoadFinal, MarkFinal, Goto, NoWorkflow, Shape, WorkflowType
  <2>3. ~Director => workflow' = workflow
                     \/ workflow'.pc \in {"off", "receipt", "raised"}
    BY WorkflowFrame
  <2>4. \A s \in Steps : step'[s].pc = "off"
    <3>1. ~SelectSteps
      BY <2>1 DEF SelectSteps
    <3> QED BY <1>2, <3>1, StepsFrame DEF Delivered
  <2> QED BY <2>1, <2>2, <2>3, <2>4 DEF Delivered
<1>3. CASE ~receipt /\ ~SaveHandoff
  BY <1>3, ReceiptSteps DEF Delivered
<1> QED BY <1>1, <1>2, <1>3

\* A task is marked as final by the two marking steps only.
LEMMA FinalSteps ==
    ASSUME Shape, [Next]_vars, NEW s \in Steps, task'[s].final
    PROVE  \/ task[s].final
           \/ MarkFinal
           \/ MarkRecovered /\ s \in marker.final
<1> USE DEF Shape, TaskType, rows, Goto
<1>1. CASE Director
  BY <1>1 DEF Director, CheckReceipt, SavePlan, LoadTasks, SelectSteps,
     Gathered, Synthesise, Review, SaveHandoff, Complete, LoadFinal
<1>2. ASSUME NEW r \in Steps, Specialist(r) \/ StepFails(r)
      PROVE  task[s].final
  <2>1. CASE CreateTask(r)
    <3>1. task' = [task EXCEPT ![r] = [NoTask EXCEPT !.status = "queued"]]
      BY <2>1 DEF CreateTask
    <3>2. [NoTask EXCEPT !.status = "queued"].final = FALSE
      BY DEF NoTask
    <3> QED BY <3>1, <3>2
  <2>2. CASE RetryTask(r)
    BY <2>2 DEF RetryTask, Requeued
  <2>3. CASE task' = task
    BY <2>3
  <2> QED
    BY <1>2, <2>1, <2>2, <2>3 DEF Specialist, Resume, SpecialistUnavailable,
       Enqueue, SeeEnd, SeeSecondEnd, RetryMoot, RetryRefused, StepFails, Raise
<1>3. ASSUME NEW r \in Steps, Dispatcher(r) \/ UseTool(r) \/ User(r)
      PROVE  task[s].final
  <2>1. CASE Dispatch(r)
    <3>1. \/ task' = task
          \/ task' = [task EXCEPT ![r] = [task[r] EXCEPT !.status = "running"]]
      BY <2>1 DEF Dispatch
    <3> QED BY <3>1
  <2>2. CASE Finish(r)
    BY <2>2 DEF Finish
  <2>3. CASE Release(r) \/ Reconcile(r)
    BY <2>3 DEF Release, Reconcile
  <2>4. CASE UseTool(r)
    BY <2>4 DEF UseTool
  <2>5. CASE Cancel(r)
    BY <2>5 DEF Cancel
  <2>6. CASE UserRetry(r)
    BY <2>6 DEF UserRetry, Requeued
  <2> QED BY <1>3, <2>1, <2>2, <2>3, <2>4, <2>5, <2>6 DEF Dispatcher, User
<1>4. CASE Start
  BY <1>4 DEF Start, Recovered
<1>5. CASE MarkRecovered
  BY <1>5 DEF MarkRecovered
<1>6. CASE ResumeWorkflow \/ LoadRecovered \/ Stop \/ DeleteConversation
           \/ UNCHANGED vars
  BY <1>6 DEF ResumeWorkflow, LoadRecovered, Stop, DeleteConversation, vars
<1>7. CASE WorkflowFails
  BY <1>7, FailsFrame
<1> QED
  BY <1>1, <1>2, <1>3, <1>4, <1>5, <1>6, <1>7 DEF Next, Startup

LEMMA ClosedNext ==
    ASSUME Shape, Lifecycle, Delivered, Closed, [Next]_vars
    PROVE  Closed'
<1>1. CASE InDatabase
  BY <1>1, InDatabaseStays DEF Closed
<1>2. CASE SaveHandoff
  <2>1. workflow.pc = "handoff" /\ receipt' = flags.handoffs /\ flags' = flags
        /\ conversation' = conversation /\ ~receipt
    BY <1>2 DEF SaveHandoff, setting, Delivered
  <2>2. conversation => messages' = Append(messages, workflow.text)
    BY <1>2, <2>1 DEF SaveHandoff
  <2>3. Append(messages, workflow.text) # <<>>
    <3>1. messages \in Seq(Texts) /\ workflow.text \in Texts
      BY DEF Shape, WorkflowType
    <3> QED BY <3>1
  <2>4. InDatabase'
    BY <2>1, <2>2, <2>3 DEF InDatabase, Shape, Flags
  <2> QED BY <2>4 DEF Closed
<1>3. CASE ~InDatabase /\ ~SaveHandoff
  <2>1. /\ \A s \in Steps : ~task[s].final
        /\ marker.final = {} /\ checkpoint.stage # "completed"
        /\ workflow.pc \notin {"complete", "finalise", "mark"}
        /\ ~receipt
    <3>1. ~receipt
      BY <1>3 DEF InDatabase
    <3> QED BY <1>3, <3>1 DEF Closed
  <2>2. \A s \in Steps : ~task'[s].final
    BY <2>1, FinalSteps DEF MarkFinal
  <2>3. marker'.final = {}
    <3>1. CASE LoadRecovered
      BY <2>1, <3>1 DEF LoadRecovered
    <3>2. CASE marker' = marker \/ marker' = NoMarker
      BY <2>1, <3>2 DEF NoMarker
    <3>3. CASE marker' = [marker EXCEPT !.pc = "load"]
      BY <2>1, <3>3 DEF Shape, MarkerType
    <3> QED
      BY <3>1, <3>2, <3>3, SpecialistFrame, TasksFrame, FailsFrame
         DEF Next, Director, Startup, CheckReceipt, SavePlan, LoadTasks, SelectSteps, Gathered, Synthesise,
         Review, SaveHandoff, Complete, LoadFinal, MarkFinal, Start,
         ResumeWorkflow, MarkRecovered, Stop, DeleteConversation, vars, memory
  <2>4. checkpoint'.stage # "completed"
    <3>1. CASE CheckReceipt
      BY <2>1, <3>1 DEF CheckReceipt
    <3>2. CASE SavePlan \/ Synthesise \/ Review
      <4>1. /\ checkpoint.stage # "completed" /\ checkpoint \in CheckpointType
        BY <2>1 DEF Shape
      <4>2. CASE SavePlan
        BY <4>1, <4>2 DEF SavePlan, CheckpointType
      <4>3. CASE Synthesise
        BY <4>1, <4>3 DEF Synthesise, CheckpointType
      <4>4. CASE Review
        BY <4>1, <4>4 DEF Review, CheckpointType
      <4> QED BY <3>2, <4>2, <4>3, <4>4
    <3>3. CASE Complete
      BY <2>1, <3>3 DEF Complete
    <3>4. CASE DeleteConversation
      BY <2>1, <3>4 DEF DeleteConversation
    <3> QED BY <1>3, <2>1, <3>1, <3>2, <3>3, <3>4, RecordsFrame
  <2>5. workflow'.pc \notin {"complete", "finalise", "mark"}
    <3>1. ASSUME Director
          PROVE  workflow'.pc \notin {"complete", "finalise", "mark"}
      BY <1>3, <2>1, <3>1 DEF Director, CheckReceipt, SavePlan, LoadTasks,
         SelectSteps, Gathered, Synthesise, Review, Complete, LoadFinal,
         MarkFinal, Goto, Shape, WorkflowType
    <3>2. ~Director => workflow' = workflow
                       \/ workflow'.pc \in {"off", "receipt", "raised"}
      BY WorkflowFrame
    <3> QED BY <2>1, <3>1, <3>2
  <2> QED BY <2>2, <2>3, <2>4, <2>5 DEF Closed
<1> QED BY <1>1, <1>2, <1>3

LEMMA ReviewedNext ==
    ASSUME Shape, Delivered, Reviewed, [Next]_vars
    PROVE  Reviewed'
<1>0. flags' = flags
  BY ReceiptSteps
<1> SUFFICES ASSUME flags.checkpoints PROVE Reviewed'
  BY <1>0 DEF Reviewed
<1>1. flags.handoffs
  BY DEF Shape
<1>2. workflow.pc \in {"review", "handoff", "synthesis", "plan"} =>
        ~receipt /\ messages = <<>>
  BY <1>1 DEF Delivered
<1> USE DEF Reviewed, Stored
<1>3. CASE Synthesise
  <2>1. /\ workflow.pc = "synthesis" /\ workflow'.pc = "review"
        /\ workflow'.loaded = checkpoint.stage /\ messages' = messages
        /\ checkpoint'.stage =
             IF checkpoint.stage \in {"synthesized", "reviewed", "completed"}
             THEN checkpoint.stage ELSE "synthesized"
    BY <1>3 DEF Synthesise, Shape, WorkflowType, CheckpointType
  <2> QED BY <1>2, <2>1
<1>4. CASE Review
  <2>1. PICK reviewed \in {0, Run} :
          LET stored == workflow.loaded \in {"reviewed", "completed"}
              text   == IF stored THEN checkpoint.result
                        ELSE [workflow.text EXCEPT !.reviewed = reviewed]
          IN  /\ workflow' = [workflow EXCEPT !.pc = "handoff", !.text = text]
              /\ checkpoint' = IF checkpoint.stage = "synthesized"
                               THEN [checkpoint EXCEPT !.stage = "reviewed",
                                                       !.result = text]
                               ELSE checkpoint
    BY <1>4 DEF Review
  <2>2. workflow.pc = "review" /\ messages' = messages
    BY <1>4 DEF Review
  <2> DEFINE text == IF workflow.loaded \in {"reviewed", "completed"}
                     THEN checkpoint.result
                     ELSE [workflow.text EXCEPT !.reviewed = reviewed]
  <2>3. workflow'.pc = "handoff" /\ workflow'.text = text
    BY <2>1 DEF Shape, WorkflowType
  <2>4. CASE checkpoint.stage = "synthesized"
    <3>1. checkpoint'.stage = "reviewed" /\ checkpoint'.result = text
      BY <2>1, <2>4 DEF Shape, CheckpointType
    <3> QED BY <1>2, <2>2, <2>3, <3>1
  <2>5. CASE checkpoint.stage # "synthesized"
    <3>1. checkpoint' = checkpoint /\ text = checkpoint.result
          /\ checkpoint.stage \in {"reviewed", "completed"}
      BY <2>1, <2>2, <2>5
    <3> QED BY <1>2, <2>2, <2>3, <3>1
  <2> QED BY <2>4, <2>5
<1>5. CASE SaveHandoff
  <2>1. /\ workflow.pc = "handoff" /\ workflow'.pc = "complete"
        /\ checkpoint' = checkpoint
        /\ messages' \in {<<>>, Append(<<>>, workflow.text)}
    BY <1>2, <1>5 DEF SaveHandoff, NoWorkflow
  <2>2. \A i \in 1..Len(messages') : messages'[i] = workflow.text
    BY <2>1
  <2> QED BY <2>1, <2>2
<1>6. CASE CheckReceipt \/ Complete
  <2>1. /\ messages' = messages /\ workflow'.pc \in {"plan", "finalise"}
        /\ checkpoint'.result = checkpoint.result
        /\ checkpoint.stage \in {"reviewed", "completed"} =>
             checkpoint'.stage \in {"reviewed", "completed"}
    BY <1>6 DEF CheckReceipt, Complete, Goto, Shape, WorkflowType,
       CheckpointType
  <2> QED BY <2>1
<1>7. CASE SavePlan
  <2>1. /\ messages' = messages /\ workflow'.pc = "tasks"
        /\ workflow.pc = "plan"
    BY <1>7 DEF SavePlan, Goto, Shape, WorkflowType
  <2> QED BY <1>2, <2>1
<1>8. CASE ~Synthesise /\ ~Review /\ ~SaveHandoff /\ ~CheckReceipt
           /\ ~Complete /\ ~SavePlan
  <2>1. checkpoint' = checkpoint /\ messages' = messages
    BY <1>8, RecordsFrame DEF DeleteConversation
  <2>2. workflow' = workflow \/ workflow'.pc \notin {"review", "handoff"}
    <3>1. CASE Director
      <4>1. CASE SelectSteps
        BY <4>1 DEF SelectSteps, Shape, WorkflowType
      <4>2. CASE LoadTasks \/ Gathered \/ LoadFinal
        <5>1. workflow \in WorkflowType
          BY DEF Shape
        <5>2. CASE LoadTasks
          BY <5>1, <5>2 DEF LoadTasks, Goto, WorkflowType
        <5>3. CASE Gathered
          BY <5>1, <5>3 DEF Gathered, WorkflowType
        <5>4. CASE LoadFinal
          BY <5>1, <5>4 DEF LoadFinal, WorkflowType
        <5> QED BY <4>2, <5>2, <5>3, <5>4
      <4>3. CASE MarkFinal
        BY <4>3 DEF MarkFinal, NoWorkflow
      <4> QED BY <1>8, <3>1, <4>1, <4>2, <4>3 DEF Director
    <3>2. CASE ~Director
      BY <3>2, WorkflowFrame
    <3> QED BY <3>1, <3>2
  <2> QED BY <2>1, <2>2
<1> QED BY <1>3, <1>4, <1>5, <1>6, <1>7, <1>8

-----------------------------------------------------------------------------
(* No tool is replayed by the Director.                                    *)

\* A step that is about to retry found a failure without tools, or the user
\* has taken the task over.
RetrySafe ==
    \A s \in Steps : flags.handoffs /\ step[s].pc = "retry" =>
        \/ task[s].byUser
        \/ task[s].status = "failed" /\ ~task[s].tools

LEMMA RetrySafeNext ==
    ASSUME Shape, Lifecycle, RetrySafe, [Next]_vars
    PROVE  RetrySafe'
<1> SUFFICES ASSUME NEW s \in Steps, flags'.handoffs, step'[s].pc = "retry"
             PROVE  \/ task'[s].byUser
                    \/ task'[s].status = "failed" /\ ~task'[s].tools
  BY DEF RetrySafe
<1>1. flags' = flags
  BY RecordsFrame
<1>2. CASE SeeEnd(s)
  <2>1. \/ step'[s].pc = "returned"
        \/ task[s].status = "failed" /\ ~task[s].tools
    BY <1>1, <1>2, StepReturns DEF SeeEnd, Outcomes, Shape
  <2>2. task' = task
    BY <1>2 DEF SeeEnd, rows
  <2> QED BY <2>1, <2>2
<1>3. CASE ~SeeEnd(s)
  <2>1. step[s].pc = "retry" /\ ~CreateTask(s) /\ ~RetryTask(s)
    <3>1. CASE Specialist(s) \/ StepFails(s)
      <4>1. ASSUME NEW p, NEW r \in Steps, StepGoto(r, p), r = s
            PROVE  step'[s].pc = p
        BY <4>1 DEF StepGoto, NoStep, Shape
      <4>2. ASSUME NEW o, Return(s, o) PROVE step'[s].pc = "returned"
        BY <4>2 DEF Return, NoStep, Shape
      <4>3. ASSUME Raise(s) PROVE step'[s].pc = "off"
        BY <4>3 DEF Raise, NoStep, Shape
      <4> QED
        BY <1>3, <3>1, <4>1, <4>2, <4>3 DEF Specialist, Resume,
           SpecialistUnavailable, CreateTask, Enqueue, SeeSecondEnd, RetryTask,
           RetryMoot, RetryRefused, StepFails
    <3>2. CASE ~Specialist(s) /\ ~StepFails(s)
      <4>1. ~CreateTask(s) /\ ~RetryTask(s)
        BY <3>2 DEF Specialist
      <4>2. CASE \E r \in Steps : Specialist(r) \/ StepFails(r)
        BY <3>2, <4>2, <4>1, SpecialistFrame
      <4>3. CASE \E r \in Steps : Dispatcher(r) \/ UseTool(r) \/ User(r)
        BY <4>3, <4>1, TasksFrame
      <4>4. CASE LoadTasks
        BY <4>4 DEF LoadTasks, NoStep
      <4>5. CASE SelectSteps
        BY <4>1, <4>5 DEF SelectSteps, Shape, StepType
      <4>6. CASE Gathered
        BY <4>1, <4>6 DEF Gathered, NoStep
      <4>7. CASE Stop
        BY <4>7 DEF Stop, NoStep
      <4>8. CASE step' = step
        BY <4>1, <4>8
      <4>9. CASE WorkflowFails
        BY <4>1, <4>9, FailsFrame
      <4> QED
        BY <4>2, <4>3, <4>4, <4>5, <4>6, <4>7, <4>8, <4>9 DEF Next, Director, Startup,
           CheckReceipt, SavePlan, Synthesise, Review, SaveHandoff, Complete,
           LoadFinal, MarkFinal, Start, ResumeWorkflow, LoadRecovered,
           MarkRecovered, DeleteConversation, vars, memory
    <3> QED BY <3>1, <3>2
  <2> QED BY <1>1, <2>1, TaskSteps DEF RetrySafe
<1> QED BY <1>2, <1>3

-----------------------------------------------------------------------------
(* The invariant, and what follows from it.                                *)

DirectorInv ==
    /\ Shape /\ Lifecycle /\ Fresh /\ Claims
    /\ Delivered /\ Closed /\ Reviewed /\ RetrySafe

LEMMA DirectorInvInit == Init => DirectorInv
<1> SUFFICES ASSUME Init PROVE DirectorInv
  OBVIOUS
<1>1. Delivered /\ Reviewed /\ RetrySafe
  BY DEF Init, Delivered, Reviewed, RetrySafe, NoStep, NoWorkflow, Launched
<1>2. Closed
  BY DEF Init, Closed, NoTask, NoMarker, NoCheckpoint, NoWorkflow, Launched
<1> QED
  BY <1>1, <1>2, ShapeInit, FreshInit, ClaimsInit DEF DirectorInv

LEMMA DirectorInvNext == DirectorInv /\ [Next]_vars => DirectorInv'
  BY ShapeNext, LifecycleNext, FreshNext, ClaimsNext, DeliveredNext, ClosedNext,
     ReviewedNext, RetrySafeNext DEF DirectorInv

LEMMA DirectorInvAlways == Spec => []DirectorInv
  BY DirectorInvInit, DirectorInvNext, PTL DEF Spec

\* The conversation is told the text that was stored as reviewed.
THEOREM HandoffAlwaysReviewed == Spec => []HandoffAsReviewed
<1>1. DirectorInv => HandoffAsReviewed
  <2> SUFFICES ASSUME DirectorInv, NEW i \in 1..Len(messages),
                      flags.checkpoints
               PROVE  Stored({"reviewed", "completed"})
                      /\ messages[i] = checkpoint.result
    BY DEF HandoffAsReviewed
  <2>1. messages # <<>>
    OBVIOUS
  <2> QED BY <2>1 DEF DirectorInv, Reviewed, Stored
<1> QED BY <1>1, DirectorInvAlways, PTL

\* A workflow is marked as over only when its handoff is in the database.
THEOREM OverAlwaysAnswered == Spec => []OverIsAnswered
<1>1. DirectorInv => OverIsAnswered
  BY DEF DirectorInv, Closed, InDatabase, OverIsAnswered
<1> QED BY <1>1, DirectorInvAlways, PTL

\* A committed receipt ends the work of the Director.
THEOREM ReceiptEndsAllWork == Spec => ReceiptEndsWork
<1>1. DirectorInv /\ [Next]_vars =>
        [receipt => /\ created' = created
                    /\ ~\E s \in Steps : RetryTask(s)
                    /\ checkpoint'.synthesis = checkpoint.synthesis
                    /\ messages' = messages]_vars
  <2> SUFFICES ASSUME DirectorInv, [Next]_vars, receipt
               PROVE  /\ created' = created
                      /\ ~\E s \in Steps : RetryTask(s)
                      /\ checkpoint'.synthesis = checkpoint.synthesis
                      /\ messages' = messages
    OBVIOUS
  <2> USE DEF DirectorInv
  <2>1. \A s \in Steps : ~Specialist(s) /\ ~StepFails(s)
    BY ReceiptQuiet
  <2>2. \A s \in Steps : ~RetryTask(s) /\ ~CreateTask(s)
    BY <2>1 DEF Specialist
  <2>3. created' = created
    BY <2>2, TaskSteps, RecordsFrame, ShapeNext DEF Shape
  <2>4. messages' = messages
    BY ReceiptSteps
  <2>5. checkpoint'.synthesis = checkpoint.synthesis
    <3>1. ~Synthesise
      BY DEF Synthesise, Delivered
    <3> QED
      BY <3>1, RecordsFrame DEF CheckReceipt, SavePlan, Review, SaveHandoff,
         Complete, DeleteConversation, Shape, CheckpointType
  <2> QED BY <2>2, <2>3, <2>4, <2>5
<1> QED BY <1>1, DirectorInvAlways, PTL DEF Spec, ReceiptEndsWork

\* With durable handoffs the Director never runs a tool again on its own.
THEOREM ToolsNotReplayed == Spec => NoToolReplay
<1>1. DirectorInv =>
        [\A s \in Steps : flags.handoffs /\ RetryTask(s) =>
            ~task[s].tools \/ task[s].byUser]_vars
  BY DEF DirectorInv, RetrySafe, RetryTask, At
<1> QED BY <1>1, DirectorInvAlways, PTL DEF NoToolReplay

\* The workflow answers as AnswerOnce promises: the handoffs of the database,
\* once they are there, are there for good.
THEOREM HandoffAnswersOnce == Spec => AnsweredOnce
<1> DEFINE answer == [w \in {"workflow"} |->
                         IF flags.handoffs /\ (receipt \/ messages # <<>>)
                         THEN {messages} ELSE {}]
<1>1. Init => Handoff!Init
  <2> SUFFICES ASSUME Init PROVE answer = [r \in {"workflow"} |-> {}]
    BY DEF Handoff!Init
  <2>1. receipt = FALSE /\ messages = <<>>
    BY DEF Init
  <2> QED BY <2>1
<1>2. DirectorInv /\ [Next]_vars => [Handoff!Next]_answer
  <2> SUFFICES ASSUME DirectorInv, [Next]_vars
               PROVE  answer' = answer \/ Handoff!Answer("workflow")
    BY DEF Handoff!Next
  <2> USE DEF DirectorInv
  <2>1. flags' = flags
    BY ReceiptSteps
  <2>2. CASE ~flags.handoffs \/ receipt
    BY <2>1, <2>2, ReceiptSteps
  <2>3. CASE flags.handoffs /\ ~receipt
    <3>1. messages = <<>>
      BY <2>3 DEF Delivered
    <3>2. answer = [w \in {"workflow"} |-> {}]
      BY <2>3, <3>1
    <3>3. CASE ~receipt' /\ messages' = <<>>
      BY <3>2, <3>3
    <3>4. CASE receipt' \/ messages' # <<>>
      <4>1. answer' = [w \in {"workflow"} |-> {messages'}]
        BY <2>1, <2>3, <3>4
      <4>2. messages' \in Seq(Texts)
        BY ShapeNext DEF Shape
      <4>3. {messages'} \in (SUBSET Seq(Texts)) \ {{}}
        BY <4>2
      <4> QED BY <3>2, <4>1, <4>3 DEF Handoff!Answer
    <3> QED BY <3>3, <3>4
  <2> QED BY <2>2, <2>3
<1> QED
  BY <1>1, <1>2, DirectorInvAlways, PTL DEF Spec, AnsweredOnce, Handoff!Spec
=============================================================================
