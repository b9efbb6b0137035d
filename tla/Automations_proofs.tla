-------------------------- MODULE Automations_proofs --------------------------
(***************************************************************************)
(* Theorems of Automations: any number of runs, of concurrent requests, of *)
(* edits and crashes, any grace and any number of parallel runs.           *)
(***************************************************************************)
EXTENDS Automations, FiniteSetTheorems, TLAPS

-----------------------------------------------------------------------------
(* The inductive invariant.                                                *)

OpPcs  == {"idle", "load", "off", "clear", "miss", "rerun", "spawn", "add",
           "store", "unschedule"}
RunPcs == {"none", "queued", "admitted", "working", "worked", "settled",
           "looked"}
OpType  == [pc : OpPcs, seen : RowType, next : Times]
RunType == [pc : RunPcs, trigger : {"none", "scheduled", "recovered", "manual"},
            seen : RowType, next : Times]
HistoryType == [starts : Nat, served : BOOLEAN, forgotten : BOOLEAN,
                edited : BOOLEAN, overslept : BOOLEAN]

Typed ==
    /\ scene \in Scenes /\ now \in 0..MaxTime /\ up \in BOOLEAN
    /\ row \in RowType /\ job \in Times
    /\ op \in [Ops -> OpType]
    /\ run \in [Runs -> RunType]
    /\ history \in HistoryType
    /\ row.enabled => row.exists

\* Nothing but the row survives Core.
Dead == ~up => /\ job = Never
               /\ \A r \in Runs : ~Active(r)
               /\ \A o \in Ops : At(o, "idle")
               /\ history.starts = 0

\* The semaphore.
Held == IsFiniteSet(Holders) /\ Cardinality(Holders) <= Parallel

\* A run that was not asked for by the user.
Own(r) == Active(r) /\ run[r].trigger # "manual"

\* Only the start of Core looks for a run that was missed.
Courses ==
    \A o \in Ops : /\ op[o].pc \in {"clear", "miss", "rerun", "spawn"} => o = "start"
                   /\ Once => op[o].pc # "rerun"

\* While Core starts it serves nobody, and fires nothing before the job is back.
Starting ==
    ~At("start", "idle") =>
        /\ \A o \in Ops \ {"start"} : At(o, "idle")
        /\ Once /\ ~At("start", "store") =>
            /\ job = Never /\ history.starts = 0
            /\ \A r \in Runs : ~Own(r)

\* The job has one instance.
Scheduled(r) == Active(r) /\ run[r].trigger = "scheduled"
Single == \A r, q \in Runs : Scheduled(r) /\ Scheduled(q) => r = q

\* A run that was recovered is alone, and nobody puts the job back.
Alone ==
    Once /\ ~history.edited =>
        \A r \in Runs : Own(r) /\ ~Scheduled(r) =>
            /\ run[r].trigger = "recovered"
            /\ job = Never
            /\ \A o \in Ops : op[o].pc \in {"idle", "unschedule"}
            /\ \A q \in Runs : Own(q) => q = r

\* What has begun is the only run, until it has turned the automation off.
Turned ==
    Once /\ ~history.edited /\ history.starts # 0 =>
        /\ history.starts = 1
        /\ \A r \in Runs : Own(r) => run[r].pc # "admitted"
        /\ row.enabled =>
            \E r \in Runs : /\ Own(r) /\ run[r].pc \in {"working", "worked"}
                            /\ run[r].pc = "worked" => run[r].seen.enabled
                            /\ \A q \in Runs : Own(q) => q = r

AutomationInv ==
    Typed /\ Dead /\ Held /\ Courses /\ Starting /\ Single /\ Alone /\ Turned

-----------------------------------------------------------------------------
(* What the steps do.                                                      *)

LEMMA Places ==
    /\ Never \in Times /\ MaxTime \in Nat
    /\ NoRow \in RowType /\ NoOp \in OpType /\ NoRun \in RunType
    /\ "start" \in Ops
  BY AutomationsAssumption
     DEF Times, NoRow, NoOp, NoRun, RowType, OpType, RunType, OpPcs, RunPcs, Ops

LEMMA Going ==
    ASSUME Typed, NEW o \in Ops, NEW p \in OpPcs, Goto(o, p)
    PROVE  /\ op' \in [Ops -> OpType] /\ op'[o].pc = p
           /\ \A q \in Ops \ {o} : op'[q] = op[q]
<1> DEFINE new == IF p = "idle" THEN NoOp ELSE [op[o] EXCEPT !.pc = p]
<1>1. op[o] \in OpType
  BY DEF Typed
<1>2. op' = [op EXCEPT ![o] = new]
  BY DEF Goto
<1>3. new \in OpType /\ new.pc = p
  BY <1>1, Places DEF OpType, NoOp
<1> HIDE DEF new
<1> QED BY <1>2, <1>3 DEF Typed

LEMMA Loading ==
    ASSUME Typed, NEW o \in Ops, Load(o)
    PROVE  /\ op' \in [Ops -> OpType] /\ op'[o].pc = Course(o)
           /\ \A q \in Ops \ {o} : op'[q] = op[q]
<1> DEFINE new == IF Course(o) = "idle" THEN NoOp
                  ELSE [op[o] EXCEPT !.pc = Course(o), !.seen = row]
<1>1. op[o] \in OpType /\ row \in RowType
  BY DEF Typed
<1>2. op' = [op EXCEPT ![o] = new]
  BY DEF Load
<1>3. Course(o) \in OpPcs
  BY DEF Course, OpPcs
<1>4. new \in OpType /\ new.pc = Course(o)
  BY <1>1, <1>3, Places DEF OpType, NoOp
<1> HIDE DEF new
<1> QED BY <1>2, <1>4 DEF Typed

\* A run that is spawned takes a free slot.
LEMMA Spawning ==
    ASSUME Typed, NEW trigger \in {"scheduled", "recovered", "manual"},
           Spawn(trigger)
    PROVE  /\ run' \in [Runs -> RunType]
           /\ \E r \in Runs :
                /\ ~Active(r)
                /\ run'[r].pc = "queued" /\ run'[r].trigger = trigger
                /\ \A q \in Runs \ {r} : run'[q] = run[q]
<1>1. PICK r \in Runs :
        /\ ~Active(r)
        /\ run' = [run EXCEPT ![r] = [NoRun EXCEPT !.pc = "queued",
                                                   !.trigger = trigger]]
  BY DEF Spawn
<1> DEFINE new == [NoRun EXCEPT !.pc = "queued", !.trigger = trigger]
<1>2. new \in RunType /\ new.pc = "queued" /\ new.trigger = trigger
  BY Places DEF RunType, RunPcs
<1> HIDE DEF new
<1>3. run' = [run EXCEPT ![r] = new]
  BY <1>1 DEF new
<1> QED BY <1>1, <1>2, <1>3 DEF Typed

LEMMA Entering ==
    ASSUME Typed, NEW r \in Runs, NEW p \in RunPcs, Enter(r, p)
    PROVE  /\ run' \in [Runs -> RunType]
           /\ run'[r].pc = p /\ run'[r].trigger = run[r].trigger
           /\ \A q \in Runs \ {r} : run'[q] = run[q]
<1> DEFINE new == [run[r] EXCEPT !.pc = p]
<1>1. run[r] \in RunType
  BY DEF Typed
<1>2. run' = [run EXCEPT ![r] = new]
  BY DEF Enter
<1>3. new \in RunType /\ new.pc = p /\ new.trigger = run[r].trigger
  BY <1>1 DEF RunType
<1> HIDE DEF new
<1> QED BY <1>2, <1>3 DEF Typed

\* A run goes on by one of its own steps.
LEMMA Running ==
    ASSUME Typed, NEW r \in Runs, RunStep(r)
    PROVE  /\ run' \in [Runs -> RunType] /\ Active(r)
           /\ \A q \in Runs \ {r} : run'[q] = run[q]
           /\ \/ Leave(r) /\ run'[r] = NoRun
              \/ Work(r) /\ run'[r].trigger = run[r].trigger
                 /\ \/ row.exists /\ run'[r].pc = "worked" /\ run'[r].seen = row
                    \/ ~row.exists /\ run'[r].pc = "settled"
              \/ Admit(r) /\ run'[r].trigger = run[r].trigger
                 /\ \/ /\ run'[r].pc = "admitted"
                       /\ run[r].trigger = "manual" \/ row.enabled
                    \/ run'[r].pc = "settled"
              \/ Begin(r) /\ run'[r].trigger = run[r].trigger
                 /\ \/ row.exists /\ run'[r].pc = "working"
                    \/ ~row.exists /\ run'[r].pc = "settled"
              \/ Finish(r) /\ run'[r].trigger = run[r].trigger
                 /\ run'[r].pc = "settled"
              \/ Look(r) /\ run'[r].trigger = run[r].trigger
                 /\ run'[r].pc = "looked"
<1>0. run[r] \in RunType /\ row \in RowType /\ job \in Times
  BY DEF Typed
<1>1. CASE Admit(r)
  <2>1. /\ run[r].pc = "queued"
        /\ \/ Enter(r, "admitted") /\ (run[r].trigger = "manual" \/ row.enabled)
           \/ Enter(r, "settled")
    BY <1>1 DEF Admit
  <2> QED BY <1>1, <2>1, Entering DEF Active, RunPcs
<1>2. CASE Begin(r)
  <2>1. /\ run[r].pc = "admitted"
        /\ \/ Enter(r, "working") /\ row.exists
           \/ Enter(r, "settled") /\ ~row.exists
    BY <1>2 DEF Begin
  <2> QED BY <1>2, <2>1, Entering DEF Active, RunPcs
<1>3. CASE Work(r)
  <2> DEFINE new == [run[r] EXCEPT
                        !.pc = IF row.exists THEN "worked" ELSE "settled",
                        !.seen = IF row.exists THEN row ELSE NoRow]
  <2>1. run' = [run EXCEPT ![r] = new] /\ run[r].pc = "working"
    BY <1>0, <1>3 DEF Work, RunType
  <2>2. /\ new \in RunType /\ new.trigger = run[r].trigger
        /\ \/ row.exists /\ new.pc = "worked" /\ new.seen = row
           \/ ~row.exists /\ new.pc = "settled"
    BY <1>0, Places DEF RunType, RunPcs
  <2> HIDE DEF new
  <2> QED BY <1>3, <2>1, <2>2 DEF Typed, Active
<1>4. CASE Finish(r)
  <2> DEFINE new == [run[r] EXCEPT !.pc = "settled", !.seen = NoRow]
  <2>1. run' = [run EXCEPT ![r] = new] /\ run[r].pc = "worked"
    BY <1>0, <1>4 DEF Finish, RunType
  <2>2. new \in RunType /\ new.trigger = run[r].trigger /\ new.pc = "settled"
    BY <1>0, Places DEF RunType, RunPcs
  <2> HIDE DEF new
  <2> QED BY <1>4, <2>1, <2>2 DEF Typed, Active
<1>5. CASE Look(r)
  <2> DEFINE new == [run[r] EXCEPT !.pc = "looked", !.next = job]
  <2>1. run' = [run EXCEPT ![r] = new] /\ run[r].pc = "settled"
    BY <1>0, <1>5 DEF Look, RunType
  <2>2. new \in RunType /\ new.trigger = run[r].trigger /\ new.pc = "looked"
    BY <1>0 DEF RunType, RunPcs
  <2> HIDE DEF new
  <2> QED BY <1>5, <2>1, <2>2 DEF Typed, Active
<1>6. CASE Leave(r)
  <2>1. run' = [run EXCEPT ![r] = NoRun] /\ run[r].pc = "looked"
    BY <1>6 DEF Leave
  <2> QED BY <1>6, <2>1, Places DEF Typed, Active
<1> QED BY <1>1, <1>2, <1>3, <1>4, <1>5, <1>6 DEF RunStep

-----------------------------------------------------------------------------
(* Type correctness.                                                       *)

LEMMA Clock ==
    ASSUME Typed
    PROVE  now \in Times /\ now + 1 \in Times /\ scene.at \in Times
           /\ scene.at \in 0..MaxTime
  BY AutomationsAssumption DEF Typed, Times

LEMMA TypedOp ==
    ASSUME AutomationInv, NEW o \in Ops, OpStep(o)
    PROVE  Typed'
<1> USE Places DEF AutomationInv
<1>0. row \in RowType /\ op[o] \in OpType /\ (row.enabled => row.exists)
  BY DEF Typed
<1>1. CASE Load(o)
  BY <1>1, Loading DEF Load, Typed
<1>2. CASE Clear(o)
  <2>1. op' \in [Ops -> OpType]
    BY <1>2, Going DEF Clear, OpPcs
  <2>2. row' \in RowType /\ (row'.enabled => row'.exists)
    BY <1>0, <1>2 DEF Clear, RowType
  <2> QED BY <1>2, <2>1, <2>2 DEF Clear, Typed
<1>3. CASE Recover(o)
  <2>1. op' \in [Ops -> OpType]
    BY <1>3, Going DEF Recover, OpPcs
  <2>2. run' \in [Runs -> RunType]
    BY <1>3, Spawning DEF Recover
  <2> QED BY <1>3, <2>1, <2>2 DEF Recover, Typed
<1>4. CASE Add(o)
  <2>1. job' \in Times
    BY <1>0, <1>4, Clock DEF Add, OpType, RowType
  <2>2. [pc |-> "store", seen |-> NoRow, next |-> job'] \in OpType
    BY <2>1 DEF OpType, OpPcs
  <2>3. op' \in [Ops -> OpType]
    BY <1>4, <2>2 DEF Add, Typed
  <2> QED BY <1>4, <2>1, <2>3 DEF Add, Typed
<1>5. CASE Store(o)
  <2>1. op' \in [Ops -> OpType]
    BY <1>5, Going DEF Store, OpPcs
  <2>2. row' \in RowType /\ (row'.enabled => row'.exists)
    BY <1>0, <1>5 DEF Store, RowType, OpType
  <2> QED BY <1>5, <2>1, <2>2 DEF Store, Typed
<1>6. CASE Unschedule(o)
  <2>1. op' \in [Ops -> OpType]
    BY <1>6, Going DEF Unschedule, OpPcs
  <2> QED BY <1>6, <2>1 DEF Unschedule, Typed
<1> QED BY <1>1, <1>2, <1>3, <1>4, <1>5, <1>6 DEF OpStep

LEMMA TypedRun ==
    ASSUME AutomationInv, NEW r \in Runs, RunStep(r)
    PROVE  Typed'
<1> USE DEF AutomationInv
<1>0. /\ row \in RowType /\ run[r] \in RunType /\ (row.enabled => row.exists)
      /\ history \in HistoryType
  BY DEF Typed
<1>1. run' \in [Runs -> RunType]
  BY Running
<1>2. row' \in RowType /\ (row'.enabled => row'.exists)
  <2>1. CASE Begin(r)
    BY <1>0, <2>1 DEF Begin, RowType
  <2>2. CASE Finish(r)
    <3>1. CASE row' = row
      BY <1>0, <3>1
    <3>2. CASE row' # row
      <4>1. \E on \in BOOLEAN, next \in Times :
                /\ row' = [row EXCEPT !.status = "over", !.enabled = on, !.next = next]
                /\ on => row.enabled
        <5>1. row' = [row EXCEPT
                    !.status = "over",
                    !.enabled = IF (Once /\ run[r].trigger # "manual")
                                   /\ run[r].seen.enabled THEN FALSE
                                ELSE row.enabled,
                    !.next = IF (Once /\ run[r].trigger # "manual")
                                /\ run[r].seen.next # Never THEN Never
                             ELSE row.next]
          BY <2>2, <3>2 DEF Finish
        <5> QED BY <1>0, <5>1, Places DEF RowType
      <4> QED BY <1>0, <4>1 DEF RowType
    <3> QED BY <3>1, <3>2
  <2>3. CASE Leave(r)
    BY <1>0, <2>3 DEF Leave, RowType, RunType
  <2>4. CASE Admit(r) \/ Work(r) \/ Look(r)
    BY <1>0, <2>4 DEF Admit, Work, Look
  <2> QED BY <2>1, <2>2, <2>3, <2>4 DEF RunStep
<1>3. history' \in HistoryType
  <2>1. CASE Begin(r)
    <3>1. [history EXCEPT !.starts = history.starts + 1, !.served = TRUE]
              \in HistoryType
      <4>1. history.starts + 1 \in Nat
        BY <1>0 DEF HistoryType
      <4> QED BY <1>0, <4>1 DEF HistoryType
    <3>2. \/ history' = [history EXCEPT !.starts = history.starts + 1,
                                        !.served = TRUE]
          \/ history' = history
      BY <2>1 DEF Begin
    <3> QED BY <1>0, <3>1, <3>2
  <2>2. CASE ~Begin(r)
    BY <1>0, <2>2 DEF RunStep, Admit, Work, Finish, Look, Leave
  <2> QED BY <2>1, <2>2
<1>4. UNCHANGED <<scene, now, up, job, op>>
  BY DEF RunStep, Admit, Begin, Work, Finish, Look, Leave
<1> QED BY <1>1, <1>2, <1>3, <1>4 DEF Typed

LEMMA TypedRest ==
    ASSUME AutomationInv,
           \/ \E o \in Ops : Edit(o) \/ Delete(o)
           \/ Fire \/ RunNow \/ Tick \/ Crash \/ Start
    PROVE  Typed'
<1> USE Places DEF AutomationInv
<1>0. /\ row \in RowType /\ (row.enabled => row.exists)
      /\ history \in HistoryType
  BY DEF Typed
<1>1. ASSUME NEW o \in Ops, Edit(o) PROVE Typed'
  <2>1. op' \in [Ops -> OpType]
    BY <1>1, Going DEF Edit, OpPcs
  <2>2. CASE \E time \in (now + 1)..MaxTime :
            /\ Once /\ row' = [row EXCEPT !.at = time]
            /\ history' = [NoHistory EXCEPT !.forgotten = history.forgotten,
                                            !.edited = Begun]
    <3>1. PICK time \in Times : row' = [row EXCEPT !.at = time]
      BY <2>2, AutomationsAssumption DEF Typed, Times
    <3>2. row' \in RowType /\ (row'.enabled => row'.exists)
      BY <1>0, <3>1 DEF RowType
    <3>3. Begun \in BOOLEAN
      BY DEF Begun, Due
    <3>4. history' \in HistoryType
      <4>1. NoHistory \in HistoryType /\ history.forgotten \in BOOLEAN
        BY <1>0 DEF HistoryType, NoHistory
      <4> QED BY <2>2, <3>3, <4>1 DEF HistoryType
    <3> QED BY <1>1, <2>1, <3>2, <3>4 DEF Edit, Typed
  <2>3. CASE \E on \in BOOLEAN :
            /\ row' = [row EXCEPT !.enabled = on]
            /\ history' = [history EXCEPT !.edited = history.edited \/ Begun]
    <3>1. row' \in RowType /\ (row'.enabled => row'.exists)
      BY <1>0, <1>1, <2>3 DEF RowType, Edit
    <3>2. Begun \in BOOLEAN
      BY DEF Begun, Due
    <3>3. history' \in HistoryType
      BY <1>0, <2>3, <3>2 DEF HistoryType
    <3> QED BY <1>1, <2>1, <3>1, <3>3 DEF Edit, Typed
  <2> QED BY <1>1, <2>2, <2>3 DEF Edit
<1>2. ASSUME NEW o \in Ops, Delete(o) PROVE Typed'
  <2>1. op' \in [Ops -> OpType]
    BY <1>2, Going DEF Delete, OpPcs
  <2> QED BY <1>2, <2>1 DEF Delete, Typed, NoRow
<1>3. CASE Fire
  <2>1. run' \in [Runs -> RunType]
    BY <1>3, Spawning DEF Fire, Typed
  <2> QED BY <1>3, <2>1, Clock DEF Fire, Typed
<1>4. CASE RunNow
  <2>1. run' \in [Runs -> RunType]
    BY <1>4, Spawning DEF RunNow
  <2> QED BY <1>4, <2>1 DEF RunNow, Typed
<1>5. CASE Tick
  <2>1. now' \in 0..MaxTime
    BY <1>5, AutomationsAssumption DEF Tick, Typed
  <2>2. \E b \in BOOLEAN : history' = [history EXCEPT !.overslept = b]
    <3>1. history.overslept \in BOOLEAN
      BY <1>0 DEF HistoryType
    <3> QED BY <1>5, <3>1 DEF Tick
  <2>3. history' \in HistoryType
    BY <1>0, <2>2 DEF HistoryType
  <2> QED BY <1>5, <2>1, <2>3 DEF Tick, Typed
<1>6. CASE Crash
  <2>1. history' \in HistoryType
    BY <1>0, <1>6 DEF Crash, HistoryType, RowType
  <2> QED BY <1>6, <2>1 DEF Crash, Typed
<1>7. CASE Start
  <2>1. op' \in [Ops -> OpType]
    BY <1>7, Going DEF Start, OpPcs
  <2> QED BY <1>7, <2>1 DEF Start, Typed
<1> QED BY <1>1, <1>2, <1>3, <1>4, <1>5, <1>6, <1>7

LEMMA TypedStep ==
    ASSUME AutomationInv, [Next]_vars
    PROVE  Typed'
<1>1. CASE UNCHANGED vars
  BY <1>1 DEF AutomationInv, Typed, vars
<1> QED BY <1>1, TypedOp, TypedRun, TypedRest DEF Next

-----------------------------------------------------------------------------
(* Who changes what.                                                       *)

LEMMA RunFrame ==
    ASSUME [Next]_vars
    PROVE  \/ UNCHANGED run \/ Fire \/ RunNow \/ Crash
           \/ \E o \in Ops : Recover(o)
           \/ \E r \in Runs : RunStep(r)
<1>1. ASSUME NEW o \in Ops, OpStep(o) \/ Edit(o) \/ Delete(o)
      PROVE  UNCHANGED run \/ Recover(o)
  BY <1>1 DEF OpStep, Load, Clear, Add, Store, Unschedule, Edit, Delete
<1>2. CASE Tick \/ Start \/ UNCHANGED vars
  BY <1>2 DEF Tick, Start, vars
<1> QED BY <1>1, <1>2 DEF Next

LEMMA OpFrame ==
    ASSUME [Next]_vars
    PROVE  \/ UNCHANGED op \/ Crash \/ Start
           \/ \E o \in Ops : OpStep(o) \/ Edit(o) \/ Delete(o)
<1>1. ASSUME NEW r \in Runs, RunStep(r) PROVE UNCHANGED op
  BY <1>1 DEF RunStep, Admit, Begin, Work, Finish, Look, Leave
<1>2. CASE Fire \/ RunNow \/ Tick \/ UNCHANGED vars
  BY <1>2 DEF Fire, RunNow, Tick, vars
<1> QED BY <1>1, <1>2 DEF Next

LEMMA JobFrame ==
    ASSUME [Next]_vars
    PROVE  \/ job' \in {job, Never} \/ Fire
           \/ \E o \in Ops : Add(o)
<1>1. ASSUME NEW r \in Runs, RunStep(r) PROVE UNCHANGED job
  BY <1>1 DEF RunStep, Admit, Begin, Work, Finish, Look, Leave
<1>2. ASSUME NEW o \in Ops, OpStep(o) \/ Edit(o) \/ Delete(o)
      PROVE  job' \in {job, Never} \/ Add(o)
  BY <1>2 DEF OpStep, Load, Clear, Recover, Store, Unschedule, Edit, Delete
<1>3. CASE RunNow \/ Tick \/ Crash \/ Start
  BY <1>3 DEF RunNow, Tick, Crash, Start
<1>4. CASE UNCHANGED vars
  BY <1>4 DEF vars
<1> QED BY <1>1, <1>2, <1>3, <1>4 DEF Next

\* The clock may find that the automation has overslept, and no more.
LEMMA Ticking ==
    ASSUME Typed, Tick
    PROVE  /\ history'.starts = history.starts
           /\ history'.edited = history.edited
  BY DEF Tick, Typed, HistoryType

LEMMA HistoryFrame ==
    ASSUME [Next]_vars
    PROVE  \/ UNCHANGED history \/ Crash \/ Tick
           \/ \E o \in Ops : Edit(o)
           \/ \E r \in Runs : Begin(r)
<1>1. ASSUME NEW r \in Runs, RunStep(r) PROVE UNCHANGED history \/ Begin(r)
  BY <1>1 DEF RunStep, Admit, Work, Finish, Look, Leave
<1>2. ASSUME NEW o \in Ops, OpStep(o) \/ Delete(o) PROVE UNCHANGED history
  BY <1>2 DEF OpStep, Load, Clear, Recover, Add, Store, Unschedule, Delete
<1>3. CASE Fire \/ RunNow \/ Start \/ UNCHANGED vars
  BY <1>3 DEF Fire, RunNow, Start, vars
<1> QED BY <1>1, <1>2, <1>3 DEF Next

LEMMA SceneFrame ==
    ASSUME [Next]_vars
    PROVE  scene' = scene /\ (Once' <=> Once)
<1> SUFFICES scene' = scene
  BY DEF Once
<1>1. ASSUME NEW r \in Runs, RunStep(r) PROVE UNCHANGED scene
  BY <1>1 DEF RunStep, Admit, Begin, Work, Finish, Look, Leave
<1>2. ASSUME NEW o \in Ops, OpStep(o) \/ Edit(o) \/ Delete(o)
      PROVE  UNCHANGED scene
  BY <1>2 DEF OpStep, Load, Clear, Recover, Add, Store, Unschedule, Edit, Delete
<1>3. CASE Fire \/ RunNow \/ Tick \/ Crash \/ Start
  BY <1>3 DEF Fire, RunNow, Tick, Crash, Start
<1>4. CASE UNCHANGED vars
  BY <1>4 DEF vars
<1> QED BY <1>1, <1>2, <1>3, <1>4 DEF Next

\* How a call of schedule_automation goes on.
LEMMA OpMoves ==
    ASSUME AutomationInv, NEW o \in Ops, OpStep(o)
    PROVE  /\ op[o].pc # "idle"
           /\ \A q \in Ops \ {o} : op'[q] = op[q]
           /\ \/ Load(o) /\ op'[o].pc = Course(o)
              \/ Clear(o) /\ op'[o].pc \in {"idle", "spawn"}
                 /\ (op'[o].pc = "spawn" => op[o].pc = "clear")
              \/ Recover(o) /\ op'[o].pc \in {"idle", "add"}
                 /\ (op'[o].pc = "add" => op[o].pc = "rerun")
              \/ Add(o) /\ op[o].pc = "add" /\ op'[o].pc = "store"
              \/ Store(o) /\ op'[o].pc = "idle"
              \/ Unschedule(o) /\ op[o].pc = "unschedule" /\ op'[o].pc = "idle"
<1> USE DEF AutomationInv
<1>1. CASE Load(o)
  BY <1>1, Loading DEF Load, At
<1>2. CASE Clear(o)
  <2>1. /\ op[o].pc \in {"off", "clear", "miss"}
        /\ Goto(o, "idle") \/ (Goto(o, "spawn") /\ op[o].pc = "clear")
    BY <1>2 DEF Clear, At
  <2> QED BY <1>2, <2>1, Going DEF OpPcs
<1>3. CASE Recover(o)
  <2>1. /\ op[o].pc \in {"spawn", "rerun"}
        /\ Goto(o, "idle") \/ (Goto(o, "add") /\ op[o].pc = "rerun")
    BY <1>3 DEF Recover, At
  <2> QED BY <1>3, <2>1, Going DEF OpPcs
<1>4. CASE Add(o)
  <2> DEFINE new == [pc |-> "store", seen |-> NoRow, next |-> job']
  <2>1. op' = [op EXCEPT ![o] = new] /\ new.pc = "store"
    BY <1>4 DEF Add
  <2> HIDE DEF new
  <2> QED BY <1>4, <2>1 DEF Add, At, Typed
<1>5. CASE Store(o)
  BY <1>5, Going DEF Store, At, OpPcs
<1>6. CASE Unschedule(o)
  BY <1>6, Going DEF Unschedule, At, OpPcs
<1> QED BY <1>1, <1>2, <1>3, <1>4, <1>5, <1>6 DEF OpStep

\* Where a run comes from.
Spawned(r) ==
    /\ ~Active(r) /\ run'[r].pc = "queued"
    /\ \A q \in Runs \ {r} : run'[q] = run[q]
    /\ \/ /\ run'[r].trigger = "scheduled" /\ Fire
          /\ ~Instance /\ job # Never
       \/ /\ run'[r].trigger = "recovered"
          /\ \E o \in Ops : Recover(o)
       \/ run'[r].trigger = "manual" /\ RunNow

LEMMA RunMoves ==
    ASSUME AutomationInv, [Next]_vars
    PROVE  \/ UNCHANGED run
           \/ Crash
           \/ \E r \in Runs : RunStep(r)
           \/ \E r \in Runs : Spawned(r)
<1> USE DEF AutomationInv
<1>1. CASE Fire
  <2>1. UNCHANGED run \/ (~Instance /\ Spawn("scheduled"))
    BY <1>1 DEF Fire
  <2>2. job # Never
    BY <1>1 DEF Fire, Due
  <2> QED BY <1>1, <2>1, <2>2, Spawning DEF Spawned
<1>2. CASE RunNow
  BY <1>2, Spawning DEF RunNow, Spawned
<1>3. ASSUME NEW o \in Ops, Recover(o) PROVE \E r \in Runs : Spawned(r)
  BY <1>3, Spawning DEF Recover, Spawned
<1> QED BY <1>1, <1>2, <1>3, RunFrame

\* A run keeps its trigger, and is not made Core's own.
LEMMA OwnMoves ==
    ASSUME AutomationInv, [Next]_vars, NEW r \in Runs, Own(r)'
    PROVE  \/ Own(r) /\ run'[r].trigger = run[r].trigger
           \/ Spawned(r) /\ run'[r].trigger # "manual"
<1>1. CASE UNCHANGED run
  BY <1>1 DEF Own, Active
<1>2. CASE Crash
  BY <1>2 DEF Own, Active, Crash, NoRun
<1>3. ASSUME NEW q \in Runs, RunStep(q)
      PROVE  Own(r) /\ run'[r].trigger = run[r].trigger
  BY <1>3, Running DEF AutomationInv, Own, Active, NoRun
<1>4. ASSUME NEW q \in Runs, Spawned(q)
      PROVE  \/ Own(r) /\ run'[r].trigger = run[r].trigger
             \/ Spawned(r) /\ run'[r].trigger # "manual"
  BY <1>4 DEF Own, Active, Spawned
<1> QED BY <1>1, <1>2, <1>3, <1>4, RunMoves

-----------------------------------------------------------------------------
(* The parts of the invariant, one after the other.                        *)

LEMMA DeadStep ==
    ASSUME AutomationInv, [Next]_vars
    PROVE  Dead'
<1> USE DEF AutomationInv
<1> SUFFICES ASSUME ~up'
             PROVE  /\ job' = Never
                    /\ \A r \in Runs : ~Active(r)'
                    /\ \A o \in Ops : At(o, "idle")'
                    /\ history'.starts = 0
  BY DEF Dead
<1>1. CASE Crash
  <2>1. history'.starts = 0
    BY <1>1 DEF Crash, Typed, HistoryType
  <2> QED BY <1>1, <2>1 DEF Crash, Active, At, NoOp, NoRun
<1>2. CASE ~Crash
  <2>1. ~up
    <3>1. ASSUME NEW r \in Runs, RunStep(r) PROVE UNCHANGED up
      BY <3>1 DEF RunStep, Admit, Begin, Work, Finish, Look, Leave
    <3>2. ASSUME NEW o \in Ops, OpStep(o) \/ Edit(o) \/ Delete(o)
          PROVE  UNCHANGED up
      BY <3>2 DEF OpStep, Load, Clear, Recover, Add, Store, Unschedule, Edit,
                  Delete
    <3>3. CASE Fire \/ RunNow \/ Tick \/ Start \/ UNCHANGED vars
      BY <3>3 DEF Fire, RunNow, Tick, Start, vars
    <3> QED BY <1>2, <3>1, <3>2, <3>3 DEF Next
  <2>2. /\ job = Never /\ history.starts = 0
        /\ \A r \in Runs : ~Active(r)
        /\ \A o \in Ops : op[o].pc = "idle"
    BY <2>1 DEF Dead, At
  <2>3. \A o \in Ops : ~OpStep(o) /\ ~Edit(o) /\ ~Delete(o)
    BY <2>1, <2>2, OpMoves DEF Edit, Delete, Serving
  <2>4. \A r \in Runs : ~RunStep(r)
    BY <2>2, Running
  <2>5. Tick \/ UNCHANGED vars
    BY <1>2, <2>1, <2>3, <2>4 DEF Next, Fire, RunNow, Start, Serving
  <2>6. history'.starts = 0
    BY <2>2, <2>5, Ticking DEF vars
  <2> QED BY <2>2, <2>5, <2>6 DEF Tick, vars, Active, At
<1> QED BY <1>1, <1>2

LEMMA HeldStep ==
    ASSUME AutomationInv, [Next]_vars
    PROVE  Held'
<1> USE DEF AutomationInv
<1> DEFINE Then == {r \in Runs : run'[r].pc \notin {"none", "queued"}}
<1>0. IsFiniteSet(Holders) /\ Cardinality(Holders) \in Nat /\ Parallel \in Nat
      /\ Cardinality(Holders) <= Parallel
  BY FS_CardinalityType, AutomationsAssumption DEF Held
<1>1. SUFFICES IsFiniteSet(Then) /\ Cardinality(Then) <= Parallel
  BY DEF Held, Holders
<1>2. CASE Then \subseteq Holders
  <2>1. /\ IsFiniteSet(Then) /\ Cardinality(Then) \in Nat
        /\ Cardinality(Then) <= Cardinality(Holders)
    BY <1>0, <1>2, FS_Subset, FS_CardinalityType
  <2> QED BY <1>0, <2>1
<1>3. ASSUME NEW r \in Runs, Then \subseteq Holders \cup {r},
             Cardinality(Holders) < Parallel
      PROVE  IsFiniteSet(Then) /\ Cardinality(Then) <= Parallel
  <2>1. /\ IsFiniteSet(Holders \cup {r})
        /\ Cardinality(Holders \cup {r}) \in Nat
        /\ Cardinality(Holders \cup {r}) <= Cardinality(Holders) + 1
    <3>1. /\ IsFiniteSet(Holders \cup {r})
          /\ \/ Cardinality(Holders \cup {r}) = Cardinality(Holders)
             \/ Cardinality(Holders \cup {r}) = Cardinality(Holders) + 1
      BY <1>0, FS_AddElement
    <3> HIDE DEF Then
    <3> QED BY <1>0, <3>1
  <2>2. /\ IsFiniteSet(Then) /\ Cardinality(Then) \in Nat
        /\ Cardinality(Then) <= Cardinality(Holders \cup {r})
    BY <1>3, <2>1, FS_Subset, FS_CardinalityType
  <2> QED BY <1>0, <1>3, <2>1, <2>2
<1>4. CASE UNCHANGED run \/ Crash
  <2>1. Then \subseteq Holders
    BY <1>4 DEF Holders, Crash, NoRun
  <2> QED BY <1>2, <2>1
<1>5. ASSUME NEW r \in Runs, Spawned(r) PROVE Then \subseteq Holders
  BY <1>5 DEF Holders, Spawned
<1>6. ASSUME NEW r \in Runs, RunStep(r)
      PROVE  \/ Then \subseteq Holders
             \/ /\ Then \subseteq Holders \cup {r}
                /\ Cardinality(Holders) < Parallel
  <2>1. Then \subseteq Holders \cup {r}
    BY <1>6, Running DEF Holders
  <2>2. CASE Admit(r)
    BY <2>1, <2>2 DEF Admit
  <2>3. CASE ~Admit(r)
    <3>1. r \in Holders
      BY <1>6, <2>3 DEF RunStep, Begin, Work, Finish, Look, Leave, Holders
    <3> QED BY <2>1, <3>1
  <2> QED BY <2>2, <2>3
<1> QED BY <1>2, <1>3, <1>4, <1>5, <1>6, RunMoves

LEMMA CoursesStep ==
    ASSUME AutomationInv, [Next]_vars
    PROVE  Courses'
<1> USE DEF AutomationInv
<1> SUFFICES ASSUME NEW o \in Ops
             PROVE  /\ op'[o].pc \in {"clear", "miss", "rerun", "spawn"} =>
                            o = "start"
                    /\ Once => op'[o].pc # "rerun"
  BY SceneFrame DEF Courses
<1>1. /\ op[o].pc \in {"clear", "miss", "rerun", "spawn"} => o = "start"
      /\ Once => op[o].pc # "rerun"
  BY DEF Courses
<1>2. ASSUME NEW q \in Ops, OpStep(q)
      PROVE  /\ op'[o].pc \in {"clear", "miss", "rerun", "spawn"} => o = "start"
             /\ Once => op'[o].pc # "rerun"
  <2>1. CASE q # o
    BY <1>1, <1>2, <2>1, OpMoves
  <2>2. CASE q = o /\ Load(o)
    <3>1. op'[o].pc = Course(o)
      BY <2>2, Loading
    <3>2. /\ Course(o) \in {"clear", "miss", "rerun", "spawn"} => Missed(o)
          /\ Once => Course(o) # "rerun"
      BY DEF Course
    <3> QED BY <3>1, <3>2 DEF Missed
  <2>3. CASE q = o /\ ~Load(o)
    BY <1>1, <1>2, <2>3, OpMoves
  <2> QED BY <2>1, <2>2, <2>3
<1>3. ASSUME NEW q \in Ops, Edit(q) \/ Delete(q)
      PROVE  op'[o].pc = op[o].pc \/ op'[o].pc \in {"load", "unschedule"}
  BY <1>3, Going DEF Edit, Delete, OpPcs
<1>4. CASE Start
  <2>1. Goto("start", "load") \/ Goto("start", "idle")
    BY <1>4 DEF Start
  <2>2. op'[o].pc = op[o].pc \/ op'[o].pc \in {"load", "idle"}
    BY <2>1, Going, Places DEF OpPcs
  <2> QED BY <1>1, <2>2
<1>5. CASE Crash
  BY <1>5 DEF Crash, NoOp
<1>6. CASE UNCHANGED op
  BY <1>1, <1>6
<1> QED BY <1>1, <1>2, <1>3, <1>4, <1>5, <1>6, OpFrame

LEMMA StartingStep ==
    ASSUME AutomationInv, [Next]_vars
    PROVE  Starting'
<1> USE Places DEF AutomationInv
<1> SUFFICES ASSUME op'["start"].pc # "idle"
             PROVE  /\ \A o \in Ops \ {"start"} : op'[o].pc = "idle"
                    /\ Once /\ op'["start"].pc # "store" =>
                        /\ job' = Never /\ history'.starts = 0
                        /\ \A r \in Runs : ~Own(r)'
  BY SceneFrame DEF Starting, At
<1>1. CASE op["start"].pc = "idle"
  <2>1. Start
    <3>1. ASSUME NEW o \in Ops, OpStep(o) PROVE FALSE
      BY <1>1, <3>1, OpMoves, Loading DEF Courses
    <3>2. ASSUME NEW o \in Ops, Edit(o) \/ Delete(o) PROVE FALSE
      <4>1. o # "start" /\ (Goto(o, "load") \/ Goto(o, "unschedule"))
        BY <3>2 DEF Edit, Delete, Serving, At
      <4> QED BY <1>1, <4>1, Going DEF OpPcs
    <3>3. ~Crash /\ op' # op
      BY <1>1 DEF Crash, NoOp
    <3> QED BY <3>1, <3>2, <3>3, OpFrame
  <2>2. /\ \A o \in Ops : op[o].pc = "idle"
        /\ job = Never /\ history.starts = 0 /\ \A r \in Runs : ~Active(r)
    BY <2>1 DEF Start, Dead, At
  <2>3. \A o \in Ops \ {"start"} : op'[o] = op[o]
    <3>1. Goto("start", "load") \/ Goto("start", "idle")
      BY <2>1 DEF Start
    <3> QED BY <3>1, Going DEF OpPcs
  <2> QED BY <2>1, <2>2, <2>3 DEF Start, Own, Active
<1>2. CASE op["start"].pc # "idle"
  <2>1. \A o \in Ops \ {"start"} : op[o].pc = "idle"
    BY <1>2 DEF Starting, At
  <2>2. ~Serving /\ \A o \in Ops : ~Edit(o) /\ ~Delete(o)
    BY <1>2 DEF Serving, At, Edit, Delete
  <2>3. ~Crash
    BY DEF Crash, NoOp
  <2>4. up /\ ~Start
    BY <1>2 DEF Dead, At, Start
  <2>5. \A o \in Ops \ {"start"} : op'[o].pc = "idle" /\ ~OpStep(o)
    <3>1. \A o \in Ops \ {"start"} : ~OpStep(o)
      BY <2>1, OpMoves
    <3> QED BY <2>1, <2>2, <2>3, <2>4, <3>1, OpMoves, OpFrame
  <2>6. ASSUME Once, op'["start"].pc # "store"
        PROVE  /\ job' = Never /\ history'.starts = 0
               /\ \A r \in Runs : ~Own(r)'
    <3>1. op["start"].pc # "store"
      <4>1. op["start"].pc = "store" => op' = op \/ op'["start"].pc = "idle"
        BY <2>2, <2>3, <2>4, <2>5, OpMoves, OpFrame
           DEF Load, Clear, Recover, At
      <4> QED BY <2>6, <4>1
    <3>2. /\ job = Never /\ history.starts = 0 /\ \A r \in Runs : ~Own(r)
      BY <1>2, <2>6, <3>1 DEF Starting, At
    <3>3. ~Fire /\ \A o \in Ops : ~Add(o)
      <4>1. ASSUME NEW o \in Ops, Add(o) PROVE FALSE
        <5>1. OpStep(o)
          BY <4>1 DEF OpStep
        <5>2. o = "start"
          BY <2>5, <5>1
        <5>3. op'["start"].pc = "store"
          BY <4>1, <5>2 DEF Add, Typed
        <5> QED BY <2>6, <5>3
      <4> QED BY <3>2, <4>1 DEF Fire, Due
    <3>4. job' = Never
      BY <3>2, <3>3, JobFrame
    <3>5. history'.starts = history.starts
      <4>1. ASSUME NEW r \in Runs, Begin(r) PROVE history' = history
        <5>1. run[r].trigger = "manual"
          BY <3>2, <4>1 DEF Begin, Own, Active
        <5> QED BY <4>1, <5>1 DEF Begin
      <4> QED BY <2>2, <2>3, <4>1, HistoryFrame, Ticking
    <3>6. ASSUME NEW r \in Runs, Own(r)' PROVE FALSE
      <4>1. Spawned(r) /\ run'[r].trigger # "manual"
        BY <3>2, <3>6, OwnMoves
      <4>2. PICK o \in Ops : Recover(o)
        BY <3>2, <4>1 DEF Spawned
      <4>3. o = "start" /\ op'[o].pc \in {"idle", "add"}
        <5>1. OpStep(o)
          BY <4>2 DEF OpStep
        <5> QED BY <2>5, <4>2, <5>1, Going DEF Recover, OpPcs
      <4>4. op[o].pc # "rerun"
        BY <2>6 DEF Courses
      <4>5. op'[o].pc = "idle"
        BY <4>2, <4>4, Going DEF Recover, At, OpPcs
      <4> QED BY <4>3, <4>5
    <3> QED BY <3>2, <3>4, <3>5, <3>6
  <2> QED BY <2>5, <2>6
<1> QED BY <1>1, <1>2

LEMMA SingleStep ==
    ASSUME AutomationInv, [Next]_vars
    PROVE  Single'
<1> USE DEF AutomationInv
<1>1. ASSUME NEW r \in Runs, Scheduled(r)'
      PROVE  Scheduled(r) \/ (Spawned(r) /\ ~Instance)
  <2>1. Own(r)'
    BY <1>1 DEF Scheduled, Own
  <2>2. CASE Own(r) /\ run'[r].trigger = run[r].trigger
    BY <1>1, <2>2 DEF Scheduled, Own
  <2>3. CASE Spawned(r)
    BY <1>1, <2>3 DEF Scheduled, Spawned
  <2> QED BY <2>1, <2>2, <2>3, OwnMoves
<1>2. ASSUME NEW r \in Runs, NEW q \in Runs, Spawned(r), Spawned(q)
      PROVE  r = q
  BY <1>2 DEF Spawned, Active
<1> SUFFICES ASSUME NEW r \in Runs, NEW q \in Runs, Scheduled(r)', Scheduled(q)'
             PROVE  r = q
  BY DEF Single
<1> QED BY <1>1, <1>2 DEF Single, Scheduled, Instance

LEMMA UniqueOwn ==
    ASSUME AutomationInv, Once, ~history.edited
    PROVE  \A r, q \in Runs : Own(r) /\ Own(q) => r = q
  BY DEF AutomationInv, Single, Alone

\* An edit that leaves the history as it was found nothing begun.
LEMMA Editing ==
    ASSUME AutomationInv, NEW o \in Ops, Edit(o), ~history'.edited
    PROVE  /\ UNCHANGED <<run, scene>> /\ \A r \in Runs : ~Own(r)
           /\ history'.starts = 0
<1>1. Begun \in BOOLEAN /\ history \in HistoryType
  BY DEF Begun, Due, AutomationInv, Typed
<1>2. ~Begun
  BY <1>1 DEF Edit, HistoryType, NoHistory
<1>3. history.starts = 0
  BY <1>1, <1>2 DEF Begun, HistoryType
<1>4. history'.starts = 0
  BY <1>1, <1>3 DEF Edit, HistoryType, NoHistory
<1> QED BY <1>2, <1>4 DEF Begun, Own, Edit

LEMMA Unedited ==
    ASSUME AutomationInv, [Next]_vars, ~history'.edited,
           \A o \in Ops : ~Edit(o)
    PROVE  ~history.edited
<1>1. history \in HistoryType
  BY DEF AutomationInv, Typed
<1> QED BY <1>1, HistoryFrame, Ticking
        DEF Crash, Begin, HistoryType, AutomationInv

\* Only the user turns an automation on.
LEMMA RowOn ==
    ASSUME AutomationInv, [Next]_vars, \A o \in Ops : ~Edit(o), row'.enabled
    PROVE  row.enabled
<1>0. row \in RowType
  BY DEF AutomationInv, Typed
<1>1. ASSUME NEW r \in Runs, RunStep(r) PROVE row.enabled
  <2>1. CASE Finish(r)
    <3>1. CASE row' = row
      BY <3>1
    <3>2. CASE row' # row
      <4>1. \E on \in BOOLEAN : \E s, next :
                /\ row' = [row EXCEPT !.status = s, !.enabled = on, !.next = next]
                /\ on => row.enabled
        BY <1>0, <2>1, <3>2 DEF Finish, RowType
      <4> QED BY <1>0, <4>1 DEF RowType
    <3> QED BY <3>1, <3>2
  <2> QED BY <1>0, <1>1, <2>1 DEF RunStep, Admit, Begin, Work, Look, Leave, RowType
<1>2. ASSUME NEW o \in Ops, OpStep(o) \/ Delete(o) PROVE row.enabled
  <2>1. CASE Clear(o)
    <3>1. row' = [row EXCEPT
            !.next = IF op[o].seen.next = Never THEN row.next ELSE Never,
            !.enabled = IF At(o, "miss") THEN FALSE ELSE row.enabled,
            !.status = IF At(o, "miss") THEN "missed" ELSE row.status]
      BY <2>1 DEF Clear
    <3>2. row'.enabled = IF At(o, "miss") THEN FALSE ELSE row.enabled
      BY <1>0, <3>1 DEF RowType
    <3> QED BY <3>2
  <2>2. CASE Delete(o)
    BY <2>2 DEF Delete, NoRow
  <2>3. CASE Store(o)
    BY <1>0, <2>3 DEF Store, RowType
  <2> QED BY <1>2, <2>1, <2>2, <2>3 DEF OpStep, Load, Recover, Add, Unschedule
<1>3. CASE Fire \/ RunNow \/ Tick \/ Crash \/ Start
  BY <1>3 DEF Fire, RunNow, Tick, Crash, Start
<1>4. CASE UNCHANGED vars
  BY <1>4 DEF vars
<1> QED BY <1>1, <1>2, <1>3, <1>4 DEF Next

\* When the start of Core recovers a one-time run, no run is its own.
LEMMA Recovering ==
    ASSUME AutomationInv, Once, NEW o \in Ops, Recover(o)
    PROVE  /\ o = "start" /\ op'["start"].pc = "idle"
           /\ \A q \in Ops : op'[q].pc = "idle"
           /\ job = Never /\ job' = job /\ \A r \in Runs : ~Own(r)
<1> USE Places DEF AutomationInv
<1>1. o = "start" /\ op[o].pc = "spawn"
  BY DEF Courses, Recover, At
<1>2. /\ \A q \in Ops \ {"start"} : op[q].pc = "idle"
      /\ job = Never /\ \A r \in Runs : ~Own(r)
  BY <1>1 DEF Starting, At
<1>3. op'[o].pc = "idle" /\ \A q \in Ops \ {o} : op'[q] = op[q]
  BY <1>1, Going DEF Recover, At, OpPcs
<1> QED BY <1>1, <1>2, <1>3 DEF Recover

LEMMA AloneStep ==
    ASSUME AutomationInv, [Next]_vars
    PROVE  Alone'
<1> USE Places DEF AutomationInv
<1> SUFFICES ASSUME Once, ~history'.edited, NEW r \in Runs, Own(r)', ~Scheduled(r)'
             PROVE  /\ run'[r].trigger = "recovered"
                    /\ job' = Never
                    /\ \A o \in Ops : op'[o].pc \in {"idle", "unschedule"}
                    /\ \A q \in Runs : Own(q)' => q = r
  BY SceneFrame DEF Alone
<1>1. \A o \in Ops : ~Edit(o)
  <2>1. ASSUME NEW o \in Ops, Edit(o) PROVE FALSE
    BY <2>1, Editing DEF Own, Active
  <2> QED BY <2>1
<1>2. ~history.edited
  BY <1>1, Unedited
<1>3. ASSUME Own(r), run'[r].trigger = run[r].trigger
      PROVE  /\ run'[r].trigger = "recovered"
             /\ job' = Never
             /\ \A o \in Ops : op'[o].pc \in {"idle", "unschedule"}
             /\ \A q \in Runs : Own(q)' => q = r
  <2>1. ~Scheduled(r)
    BY <1>3 DEF Own, Scheduled
  <2>2. /\ run[r].trigger = "recovered" /\ job = Never
        /\ \A o \in Ops : op[o].pc \in {"idle", "unschedule"}
        /\ \A q \in Runs : Own(q) => q = r
    BY <1>2, <1>3, <2>1 DEF Alone
  <2>3. ~Fire /\ ~Start /\ ~Crash
    BY <1>3, <2>2 DEF Fire, Due, Start, Dead, Own, Crash, Active, NoRun
  <2>4. \A o \in Ops : ~Load(o) /\ ~Clear(o) /\ ~Recover(o) /\ ~Add(o) /\ ~Store(o)
    BY <2>2 DEF Load, Clear, Recover, Add, Store, At
  <2>5. job' = Never
    BY <2>2, <2>3, <2>4, JobFrame
  <2>6. ASSUME NEW o \in Ops PROVE op'[o].pc \in {"idle", "unschedule"}
    <3>1. ASSUME NEW q \in Ops, OpStep(q)
          PROVE  op'[o].pc \in {"idle", "unschedule"}
      BY <2>2, <2>4, <3>1, OpMoves
    <3>2. ASSUME NEW q \in Ops, Delete(q)
          PROVE  op'[o].pc \in {"idle", "unschedule"}
      BY <2>2, <3>2, Going DEF Delete, OpPcs
    <3> QED BY <1>1, <2>2, <2>3, <3>1, <3>2, OpFrame
  <2>7. ASSUME NEW q \in Runs, Own(q)' PROVE q = r
    <3>1. ~(Spawned(q) /\ run'[q].trigger # "manual")
      BY <2>3, <2>4 DEF Spawned
    <3> QED BY <2>2, <2>7, <3>1, OwnMoves
  <2> QED BY <1>3, <2>2, <2>5, <2>6, <2>7
<1>4. ASSUME Spawned(r), run'[r].trigger # "manual"
      PROVE  /\ run'[r].trigger = "recovered"
             /\ job' = Never
             /\ \A o \in Ops : op'[o].pc \in {"idle", "unschedule"}
             /\ \A q \in Runs : Own(q)' => q = r
  <2>1. run'[r].trigger = "recovered" /\ \E o \in Ops : Recover(o)
    BY <1>4 DEF Spawned, Own, Scheduled
  <2>2. PICK o \in Ops : Recover(o)
    BY <2>1
  <2>3. /\ \A q \in Ops : op'[q].pc = "idle"
        /\ job' = Never /\ \A q \in Runs : ~Own(q)
    BY <2>2, Recovering
  <2>4. ASSUME NEW q \in Runs, Own(q)' PROVE q = r
    <3>1. Spawned(q)
      BY <2>3, <2>4, OwnMoves
    <3> QED BY <1>4, <3>1 DEF Spawned, Active
  <2> QED BY <2>1, <2>3, <2>4
<1> QED BY <1>3, <1>4, OwnMoves

LEMMA TurnedStep ==
    ASSUME AutomationInv, [Next]_vars
    PROVE  Turned'
<1> USE Places DEF AutomationInv
<1> SUFFICES ASSUME Once, ~history'.edited, history'.starts # 0
             PROVE  /\ history'.starts = 1
                    /\ \A r \in Runs : Own(r)' => run'[r].pc # "admitted"
                    /\ row'.enabled =>
                        \E r \in Runs :
                            /\ Own(r)' /\ run'[r].pc \in {"working", "worked"}
                            /\ run'[r].pc = "worked" => run'[r].seen.enabled
                            /\ \A q \in Runs : Own(q)' => q = r
  BY SceneFrame DEF Turned
<1>0. history \in HistoryType
  BY DEF Typed
<1>1. \A o \in Ops : ~Edit(o)
  BY Editing
<1>2. ~history.edited
  BY <1>1, Unedited
<1>3. ~Crash
  BY <1>0 DEF Crash, HistoryType
<1>4. ASSUME NEW r \in Runs, Begin(r), history' # history
      PROVE  /\ history'.starts = 1
             /\ Own(r)' /\ run'[r].pc = "working"
             /\ \A q \in Runs : Own(q)' => q = r
  <2>1. /\ run[r].trigger # "manual" /\ row.exists /\ run[r].pc = "admitted"
        /\ history' = [history EXCEPT !.starts = history.starts + 1, !.served = TRUE]
    BY <1>4 DEF Begin
  <2>2. Own(r)
    BY <2>1 DEF Own, Active
  <2>3. history.starts = 0
    BY <1>2, <2>1, <2>2 DEF Turned
  <2>4. history'.starts = 1
    BY <1>0, <2>1, <2>3 DEF HistoryType
  <2>5. /\ run'[r].pc = "working" /\ run'[r].trigger = run[r].trigger
        /\ \A q \in Runs \ {r} : run'[q] = run[q]
    BY <1>4, <2>1, Running DEF RunStep, Begin, Admit, Work, Finish, Look, Leave
  <2>6. ASSUME NEW q \in Runs, Own(q)' PROVE q = r
    <3>1. CASE q # r
      BY <1>2, <2>2, <2>5, <2>6, <3>1, UniqueOwn DEF Own, Active
    <3> QED BY <3>1
  <2> QED BY <2>1, <2>4, <2>5, <2>6 DEF Own, Active
<1>5. CASE history' = history \/ Tick
  <2>1. /\ history.starts = 1
        /\ \A r \in Runs : Own(r) => run[r].pc # "admitted"
        /\ row.enabled =>
            \E r \in Runs : /\ Own(r) /\ run[r].pc \in {"working", "worked"}
                            /\ run[r].pc = "worked" => run[r].seen.enabled
                            /\ \A q \in Runs : Own(q) => q = r
    <3>1. history'.starts = history.starts
      BY <1>5, Ticking
    <3> QED BY <1>2, <3>1 DEF Turned
  <2>2. ASSUME NEW r \in Runs, Own(r)', run'[r].pc = "admitted" PROVE FALSE
    <3>1. Own(r) /\ ~Spawned(r)
      BY <2>2, OwnMoves DEF Spawned
    <3>2. run'[r] # run[r]
      BY <2>1, <2>2, <3>1
    <3>3. PICK q \in Runs : RunStep(q)
      BY <1>3, <3>1, <3>2, RunMoves DEF Spawned, Own
    <3>4. q = r
      BY <3>2, <3>3, Running
    <3>5. Admit(r) /\ row.enabled
      BY <2>2, <3>1, <3>3, <3>4, Running DEF Own, NoRun
    <3> QED BY <2>1, <3>1, <3>5 DEF Admit
  <2>3. ASSUME row'.enabled
        PROVE  \E r \in Runs :
                /\ Own(r)' /\ run'[r].pc \in {"working", "worked"}
                /\ run'[r].pc = "worked" => run'[r].seen.enabled
                /\ \A q \in Runs : Own(q)' => q = r
    <3>1. row.enabled /\ row.exists
      BY <1>1, <2>3, RowOn DEF Typed
    <3>2. PICK w \in Runs : /\ Own(w) /\ run[w].pc \in {"working", "worked"}
                            /\ run[w].pc = "worked" => run[w].seen.enabled
                            /\ \A q \in Runs : Own(q) => q = w
      BY <2>1, <3>1
    <3>3. /\ run'[w].trigger = run[w].trigger
          /\ run'[w].pc \in {"working", "worked"}
          /\ run'[w].pc = "worked" => run'[w].seen.enabled
      <4>1. CASE run'[w] = run[w]
        BY <3>2, <4>1
      <4>2. CASE run'[w] # run[w]
        <5>1. PICK q \in Runs : RunStep(q)
          BY <1>3, <3>2, <4>2, RunMoves DEF Spawned, Own
        <5>2. RunStep(w)
          BY <4>2, <5>1, Running
        <5>3. ~Finish(w)
          <6>1. ASSUME Finish(w) PROVE FALSE
            <7>1. run[w].pc = "worked" /\ run[w].seen.enabled
              BY <3>2, <6>1 DEF Finish
            <7>2. run[w].trigger # "manual" /\ row \in RowType
              BY <3>2 DEF Own, Typed
            <7>3. \E next : row' = [row EXCEPT !.status = "over",
                                               !.enabled = FALSE, !.next = next]
              BY <3>1, <6>1, <7>1, <7>2 DEF Finish
            <7> QED BY <2>3, <7>2, <7>3 DEF RowType
          <6> QED BY <6>1
        <5>4. Work(w)
          BY <3>2, <5>2, <5>3 DEF RunStep, Admit, Begin, Look, Leave
        <5>5. run'[w] = [run[w] EXCEPT !.pc = "worked", !.seen = row]
          BY <3>1, <5>4 DEF Work, Typed, RunType
        <5>6. run[w] \in RunType
          BY DEF Typed
        <5> QED BY <3>1, <5>5, <5>6 DEF RunType
      <4> QED BY <4>1, <4>2
    <3>4. ASSUME NEW q \in Runs, Own(q)' PROVE q = w
      <4>1. ~(Spawned(q) /\ run'[q].trigger # "manual")
        <5>1. ASSUME Fire, ~Instance, job # Never PROVE FALSE
          <6>1. ~Scheduled(w)
            BY <5>1 DEF Instance, Scheduled
          <6> QED BY <1>2, <3>2, <5>1, <6>1 DEF Alone
        <5>2. \A o \in Ops : ~Recover(o)
          BY <3>2, Recovering
        <5> QED BY <5>1, <5>2 DEF Spawned
      <4> QED BY <3>2, <3>4, <4>1, OwnMoves
    <3>5. Own(w)'
      BY <3>2, <3>3 DEF Own, Active
    <3> QED BY <3>3, <3>4, <3>5
  <2>4. history'.starts = 1
    BY <1>5, <2>1, Ticking
  <2> QED BY <2>2, <2>3, <2>4
<1>6. CASE history' # history /\ ~Tick
  <2>1. PICK r \in Runs : Begin(r)
    BY <1>1, <1>3, <1>6, HistoryFrame
  <2>2. /\ history'.starts = 1
        /\ Own(r)' /\ run'[r].pc = "working"
        /\ \A q \in Runs : Own(q)' => q = r
    BY <1>4, <1>6, <2>1
  <2> QED BY <2>2
<1> QED BY <1>5, <1>6

-----------------------------------------------------------------------------
(* The theorems.                                                           *)

LEMMA AutomationInit ==
    ASSUME Init
    PROVE  AutomationInv
<1> USE AutomationsAssumption, Places DEF Init
<1>1. scene.at \in Times /\ 0 \in 0..MaxTime
  BY DEF Times
<1>2. Typed
  BY <1>1 DEF Typed, RowType, NoHistory, HistoryType
<1>3. Held
  <2>1. Holders = {}
    BY DEF Holders, NoRun
  <2> QED BY <2>1, FS_EmptySet DEF Held
<1>4. \A r \in Runs : ~Own(r) /\ ~Scheduled(r)
  BY DEF Own, Scheduled, Active, NoRun
<1>5. \A o \in Ops : op[o].pc = "idle"
  BY DEF NoOp
<1>6. Dead /\ Courses /\ Starting
  BY <1>5 DEF Dead, Courses, Starting, At
<1>7. Single /\ Alone /\ Turned
  BY <1>4 DEF Single, Alone, Turned, NoHistory
<1> QED BY <1>2, <1>3, <1>6, <1>7 DEF AutomationInv

\* In every state nothing but the row outlives Core; only the start of Core
\* looks for a missed run, and until it has put the job back it serves nobody;
\* the job has one instance; a one-time run that was recovered is alone, with
\* nobody about to put the job back; and a one-time run that has begun is the
\* only one until it has turned the automation off.
THEOREM AutomationInvariant == Spec => []AutomationInv
<1>1. ASSUME AutomationInv, [Next]_vars PROVE AutomationInv'
  BY <1>1, TypedStep, DeadStep, HeldStep, CoursesStep, StartingStep, SingleStep,
     AloneStep, TurnedStep DEF AutomationInv
<1> QED BY <1>1, AutomationInit, PTL DEF Spec

\* Every variable keeps its type, and the semaphore admits no more runs than
\* automation_max_parallel_runs.
THEOREM TypeCorrect == Spec => []TypeOK
<1>1. AutomationInv => TypeOK
  BY DEF AutomationInv, Typed, Dead, Held, TypeOK, OpType, RunType, OpPcs, RunPcs
<1> QED BY <1>1, AutomationInvariant, PTL

\* A one-time automation is started once for its time in one life of Core, by
\* the scheduler or by the start of Core, never by both, however manual runs
\* and restarts are interleaved with it, and whatever the user edits before its
\* time has come: only an edit that comes later may start it again.
THEOREM OnceStarted == Spec => []StartedOnce
<1>1. AutomationInv => StartedOnce
  <2>1. ASSUME AutomationInv PROVE StartedOnce
    BY <2>1 DEF AutomationInv, Turned, StartedOnce
  <2> QED BY <2>1
<1> QED BY <1>1, AutomationInvariant, PTL
=============================================================================
