----------------------------- MODULE Automations -----------------------------
(***************************************************************************)
(* One scheduled automation of Jace: its row, the job APScheduler keeps of *)
(* it in memory, the calls of schedule_automation that put the job there   *)
(* (when Core starts, and after each change the user makes), and the runs  *)
(* that _job_wrapper makes of it: scheduled, recovered after a restart, or *)
(* asked for by the user.                                                  *)
(*                                                                         *)
(* Time is counted in ticks, and passes whatever waits: the event loop may *)
(* be blocked or the host suspended, so that a job fires late, or is       *)
(* dropped.  What the agent of a run does, watcher conditions and          *)
(* notifications are left out.                                             *)
(***************************************************************************)
EXTENDS Integers, FiniteSets

CONSTANTS
    Runs,       \* _job_wrapper coroutines at one time
    Taps,       \* requests of the user that are handled concurrently
    Grace,      \* automation_misfire_grace_seconds, in ticks
    Parallel,   \* automation_max_parallel_runs
    MaxTime,    \* bound on the clock
    Scenes,     \* kind and time of the automation, and what may happen
    Never       \* no time

ASSUME AutomationsAssumption ==
    /\ Grace \in Nat /\ Parallel \in Nat \ {0} /\ MaxTime \in Nat
    /\ Never \notin Nat
    /\ \A s \in Scenes : s.at \in 0..MaxTime

VARIABLES
    scene,    \* one of Scenes, fixed
    now,
    up,       \* Core runs
    row,      \* the Automation row
    job,      \* next_run_time of the job in APScheduler
    op,       \* calls of schedule_automation
    run,      \* _job_wrapper and the AutomationRun it makes
    history,  \* starts: runs not asked for, for the present time of the row, in
              \* this life of Core; served: in any life; forgotten: Core died
              \* when next_run_at was not the time of the enabled row; edited:
              \* by the user when its time had come or a run had begun;
              \* overslept: Core was up, and the grace ran out before the job
              \* had fired
    budget    \* what the environment may still do

vars == <<scene, now, up, row, job, op, run, history, budget>>

Once == scene.kind = "once"
Ops  == Taps \cup {"start"}

NoRow == [exists |-> FALSE, enabled |-> FALSE, at |-> Never, next |-> Never,
          status |-> "none"]
NoOp  == [pc |-> "idle", seen |-> NoRow, next |-> Never]
NoRun == [pc |-> "none", trigger |-> "none", seen |-> NoRow, next |-> Never]
NoHistory == [starts |-> 0, served |-> FALSE, forgotten |-> FALSE,
              edited |-> FALSE, overslept |-> FALSE]

\* A row as create_automation and its first scheduling leave it.
Init ==
    /\ scene \in Scenes
    /\ now = 0 /\ up = TRUE
    /\ row = [exists |-> TRUE, enabled |-> TRUE, at |-> scene.at,
              next |-> scene.at, status |-> "none"]
    /\ job = scene.at
    /\ op = [o \in Ops |-> NoOp]
    /\ run = [r \in Runs |-> NoRun]
    /\ history = NoHistory
    /\ budget = scene.bounds

Spend(what) == /\ budget[what] > 0
               /\ budget' = [budget EXCEPT ![what] = @ - 1]

Active(r)  == run[r].pc # "none"
Holders    == {r \in Runs : run[r].pc \notin {"none", "queued"}}
Due(time)  == time # Never /\ time <= now
InTime(time) == now - time <= Grace

\* A new task with _job_wrapper in a free slot.
Spawn(trigger) ==
    \E r \in Runs :
        /\ ~Active(r)
        /\ run' = [run EXCEPT ![r] = [NoRun EXCEPT !.pc = "queued",
                                                   !.trigger = trigger]]

-----------------------------------------------------------------------------
(* schedule_automation                                                     *)

At(o, pc)   == op[o].pc = pc
Goto(o, pc) == op' = [op EXCEPT ![o] = IF pc = "idle" THEN NoOp
                                       ELSE [@ EXCEPT !.pc = pc]]

Missed(o) == o = "start" /\ row.next # Never /\ row.next < now

\* What is to be done about the row that was found.
Course(o) ==
    CASE ~row.exists                                 -> "idle"
      [] row.exists /\ ~row.enabled                  -> "off"
      [] row.enabled /\ Once /\ Missed(o)            ->
            IF InTime(row.next) THEN "clear" ELSE "miss"
      [] row.enabled /\ ~Once /\ Missed(o) /\ InTime(row.next) -> "rerun"
      [] OTHER                                       -> "add"

\* Mutant: a missed run is not looked for.
LoadOnly(o) ==
    /\ up /\ At(o, "load")
    /\ job' = Never
    /\ op' = [op EXCEPT ![o].pc = IF row.enabled THEN "add" ELSE "off",
                        ![o].seen = row]
    /\ UNCHANGED <<scene, now, up, row, run, history, budget>>

\* The job is taken out before the row is read.
Load(o) ==
    /\ up /\ At(o, "load")
    /\ job' = Never
    /\ op' = [op EXCEPT ![o] = IF Course(o) = "idle" THEN NoOp
                               ELSE [@ EXCEPT !.pc = Course(o), !.seen = row]]
    /\ UNCHANGED <<scene, now, up, row, run, history, budget>>

\* A disabled automation, or a one-time run that was missed, is cleared.
Clear(o) ==
    /\ At(o, "off") \/ At(o, "clear") \/ At(o, "miss")
    /\ row' = [row EXCEPT
            !.next = IF op[o].seen.next = Never THEN @ ELSE Never,
            !.enabled = IF At(o, "miss") THEN FALSE ELSE @,
            !.status = IF At(o, "miss") THEN "missed" ELSE @]
    /\ Goto(o, IF At(o, "clear") THEN "spawn" ELSE "idle")
    /\ UNCHANGED <<scene, now, up, job, run, history, budget>>

\* Mutant: a recovered one-time run is registered as well.
RecoverAndAdd(o) ==
    /\ At(o, "spawn") \/ At(o, "rerun")
    /\ Spawn("recovered")
    /\ Goto(o, "add")
    /\ UNCHANGED <<scene, now, up, row, job, history, budget>>

Recover(o) ==
    /\ At(o, "spawn") \/ At(o, "rerun")
    /\ Spawn("recovered")
    /\ Goto(o, IF At(o, "rerun") THEN "add" ELSE "idle")
    /\ UNCHANGED <<scene, now, up, row, job, history, budget>>

\* A date in the past stays the next run time; an interval starts anew.
Add(o) ==
    /\ At(o, "add")
    /\ job' = IF Once THEN op[o].seen.at ELSE now + 1
    /\ op' = [op EXCEPT ![o] = [pc |-> "store", seen |-> NoRow, next |-> job']]
    /\ UNCHANGED <<scene, now, up, row, run, history, budget>>

\* _update_next_run
Store(o) ==
    /\ At(o, "store")
    /\ row' = [row EXCEPT !.next = IF row.exists THEN op[o].next ELSE @]
    /\ Goto(o, "idle")
    /\ UNCHANGED <<scene, now, up, job, run, history, budget>>

-----------------------------------------------------------------------------
(* APScheduler: coalesced, one instance, with a grace for misfires         *)

Instance == \E r \in Runs : Active(r) /\ run[r].trigger = "scheduled"

\* Beyond its grace a job is dropped: the date of a one-time automation is gone
\* and its row is not told.
Fire ==
    /\ up /\ Due(job)
    /\ IF InTime(job) /\ ~Instance THEN Spawn("scheduled") ELSE UNCHANGED run
    /\ job' = IF Once THEN Never ELSE now + 1
    /\ UNCHANGED <<scene, now, up, row, op, history, budget>>

-----------------------------------------------------------------------------
(* _job_wrapper and execute_automation                                     *)

Enter(r, pc) == run' = [run EXCEPT ![r].pc = pc]

\* Mutant: without the semaphore.
AdmitAny(r) ==
    /\ run[r].pc = "queued"
    /\ Enter(r, IF row.exists /\ (run[r].trigger = "manual" \/ row.enabled)
                THEN "admitted" ELSE "settled")
    /\ UNCHANGED <<scene, now, up, row, job, op, history, budget>>

\* Inside the semaphore the row is read; a disabled one runs by hand only.
Admit(r) ==
    /\ run[r].pc = "queued" /\ Cardinality(Holders) < Parallel
    /\ Enter(r, IF row.exists /\ (run[r].trigger = "manual" \/ row.enabled)
                THEN "admitted" ELSE "settled")
    /\ UNCHANGED <<scene, now, up, row, job, op, history, budget>>

\* create_run
Begin(r) ==
    /\ run[r].pc = "admitted"
    /\ IF row.exists
       THEN /\ Enter(r, "working")
            /\ row' = [row EXCEPT !.status = "running"]
            /\ history' = IF run[r].trigger = "manual" THEN history
                          ELSE [history EXCEPT !.starts = @ + 1,
                                               !.served = TRUE]
       ELSE Enter(r, "settled") /\ UNCHANGED <<row, history>>
    /\ UNCHANGED <<scene, now, up, job, op, budget>>

\* The agent ends, fails or exceeds its timeout; then the row is read again.
Work(r) ==
    /\ run[r].pc = "working"
    /\ run' = [run EXCEPT ![r].pc = IF row.exists THEN "worked" ELSE "settled",
                          ![r].seen = IF row.exists THEN row ELSE NoRow]
    /\ UNCHANGED <<scene, now, up, row, job, op, history, budget>>

\* finish_run: success, condition_not_met and failed are all "over"; a one-time
\* automation is turned off, unless it was run by hand.
Finish(r) ==
    /\ run[r].pc = "worked"
    /\ LET seen == run[r].seen
           off  == Once /\ run[r].trigger # "manual"
       IN  row' = IF ~row.exists THEN row
                  ELSE [row EXCEPT
                    !.status = "over",
                    !.enabled = IF off /\ seen.enabled THEN FALSE ELSE @,
                    !.next = IF off /\ seen.next # Never THEN Never ELSE @]
    /\ run' = [run EXCEPT ![r].pc = "settled", ![r].seen = NoRow]
    /\ UNCHANGED <<scene, now, up, job, op, history, budget>>

\* _update_next_run, read and commit.
Look(r) ==
    /\ run[r].pc = "settled"
    /\ run' = [run EXCEPT ![r].pc = "looked", ![r].next = job]
    /\ UNCHANGED <<scene, now, up, row, job, op, history, budget>>

Leave(r) ==
    /\ run[r].pc = "looked"
    /\ row' = [row EXCEPT !.next = IF row.exists THEN run[r].next ELSE @]
    /\ run' = [run EXCEPT ![r] = NoRun]
    /\ UNCHANGED <<scene, now, up, job, op, history, budget>>

-----------------------------------------------------------------------------
(* The API, which serves once the start of Core is through                 *)

Serving == up /\ At("start", "idle")

\* The time of the automation has come, or a run was started ahead of it.
Begun ==
    \/ Due(row.at) \/ history.starts > 0
    \/ \E r \in Runs : Active(r) /\ run[r].trigger # "manual"

\* PATCH: another time, which has to lie in the future, on or off, or a field
\* the schedule does not depend on; then the automation is scheduled anew.
Edit(o) ==
    /\ Serving /\ At(o, "idle") /\ o # "start" /\ row.exists
    /\ Spend("edits")
    /\ \/ \E time \in (now + 1)..MaxTime :
            /\ Once /\ row' = [row EXCEPT !.at = time]
            /\ history' = [NoHistory EXCEPT !.forgotten = history.forgotten,
                                            !.edited = Begun]
       \/ \E on \in BOOLEAN :
            /\ row' = [row EXCEPT !.enabled = on]
            /\ history' = [history EXCEPT !.edited = @ \/ Begun]
    /\ Goto(o, "load")
    /\ UNCHANGED <<scene, now, up, job, run>>

\* DELETE: the row, then the job.
Delete(o) ==
    /\ Serving /\ At(o, "idle") /\ o # "start" /\ row.exists
    /\ Spend("edits")
    /\ row' = NoRow
    /\ Goto(o, "unschedule")
    /\ UNCHANGED <<scene, now, up, job, run, history>>

Unschedule(o) ==
    /\ At(o, "unschedule")
    /\ job' = Never
    /\ Goto(o, "idle")
    /\ UNCHANGED <<scene, now, up, row, run, history, budget>>

RunNow ==
    /\ Serving /\ row.exists
    /\ Spend("manual")
    /\ Spawn("manual")
    /\ UNCHANGED <<scene, now, up, row, job, op, history>>

-----------------------------------------------------------------------------
(* Time, and restarts of Core                                              *)

\* The automation waits for its job, or for the call that will add it.
Waiting == up /\ (job = row.at \/ \E o \in Ops : ~At(o, "idle"))

\* Nothing holds the clock up.
Tick ==
    /\ now < MaxTime
    /\ now' = now + 1
    /\ history' = [history EXCEPT !.overslept =
                  @ \/ (Waiting /\ row.at # Never /\ now - row.at = Grace)]
    /\ UNCHANGED <<scene, up, row, job, op, run, budget>>

\* Run rows stay running; nothing but rows survives.
Crash ==
    /\ up /\ Spend("crashes")
    /\ up' = FALSE
    /\ history' = [history EXCEPT !.starts = 0, !.forgotten =
                  @ \/ (row.enabled /\ row.next # row.at)]
    /\ job' = Never
    /\ op' = [o \in Ops |-> NoOp]
    /\ run' = [r \in Runs |-> NoRun]
    /\ UNCHANGED <<scene, now, row>>

\* start_automation_scheduler takes up what is enabled.
Start ==
    /\ ~up
    /\ up' = TRUE
    /\ Goto("start", IF row.enabled THEN "load" ELSE "idle")
    /\ UNCHANGED <<scene, now, row, job, run, history, budget>>

-----------------------------------------------------------------------------
OpStep(o) == Load(o) \/ Clear(o) \/ Recover(o) \/ Add(o) \/ Store(o)
             \/ Unschedule(o)
RunStep(r) == Admit(r) \/ Begin(r) \/ Work(r) \/ Finish(r) \/ Look(r)
              \/ Leave(r)

Next ==
    \/ \E o \in Ops : OpStep(o) \/ Edit(o) \/ Delete(o)
    \/ \E r \in Runs : RunStep(r)
    \/ Fire \/ RunNow \/ Tick \/ Crash \/ Start

Spec == Init /\ [][Next]_vars

\* The event loop runs what can run, the scheduler's timer fires, a run ends
\* (it has a timeout), and Core is started again.
FairSpec ==
    /\ Spec
    /\ \A o \in Ops : WF_vars(OpStep(o))
    /\ \A r \in Runs : WF_vars(RunStep(r))
    /\ WF_vars(Fire) /\ WF_vars(Start)

-----------------------------------------------------------------------------
Times == 0..(MaxTime + 1) \cup {Never}
RowType == [exists : BOOLEAN, enabled : BOOLEAN, at : Times, next : Times,
            status : {"none", "running", "over", "missed"}]

\* Every variable has the shape the code gives it, and no more runs are inside
\* the semaphore than it admits.
TypeOK ==
    /\ scene \in Scenes /\ now \in 0..MaxTime /\ up \in BOOLEAN
    /\ row \in RowType /\ job \in Times
    /\ op \in [Ops -> [pc : {"idle", "load", "off", "clear", "miss", "rerun",
                             "spawn", "add", "store", "unschedule"},
                       seen : RowType, next : Times]]
    /\ run \in [Runs -> [pc : {"none", "queued", "admitted", "working",
                               "worked", "settled", "looked"},
                         trigger : {"none", "scheduled", "recovered", "manual"},
                         seen : RowType, next : Times]]
    /\ ~up => job = Never /\ \A r \in Runs : ~Active(r)
    /\ Cardinality(Holders) <= Parallel

\* In one life of Core a one-time automation is started once for its time,
\* whether the scheduler fires it or the start of Core recovers it, unless the
\* user edits it when its time has come or a run of it has begun.
StartedOnce == Once /\ ~history.edited => history.starts <= 1

\* An automation that is due is run, or marked as missed, or the user has
\* turned it off or to another time meanwhile, over any restarts; unless Core
\* died when next_run_at was not its time, because it had been cleared for a
\* run that had not begun or not been stored after an edit, or the user edited
\* it when its time had come, or Core itself came to the job, or to adding it,
\* later than its grace: then the scheduler drops it.  A run for the time before
\* counts, when an edit came too late to take its job out.
DueIsSettled ==
    (Once /\ row.enabled /\ row.at = now)
    ~> \/ history.served \/ ~row.enabled
       \/ history.forgotten \/ history.edited \/ history.overslept
       \/ row.at # Never /\ row.at > now
=============================================================================
