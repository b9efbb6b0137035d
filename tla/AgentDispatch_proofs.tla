------------------------ MODULE AgentDispatch_proofs ------------------------
(***************************************************************************)
(* Theorems of AgentDispatch, for every set of tasks and executors and     *)
(* every bound on what the environment does.                               *)
(***************************************************************************)
EXTENDS AgentDispatch, TLAPS

USE ConstantsAssumption

-----------------------------------------------------------------------------
(* Type correctness.  The records are opened once, in these lemmas.        *)

\* The constants used as values of the records have the right types.
LEMMA RecordTypes ==
    /\ Idle \in Coroutine /\ Dead \in Coroutine
    /\ NoSlot \in Assignment /\ NewRow \in Row
    /\ NoCancel \in CancelState /\ NoRetry \in RetryState
    /\ NoHandler \in [worker : Workers \cup {NoWorker}, seen : Row]
<1>1. NewRow \in Row
  BY DEF NewRow, Row, Statuses
<1>2. Idle \in Coroutine /\ Dead \in Coroutine
  BY DEF Idle, Dead, Coroutine, Points, Batches
<1> QED
  BY <1>1, <1>2 DEF NoSlot, Assignment, NoCancel, CancelState, NoRetry,
                    RetryState, NoHandler

\* Changing the status of a row keeps it a row.
LEMMA RowStatus ==
    ASSUME NEW r \in Row, NEW s \in Statuses
    PROVE  [r EXCEPT !.status = s] \in Row
  BY DEF Row

\* A write of one row keeps the table well typed, even at an unknown id.
LEMMA RowWrite ==
    ASSUME row \in [Tasks -> Row], NEW t, NEW r,
           t \in Tasks => r \in Row, row' = [row EXCEPT ![t] = r]
    PROVE  row' \in [Tasks -> Row]
  OBVIOUS

\* Writing a status keeps the table well typed.
LEMMA SetStatusType ==
    ASSUME row \in [Tasks -> Row], NEW t, NEW s \in Statuses, SetStatus(t, s)
    PROVE  row' \in [Tasks -> Row]
<1>1. row' = [row EXCEPT ![t] = [row[t] EXCEPT !.status = s]]
  BY DEF SetStatus
<1>2. t \in Tasks => [row[t] EXCEPT !.status = s] \in Row
  BY RowStatus
<1> QED BY <1>1, <1>2

\* Moving a coroutine keeps its task and generation, and the others.
LEMMA GotoType ==
    ASSUME worker \in [Workers -> Coroutine], NEW w \in Workers,
           NEW p \in Points, Goto(w, p)
    PROVE  /\ worker' \in [Workers -> Coroutine]
           /\ worker'[w].pc = p
           /\ worker'[w].task = worker[w].task
           /\ worker'[w].gen = worker[w].gen
           /\ worker'[w].counted = worker[w].counted
           /\ \A v \in Workers \ {w} : worker'[v] = worker[v]
  BY DEF Goto, Coroutine

\* So does the begin or the end of a batch of evidence tools.
LEMMA EnterType ==
    ASSUME worker \in [Workers -> Coroutine], NEW w \in Workers,
           NEW p \in Points, NEW b \in Batches, Enter(w, p, b)
    PROVE  /\ worker' \in [Workers -> Coroutine]
           /\ worker'[w].pc = p
           /\ worker'[w].batch = b
           /\ worker'[w].task = worker[w].task
           /\ worker'[w].gen = worker[w].gen
           /\ worker'[w].counted = worker[w].counted
           /\ \A v \in Workers \ {w} : worker'[v] = worker[v]
  BY DEF Enter, Coroutine

\* Replacing one coroutine leaves the others as they were.
LEMMA WorkerReplaced ==
    ASSUME worker \in [Workers -> Coroutine], NEW w \in Workers,
           NEW c \in Coroutine, worker' = [worker EXCEPT ![w] = c]
    PROVE  /\ worker' \in [Workers -> Coroutine]
           /\ worker'[w] = c
           /\ \A v \in Workers \ {w} : worker'[v] = worker[v]
  OBVIOUS

\* Marking an attempt as counted keeps the coroutine's type.
LEMMA CountedType ==
    ASSUME NEW c \in Coroutine
    PROVE  /\ [c EXCEPT !.counted = TRUE] \in Coroutine
           /\ [c EXCEPT !.pc = "reviewing", !.counted = TRUE] \in Coroutine
  BY DEF Coroutine, Points, Owning, Executing

\* _release_dispatch clears one generation at most.
LEMMA ReleasedType ==
    ASSUME activeGeneration \in [Tasks -> Nat], cancelEvents \subseteq Dispatch,
           NEW t, NEW g, Released(t, g)
    PROVE  /\ activeGeneration' \in [Tasks -> Nat]
           /\ cancelEvents' \subseteq Dispatch
           /\ \A u \in Tasks : activeGeneration'[u] =
                IF u = t /\ activeGeneration[u] = g THEN 0
                ELSE activeGeneration[u]
  BY DEF Released

\* Spending a budget leaves naturals.
LEMMA BudgetSpent ==
    ASSUME budget \in Budget
    PROVE  /\ budget.cancels > 0 =>
                [budget EXCEPT !.cancels = @ - 1] \in Budget
           /\ budget.retries > 0 =>
                [budget EXCEPT !.retries = @ - 1] \in Budget
           /\ budget.crashes > 0 =>
                [budget EXCEPT !.crashes = @ - 1] \in Budget
           /\ budget.recoveryFaults > 0 =>
                [budget EXCEPT !.recoveryFaults = @ - 1] \in Budget
           /\ budget.halts > 0 => [budget EXCEPT !.halts = @ - 1] \in Budget
  BY DEF Budget

\* The recoveries rewrite a row into a row.
LEMMA RecoveryRows ==
    ASSUME NEW seen \in Row, NEW r \in Row
    PROVE  /\ RecoveredRow(seen, r) \in Row
           /\ RestartedRow(r) \in Row
           /\ CancelledRow(seen, r) \in Row
<1> USE DEF Row, Statuses, Terminal, Active
<1>1. RecoveredRow(seen, r) \in Row
  <2> DEFINE requeued == [r EXCEPT !.status = Written(seen.status, "queued", @),
                                   !.recoveries = seen.recoveries + 1]
  <2>1. requeued \in Row
    <3>1. ASSUME NEW s \in Statuses, NEW n \in Nat
          PROVE  [r EXCEPT !.status = s, !.recoveries = n] \in Row
      OBVIOUS
    <3>2. Written(seen.status, "queued", r.status) \in Statuses
      BY DEF Written
    <3>3. seen.recoveries + 1 \in Nat
      OBVIOUS
    <3>4. requeued = [r EXCEPT !.status = Written(seen.status, "queued", r.status),
                               !.recoveries = seen.recoveries + 1]
      OBVIOUS
    <3> QED BY <3>1, <3>2, <3>3, <3>4
  <2>2. /\ [r EXCEPT !.status = "cancelled"] \in Row
        /\ [r EXCEPT !.status = "failed"] \in Row
        /\ [r EXCEPT !.status = "failed", !.quarantined = TRUE] \in Row
    OBVIOUS
  <2>3. RecoveredRow(seen, r) \in
          {r, requeued, [r EXCEPT !.status = "cancelled"],
           [r EXCEPT !.status = "failed"],
           [r EXCEPT !.status = "failed", !.quarantined = TRUE]}
    <3> HIDE DEF Row, Statuses, Terminal, Active
    <3> QED BY Zenon DEF RecoveredRow
  <2> QED BY <2>1, <2>2, <2>3
<1>2. RestartedRow(r) \in Row
  BY DEF RestartedRow
<1>3. CancelledRow(seen, r) \in Row
  BY ZenonT(40) DEF CancelledRow, Written
<1> QED BY <1>1, <1>2, <1>3

\* Every variable keeps its type under every action of the code.
THEOREM TypeCorrect == Spec => []TypeOK
<1>1. Init => TypeOK
  BY RecordTypes DEF Init, TypeOK, Budget
<1>2. TypeOK /\ [Next]_vars => TypeOK'
  <2> SUFFICES ASSUME TypeOK, [Next]_vars PROVE TypeOK'
    OBVIOUS
  <2> USE DEF TypeOK, dispatcher, requests, history, StepFrame
  <2>1. CASE UNCHANGED vars
    BY <2>1 DEF vars
  <2>2. ASSUME NEW t \in Tasks, CreateTask(t) PROVE TypeOK'
    <3>1. SetStatus(t, "queued")
      BY <2>2 DEF CreateTask, SetStatus
    <3>2. row' \in [Tasks -> Row]
      BY <3>1, SetStatusType DEF Statuses
    <3> QED BY <2>2, <3>2 DEF CreateTask
  <2>3. ASSUME NEW t \in Tasks, EnqueueRead(t) PROVE TypeOK'
    BY <2>3 DEF EnqueueRead
  <2>4. CASE EnqueuePut
    BY <2>4 DEF EnqueuePut, Dispatch
  <2>5. ASSUME NEW w \in Workers, Drive(w) PROVE TypeOK'
    <3>1. CASE Take(w)
      <4>1. PICK e \in heap : worker' = [worker EXCEPT ![w] =
                 [Idle EXCEPT !.pc = "got", !.task = e.task, !.gen = e.gen]]
        BY <3>1 DEF Take
      <4>2. [Idle EXCEPT !.pc = "got", !.task = e.task, !.gen = e.gen]
              \in Coroutine
        BY DEF Idle, Coroutine, Points, Batches, Dispatch
      <4>3. heap' \subseteq Dispatch
        BY <3>1 DEF Take
      <4> QED BY <3>1, <4>1, <4>2, <4>3, WorkerReplaced DEF Take
    <3>2. CASE Claim(w)
      <4>1. CASE queuedDispatch[worker[w].task] = worker[w].gen
        <5>1. Goto(w, "claimed")
          BY <3>2, <4>1 DEF Claim
        <5>2. worker' \in [Workers -> Coroutine]
          BY <5>1, GotoType DEF Points, Owning
        <5>3. worker[w].gen \in Nat
          BY DEF Coroutine
        <5>4. queuedDispatch' \in [Tasks -> Nat]
              /\ activeGeneration' \in [Tasks -> Nat]
          BY <3>2, <4>1, <5>3 DEF Claim
        <5> QED BY <3>2, <4>1, <5>2, <5>4 DEF Claim
      <4>2. CASE queuedDispatch[worker[w].task] # worker[w].gen
        BY <3>2, <4>2, RecordTypes, WorkerReplaced DEF Claim
      <4> QED BY <4>1, <4>2
    <3>3. CASE CheckRow(w)
      <4>1. worker' \in [Workers -> Coroutine]
        BY <3>3, GotoType DEF CheckRow, Points, Owning, Executing
      <4>2. [task |-> worker[w].task, gen |-> worker[w].gen] \in Assignment
        BY DEF Coroutine, Assignment
      <4> QED BY <3>3, <4>1, <4>2 DEF CheckRow
    <3>4. CASE ReadBeforeEnd(w)
      <4>1. worker' \in [Workers -> Coroutine]
        BY <3>4, GotoType DEF ReadBeforeEnd, Points, Owning
      <4> QED BY <3>4, <4>1 DEF ReadBeforeEnd
    <3>5. CASE CommitEnd(w)
      <4>1. worker' \in [Workers -> Coroutine]
        BY <3>5, GotoType DEF CommitEnd, Points, Owning
      <4>2. row' \in [Tasks -> Row]
        BY <3>5, SetStatusType DEF CommitEnd, Statuses, Terminal
      <4> QED BY <3>5, <4>1, <4>2 DEF CommitEnd
    <3>6. CASE Release(w)
      <4>1. worker' \in [Workers -> Coroutine]
        BY <3>6, RecordTypes DEF Release
      <4>2. slot' \in [Workers -> Assignment]
        BY <3>6, RecordTypes DEF Release
      <4> QED BY <3>6, <4>1, <4>2, ReleasedType DEF Release
    <3> QED BY <2>5, <3>1, <3>2, <3>3, <3>4, <3>5, <3>6 DEF Drive
  <2>6. ASSUME NEW w \in Workers, Run(w) PROVE TypeOK'
    <3> USE DEF Points, Owning, Executing
    <3>1. CASE Prologue(w) \/ CallTool(w) \/ Handoff(w)
      <4>1. worker' \in [Workers -> Coroutine]
        BY <3>1, GotoType DEF Prologue, CallTool, Handoff
      <4> QED BY <3>1, <4>1 DEF Prologue, CallTool, Handoff
    <3>2. CASE Start(w) \/ Think(w) \/ Complete(w)
      <4>1. worker' \in [Workers -> Coroutine]
        <5>1. CASE Start(w)
          BY <5>1, GotoType, EnterType DEF Start, Batches
        <5>2. CASE Think(w) \/ Complete(w)
          BY <5>2, GotoType DEF Think, Complete
        <5> QED BY <3>2, <5>1, <5>2
      <4>2. row' \in [Tasks -> Row]
        BY <3>2, SetStatusType
           DEF Start, Think, Complete, Statuses, Active, Terminal
      <4> QED BY <3>2, <4>1, <4>2 DEF Start, Think, Complete
    <3>3. CASE YieldToForeground(w)
      <4>1. row' \in [Tasks -> Row]
        BY <3>3, SetStatusType DEF YieldToForeground, Statuses, Active
      <4> QED BY <3>3, <4>1 DEF YieldToForeground
    <3>4. CASE RecordIntent(w)
      <4> DEFINE t == worker[w].task
                 r == [row[t] EXCEPT !.status = "using_tool",
                                     !.evidence = TRUE]
      <4>1. worker' \in [Workers -> Coroutine]
        BY <3>4, GotoType DEF RecordIntent
      <4>2. ASSUME t \in Tasks PROVE r \in Row
        <5>1. row[t] \in Row /\ "using_tool" \in Statuses
          BY <4>2 DEF Statuses, Active
        <5> HIDE DEF t
        <5> QED BY <5>1 DEF Row
      <4>3. row' = [row EXCEPT ![t] = r]
        BY <3>4 DEF RecordIntent
      <4>4. row' \in [Tasks -> Row]
        BY <4>2, <4>3
      <4> QED BY <3>4, <4>1, <4>4 DEF RecordIntent
    <3>5. CASE DecidePermission(w)
      <4>1. worker' \in [Workers -> Coroutine]
        BY <3>5, GotoType DEF DecidePermission
      <4>2. row' \in [Tasks -> Row]
        BY <3>5, SetStatusType DEF DecidePermission, Statuses, Active
      <4> QED BY <3>5, <4>1, <4>2 DEF DecidePermission
    <3>6. CASE ApprovalAnswered(w)
      <4>1. worker' \in [Workers -> Coroutine]
        BY <3>6, GotoType DEF ApprovalAnswered
      <4>2. row' \in [Tasks -> Row]
        BY <3>6, SetStatusType DEF ApprovalAnswered, Statuses, Active
      <4> QED BY <3>6, <4>1, <4>2 DEF ApprovalAnswered
    <3>7. CASE RunTool(w)
      <4>1. [worker[w] EXCEPT !.pc = "reviewing", !.counted = TRUE]
              \in Coroutine
        BY CountedType
      <4>2. worker' = [worker EXCEPT ![w] =
               [worker[w] EXCEPT !.pc = "reviewing", !.counted = TRUE]]
        BY <3>7 DEF RunTool
      <4>3. worker' \in [Workers -> Coroutine]
        BY <4>1, <4>2, WorkerReplaced
      <4>4. attempts' \in [Tasks -> 0..2]
        <5> DEFINE t == worker[w].task
        <5>1. CASE worker[w].counted \/ attempts[t] = 2
          BY <3>7, <5>1 DEF RunTool
        <5>2. CASE ~(worker[w].counted \/ attempts[t] = 2)
          <6>1. attempts' = [attempts EXCEPT ![t] = attempts[t] + 1]
            BY <3>7, <5>2 DEF RunTool
          <6>2. ASSUME t \in Tasks PROVE attempts[t] + 1 \in 0..2
            <7>1. attempts[t] \in 0..2
              BY <6>2
            <7> HIDE DEF t
            <7> QED BY <5>2, <7>1
          <6> QED BY <6>1, <6>2
        <5> QED BY <5>1, <5>2
      <4> QED BY <3>7, <4>3, <4>4 DEF RunTool
    <3>8. CASE Review(w)
      <4>1. PICK p \in {"turn", "loop", "probing"} : Goto(w, p)
        BY <3>8 DEF Review
      <4>2. worker' \in [Workers -> Coroutine]
        BY <4>1, GotoType
      <4>3. row' \in [Tasks -> Row]
        BY <3>8, SetStatusType DEF Review, Statuses, Active
      <4> QED BY <3>8, <4>2, <4>3 DEF Review
    <3>9. CASE SeekEvidence(w) \/ EndBatch(w)
      <4>1. PICK p \in {"probing", "closing", "loop"}, b \in Batches :
              Enter(w, p, b)
        BY <3>9 DEF SeekEvidence, EndBatch, Batches
      <4>2. worker' \in [Workers -> Coroutine]
        BY <4>1, EnterType
      <4> QED BY <3>9, <4>2 DEF SeekEvidence, EndBatch
    <3> QED BY <2>6, <3>1, <3>2, <3>3, <3>4, <3>5, <3>6, <3>7, <3>8, <3>9 DEF Run
  <2>7. ASSUME NEW w \in Workers, Abort(w) \/ ApprovalCancelled(w) \/ Fail(w)
        PROVE  TypeOK'
    <3>1. worker' \in [Workers -> Coroutine]
      BY <2>7, GotoType DEF Abort, ApprovalCancelled, Fail, Points, Owning
    <3> QED BY <2>7, <3>1 DEF Abort, ApprovalCancelled, Fail
  <2>8. ASSUME NEW w \in Workers, WorkerCrash(w) PROVE TypeOK'
    <3>1. worker' \in [Workers -> Coroutine] /\ budget' \in Budget
      BY <2>8, RecordTypes, BudgetSpent DEF WorkerCrash
    <3>2. activeGeneration' \in [Tasks -> Nat] /\ cancelEvents' \subseteq Dispatch
      BY <2>8, ReleasedType DEF WorkerCrash
    <3> QED BY <2>8, <3>1, <3>2 DEF WorkerCrash
  <2>9. ASSUME NEW w \in Workers, SuperviseExit(w) PROVE TypeOK'
    <3>1. CASE slot[w].task = NoTask
      <4>1. worker' \in [Workers -> Coroutine]
        BY <2>9, <3>1, RecordTypes DEF SuperviseExit
      <4> QED BY <2>9, <3>1, <4>1 DEF SuperviseExit
    <3>2. CASE slot[w].task # NoTask
      <4>1. slot[w].task \in Tasks
        BY <3>2 DEF Assignment
      <4>2. activeGeneration' \in [Tasks -> Nat] /\ cancelEvents' \subseteq Dispatch
        BY <2>9, <3>2, ReleasedType DEF SuperviseExit
      <4> QED BY <2>9, <3>2, <4>1, <4>2 DEF SuperviseExit
    <3> QED BY <3>1, <3>2
  <2>10. CASE RecoverTask \/ RecoverTaskFails
    <3>1. PICK w \in Workers : Restarted(w)
      BY <2>10 DEF RecoverTask, RecoverTaskFails
    <3>2. /\ worker' \in [Workers -> Coroutine]
          /\ slot' \in [Workers -> Assignment]
          /\ supervisor' \in [worker : Workers \cup {NoWorker}, seen : Row]
      BY <3>1, RecordTypes DEF Restarted
    <3>3. CASE RecoverTask
      <4>1. PICK v \in Workers : row' = [row EXCEPT ![slot[v].task] =
                 RecoveredRow(supervisor.seen, row[slot[v].task])]
        BY <3>3 DEF RecoverTask
      <4>2. slot[v].task \in Tasks =>
              RecoveredRow(supervisor.seen, row[slot[v].task]) \in Row
        BY RecoveryRows
      <4>3. row' \in [Tasks -> Row]
        BY <4>1, <4>2
      <4> QED BY <3>3, <3>2, <4>3 DEF RecoverTask
    <3>4. CASE RecoverTaskFails
      <4>1. budget' \in Budget
        BY <3>4, BudgetSpent DEF RecoverTaskFails
      <4> QED BY <3>4, <3>2, <4>1 DEF RecoverTaskFails
    <3> QED BY <2>10, <3>3, <3>4
  <2>11. ASSUME NEW t \in Tasks, Cancel(t) PROVE TypeOK'
    <3>1. CASE CancelRead(t)
      <4>1. [step |-> "read", seen |-> row[t]] \in CancelState
        BY DEF CancelState
      <4> QED BY <3>1, <4>1, BudgetSpent DEF CancelRead
    <3>2. CASE CancelCommit(t)
      <4> DEFINE seen == cancelRequest[t].seen
      <4>1. seen \in Row /\ [cancelRequest[t] EXCEPT !.step = "committed"]
                              \in CancelState
        BY DEF CancelState
      <4>2. CancelledRow(seen, row[t]) \in Row
        BY <4>1, RecoveryRows
      <4> QED BY <3>2, <4>1, <4>2 DEF CancelCommit
    <3>3. CASE CancelSignal(t)
      <4>1. dispatchGeneration' \in [Tasks -> Nat]
            /\ queuedDispatch' \in [Tasks -> Nat]
        <5>1. CASE queuedDispatch[t] = 0
          BY <3>3, <5>1 DEF CancelSignal
        <5>2. CASE queuedDispatch[t] # 0
          <6> DEFINE m == (IF dispatchGeneration[t] >= queuedDispatch[t]
                           THEN dispatchGeneration[t]
                           ELSE queuedDispatch[t]) + 1
          <6>1. m \in Nat
            OBVIOUS
          <6>2. /\ dispatchGeneration' = [dispatchGeneration EXCEPT ![t] = m]
                /\ queuedDispatch' = [queuedDispatch EXCEPT ![t] = 0]
            BY <3>3, <5>2 DEF CancelSignal
          <6> HIDE DEF m
          <6> QED BY <6>1, <6>2
        <5> QED BY <5>1, <5>2
      <4>2. cancelEvents' \subseteq Dispatch
        BY <3>3 DEF CancelSignal, Signalled, Dispatch
      <4>3. cancelRequest' \in [Tasks -> CancelState]
        BY <3>3, RecordTypes DEF CancelSignal
      <4>4. stopped' \in [Tasks -> {"no", "recorded", "signalled"}]
        BY <3>3 DEF CancelSignal
      <4> QED BY <3>3, <4>1, <4>2, <4>3, <4>4 DEF CancelSignal
    <3> QED BY <2>11, <3>1, <3>2, <3>3 DEF Cancel
  <2>12. ASSUME NEW t \in Tasks, NEW k \in Taps, Retry(t, k) PROVE TypeOK'
    <3>1. CASE RetryRead(t, k)
      <4>1. [pending |-> TRUE, seen |-> row[t]] \in RetryState
        BY DEF RetryState
      <4>2. retryRequest' \in [Tasks -> [Taps -> RetryState]]
        BY <3>1, <4>1 DEF RetryRead
      <4> QED BY <3>1, <4>2, BudgetSpent DEF RetryRead
    <3>2. CASE RetryCommit(t, k)
      <4> DEFINE seen == retryRequest[t][k].seen
                 c == Written(seen.cancel, FALSE, row[t].cancel)
                 n == Written(seen.recoveries, 0, row[t].recoveries)
                 q == IF seen.recoveries = 0 THEN row[t].quarantined ELSE FALSE
                 r == [row[t] EXCEPT !.status = "queued", !.cancel = c,
                                     !.recoveries = n, !.quarantined = q]
      <4>1. seen \in Row /\ row[t] \in Row
        BY DEF RetryState
      <4>2. c \in BOOLEAN /\ n \in Nat /\ q \in BOOLEAN
        BY <4>1 DEF Written, Row
      <4>3. r \in Row
        <5> HIDE DEF c, n, q
        <5> QED BY <4>1, <4>2 DEF Row, Statuses
      <4>4. row' = [row EXCEPT ![t] = r]
        BY <3>2 DEF RetryCommit
      <4>5. row' \in [Tasks -> Row]
        BY <4>3, <4>4
      <4>6. \A w \in Workers : [worker[w] EXCEPT !.counted = TRUE] \in Coroutine
        BY CountedType
      <4>7. worker' \in [Workers -> Coroutine]
        BY <3>2, <4>6 DEF RetryCommit
      <4>8. retryRequest' \in [Tasks -> [Taps -> RetryState]]
        BY <3>2, RecordTypes DEF RetryCommit
      <4>9. attempts' \in [Tasks -> 0..2]
            /\ stopped' \in [Tasks -> {"no", "recorded", "signalled"}]
        BY <3>2 DEF RetryCommit
      <4> QED BY <3>2, <4>5, <4>7, <4>8, <4>9 DEF RetryCommit
    <3> QED BY <2>12, <3>1, <3>2 DEF Retry
  <2>13. CASE StopSignal
    <3>1. budget' \in Budget
      BY <2>13, BudgetSpent DEF StopSignal
    <3>2. cancelEvents' \subseteq Dispatch
      BY <2>13 DEF StopSignal, Dispatch
    <3> QED BY <2>13, <3>1, <3>2 DEF StopSignal
  <2>14. CASE StopEnd \/ Kill
    <3>1. budget' \in Budget
      BY <2>14, BudgetSpent DEF StopEnd, Kill
    <3> QED BY <2>14, <3>1, RecordTypes DEF StopEnd, Kill, VolatileLost
  <2>15. CASE StartManager
    <3>1. row' \in [Tasks -> Row]
      BY <2>15, RecoveryRows DEF StartManager
    <3> QED BY <2>15, <3>1 DEF StartManager
  <2> QED
    BY <2>1, <2>2, <2>3, <2>4, <2>5, <2>6, <2>7, <2>8, <2>9, <2>10, <2>11,
       <2>12, <2>13, <2>14, <2>15 DEF Next
<1> QED BY <1>1, <1>2, PTL DEF Spec

-----------------------------------------------------------------------------
(* One executor per task.  Ownership is the inductive invariant; most      *)
(* actions either leave what it speaks of alone or move one owner from one *)
(* owning program point to another.                                        *)

ownership == <<heap, queuedDispatch, dispatchGeneration, activeGeneration,
               enqueuing, slot>>

\* The coroutines keep task and generation, and whether they own or have died.
SameHolders ==
    \A v \in Workers :
        /\ worker'[v].task = worker[v].task
        /\ worker'[v].gen = worker[v].gen
        /\ Owns(v)' <=> Owns(v)
        /\ worker'[v].pc = "dead" <=> worker[v].pc = "dead"
        /\ worker'[v].pc = "got" <=> worker[v].pc = "got"

\* A step that only moves coroutines within their role keeps Ownership.
LEMMA HoldersKept ==
    ASSUME Ownership, SameHolders, UNCHANGED ownership
    PROVE  Ownership'
<1>1. OwnersAreActive'
  BY DEF Ownership, OwnersAreActive, SameHolders, ownership
<1>2. QueuedXorActive'
  BY DEF Ownership, QueuedXorActive, ownership
<1>3. TuplesAreDispatches'
  BY DEF Ownership, TuplesAreDispatches, SameHolders, ownership
<1>4. SlotsAreCurrentOrDead'
  BY DEF Ownership, SlotsAreCurrentOrDead, SameHolders, ownership
<1>5. OneExecutor'
  BY DEF Ownership, OneExecutor, SameHolders, ownership
<1> QED BY <1>1, <1>2, <1>3, <1>4, <1>5 DEF Ownership

\* An owner that moves to another owning point keeps what it holds.
LEMMA MoveKeepsHolders ==
    ASSUME TypeOK, NEW w \in Workers, NEW p \in Owning, Owns(w), Goto(w, p)
    PROVE  SameHolders
<1>1. p \in Points /\ p # "dead" /\ p # "got"
  BY DEF Points, Owning, Executing
<1>2. /\ worker'[w].pc = p
      /\ worker'[w].task = worker[w].task
      /\ worker'[w].gen = worker[w].gen
      /\ \A v \in Workers \ {w} : worker'[v] = worker[v]
  BY <1>1, GotoType DEF TypeOK
<1>3. worker[w].pc # "dead" /\ worker[w].pc # "got"
  BY DEF Owns, Owning, Executing
<1> QED BY <1>1, <1>2, <1>3 DEF SameHolders, Owns

\* So does an owner that begins or ends a batch of evidence tools.
LEMMA EnterKeepsHolders ==
    ASSUME TypeOK, NEW w \in Workers, NEW p \in Owning, NEW b \in Batches,
           Owns(w), Enter(w, p, b)
    PROVE  SameHolders
<1>1. p \in Points /\ p # "dead" /\ p # "got"
  BY DEF Points, Owning, Executing
<1>2. /\ worker'[w].pc = p
      /\ worker'[w].task = worker[w].task
      /\ worker'[w].gen = worker[w].gen
      /\ \A v \in Workers \ {w} : worker'[v] = worker[v]
  BY <1>1, EnterType DEF TypeOK
<1>3. worker[w].pc # "dead" /\ worker[w].pc # "got"
  BY DEF Owns, Owning, Executing
<1> QED BY <1>1, <1>2, <1>3 DEF SameHolders, Owns

\* The steps that begin or end a batch of evidence tools.
LEMMA BatchSteps ==
    ASSUME NEW w \in Workers, SeekEvidence(w) \/ EndBatch(w)
    PROVE  /\ worker[w].pc \in {"turn", "closing", "probing"}
           /\ \E p \in {"probing", "closing", "loop"}, b \in Batches :
                Enter(w, p, b)
           /\ UNCHANGED row /\ StepFrame
  BY DEF SeekEvidence, EndBatch, Batches

\* The first write leads to the loop, or to the evidence bootstrap.
LEMMA StartSteps ==
    ASSUME NEW w \in Workers, Start(w)
    PROVE  Goto(w, "loop") \/ Enter(w, "probing", "open")
  BY DEF Start

\* The steps of a running attempt move an owner to another owning point.
LEMMA AttemptKeepsHolders ==
    ASSUME TypeOK, NEW w \in Workers,
           \/ Run(w) \/ Abort(w) \/ ApprovalCancelled(w) \/ Fail(w)
           \/ ReadBeforeEnd(w) \/ CommitEnd(w)
    PROVE  SameHolders /\ UNCHANGED ownership
<1>1. UNCHANGED ownership
  BY DEF Run, Prologue, Start, Think, YieldToForeground,
     SeekEvidence, EndBatch, CallTool,
         RecordIntent, DecidePermission, ApprovalAnswered, RunTool, Review,
         Complete, Handoff, Abort, ApprovalCancelled, Fail, ReadBeforeEnd,
         CommitEnd, StepFrame, dispatcher, ownership
<1>2. SameHolders
  <2>1. CASE YieldToForeground(w)
    BY <2>1 DEF YieldToForeground, SameHolders, Owns
  <2>2. CASE RunTool(w)
    <3>1. /\ worker' = [worker EXCEPT ![w].pc = "reviewing",
                                      ![w].counted = TRUE]
          /\ worker[w].pc = "acting"
      BY <2>2 DEF RunTool
    <3>2. /\ worker'[w].pc = "reviewing"
          /\ worker'[w].task = worker[w].task
          /\ worker'[w].gen = worker[w].gen
          /\ \A v \in Workers \ {w} : worker'[v] = worker[v]
      BY <3>1 DEF TypeOK, Coroutine
    <3> QED BY <3>1, <3>2 DEF SameHolders, Owns, Owning, Executing
  <2>3. CASE SeekEvidence(w) \/ EndBatch(w) \/ Start(w)
    <3>1. Owns(w)
      BY <2>3, BatchSteps DEF Start, Owns, Owning, Executing
    <3>2. \/ \E p \in {"probing", "closing", "loop"}, b \in Batches :
               Enter(w, p, b)
          \/ Goto(w, "loop")
      BY <2>3, BatchSteps, StartSteps DEF Batches
    <3>3. {"probing", "closing", "loop"} \subseteq Owning
      BY DEF Owning, Executing
    <3> QED BY <3>1, <3>2, <3>3, EnterKeepsHolders, MoveKeepsHolders
  <2>4. ASSUME ~YieldToForeground(w), ~RunTool(w), ~Start(w),
               ~SeekEvidence(w), ~EndBatch(w)
        PROVE  SameHolders
    <3>1. Owns(w)
      BY <2>4 DEF Owns, Owning, Executing, Run, Prologue, Think,
         CallTool, RecordIntent, DecidePermission, ApprovalAnswered, Review,
         Complete, Handoff, Abort, ApprovalCancelled, Fail, ReadBeforeEnd,
         CommitEnd
    <3>2. \E p \in Owning : Goto(w, p)
      <4>1. {"starting", "loop", "turn", "beginning", "probing", "using",
             "waiting", "acting", "reviewing", "handoff", "finished",
             "aborting", "failing", "recording", "cancelling"} \subseteq Owning
        BY DEF Owning, Executing
      <4> QED BY <2>4, <4>1 DEF Run, Prologue, Think, CallTool,
         RecordIntent, DecidePermission, ApprovalAnswered, Review, Complete,
         Handoff, Abort, ApprovalCancelled, Fail, ReadBeforeEnd, CommitEnd
    <3> QED BY <3>1, <3>2, MoveKeepsHolders
  <2> QED BY <2>1, <2>2, <2>3, <2>4
<1> QED BY <1>1, <1>2

LEMMA StepsOfAnAttempt ==
    ASSUME TypeOK, Ownership, NEW w \in Workers,
           \/ Run(w) \/ Abort(w) \/ ApprovalCancelled(w) \/ Fail(w)
           \/ ReadBeforeEnd(w) \/ CommitEnd(w)
    PROVE  Ownership'
  BY AttemptKeepsHolders, HoldersKept

\* A dispatch is registered for a task that is neither queued nor active, with
\* a generation no executor, living or dead, ever held.
LEMMA EnqueueKeepsOwnership ==
    ASSUME TypeOK, Ownership, EnqueuePut PROVE Ownership'
<1> DEFINE t == enqueuing
           g == dispatchGeneration[t] + 1
<1> USE DEF TypeOK
<1>1. /\ t \in Tasks /\ g \in Nat /\ g # 0
      /\ dispatchGeneration' = [dispatchGeneration EXCEPT ![t] = g]
      /\ queuedDispatch' = [queuedDispatch EXCEPT ![t] = g]
      /\ heap' = heap \cup {[task |-> t, gen |-> g]}
      /\ enqueuing' = NoTask
      /\ UNCHANGED <<activeGeneration, worker, slot>>
  BY DEF EnqueuePut
<1>2. activeGeneration[t] = 0
  BY <1>1 DEF Ownership, QueuedXorActive
<1>3. OwnersAreActive' /\ OneExecutor'
  BY <1>1 DEF Ownership, OwnersAreActive, OneExecutor, Owns
<1>4. QueuedXorActive'
  BY <1>1, <1>2 DEF Ownership, QueuedXorActive
<1>5. TuplesAreDispatches'
  BY <1>1 DEF Ownership, TuplesAreDispatches
<1>6. SlotsAreCurrentOrDead'
  <2> SUFFICES ASSUME NEW w \in Workers, slot[w].task # NoTask
               PROVE  \/ /\ Owns(w)
                         /\ worker[w].task = slot[w].task
                         /\ worker[w].gen = slot[w].gen
                      \/ /\ worker[w].pc = "dead"
                         /\ slot[w].gen # 0
                         /\ slot[w].gen <= dispatchGeneration'[slot[w].task]
                         /\ slot[w].gen # queuedDispatch'[slot[w].task]
                         /\ slot[w].gen # activeGeneration[slot[w].task]
    BY <1>1 DEF SlotsAreCurrentOrDead, Owns
  <2>1. slot[w].task \in Tasks /\ slot[w].gen \in Nat
    BY DEF Assignment
  <2>2. \/ /\ Owns(w)
           /\ worker[w].task = slot[w].task /\ worker[w].gen = slot[w].gen
        \/ /\ worker[w].pc = "dead"
           /\ slot[w].gen # 0
           /\ slot[w].gen <= dispatchGeneration[slot[w].task]
           /\ slot[w].gen # queuedDispatch[slot[w].task]
           /\ slot[w].gen # activeGeneration[slot[w].task]
    BY DEF Ownership, SlotsAreCurrentOrDead
  <2>3. /\ dispatchGeneration[slot[w].task] <= dispatchGeneration'[slot[w].task]
        /\ slot[w].gen <= dispatchGeneration[slot[w].task]
             /\ slot[w].gen # queuedDispatch[slot[w].task]
             => slot[w].gen # queuedDispatch'[slot[w].task]
    BY <1>1, <2>1
  <2>4. slot[w].gen <= dispatchGeneration[slot[w].task]
        => slot[w].gen <= dispatchGeneration'[slot[w].task]
    BY <1>1, <2>1
  <2> QED BY <2>2, <2>3, <2>4
<1> QED BY <1>3, <1>4, <1>5, <1>6 DEF Ownership

\* An executor takes a tuple: it owns nothing yet.
LEMMA TakeKeepsOwnership ==
    ASSUME TypeOK, Ownership, NEW w \in Workers, Take(w) PROVE Ownership'
<1> USE DEF TypeOK
<1>1. PICK e \in heap :
        /\ heap' = heap \ {e}
        /\ worker' = [worker EXCEPT ![w] =
              [Idle EXCEPT !.pc = "got", !.task = e.task, !.gen = e.gen]]
  BY DEF Take
<1>2. /\ worker'[w].pc = "got" /\ worker'[w].task = e.task
      /\ worker'[w].gen = e.gen
      /\ \A v \in Workers \ {w} : worker'[v] = worker[v]
  BY <1>1 DEF Idle
<1>3. worker[w].pc = "idle" /\ e \in Dispatch /\ e.task \in Tasks /\ e.gen # 0
  BY DEF Take, Dispatch, Ownership, TuplesAreDispatches
<1>4. UNCHANGED <<queuedDispatch, dispatchGeneration, activeGeneration,
                  enqueuing, slot>>
  BY DEF Take
<1>5. ~Owns(w) /\ ~Owns(w)'
  BY <1>2, <1>3 DEF Owns, Owning, Executing
<1>6. OwnersAreActive' /\ OneExecutor'
  BY <1>2, <1>4, <1>5 DEF Ownership, OwnersAreActive, OneExecutor, Owns
<1>7. QueuedXorActive'
  BY <1>4 DEF Ownership, QueuedXorActive
<1>8. TuplesAreDispatches'
  BY <1>1, <1>2, <1>3 DEF Ownership, TuplesAreDispatches
<1>9. SlotsAreCurrentOrDead'
  <2>1. slot[w].task = NoTask
    BY <1>3, <1>5 DEF Ownership, SlotsAreCurrentOrDead
  <2> QED BY <1>2, <1>4, <2>1 DEF Ownership, SlotsAreCurrentOrDead, Owns
<1> QED BY <1>6, <1>7, <1>8, <1>9 DEF Ownership

\* The claim of a current dispatch makes the one owner; a stale tuple is
\* dropped.
LEMMA ClaimKeepsOwnership ==
    ASSUME TypeOK, Ownership, NEW w \in Workers, Claim(w) PROVE Ownership'
<1> DEFINE t == worker[w].task
           g == worker[w].gen
<1> USE DEF TypeOK
<1>1. /\ worker[w].pc = "got" /\ t \in Tasks /\ g # 0 /\ enqueuing = NoTask
      /\ UNCHANGED <<heap, dispatchGeneration, enqueuing, slot>>
  BY DEF Claim, LockFree, Ownership, TuplesAreDispatches
<1>2. ~Owns(w) /\ slot[w].task = NoTask
  BY <1>1 DEF Owns, Owning, Executing, Ownership, SlotsAreCurrentOrDead
<1>3. CASE queuedDispatch[t] = g
  <2>1. /\ queuedDispatch' = [queuedDispatch EXCEPT ![t] = 0]
        /\ activeGeneration' = [activeGeneration EXCEPT ![t] = g]
        /\ Goto(w, "claimed")
    BY <1>3 DEF Claim
  <2>2. /\ worker'[w].pc = "claimed" /\ worker'[w].task = t
        /\ worker'[w].gen = g
        /\ \A v \in Workers \ {w} : worker'[v] = worker[v]
    BY <2>1, GotoType DEF Points, Owning
  <2>3. activeGeneration[t] = 0
    BY <1>1, <1>3 DEF Ownership, QueuedXorActive
  <2>4. \A v \in Workers : Owns(v) => worker[v].task # t
    BY <2>3 DEF Ownership, OwnersAreActive
  <2>5. Owns(w)' /\ \A v \in Workers \ {w} : Owns(v)' <=> Owns(v)
    BY <2>2 DEF Owns, Owning
  <2>6. OwnersAreActive'
    BY <1>1, <2>1, <2>2, <2>4, <2>5 DEF Ownership, OwnersAreActive
  <2>7. OneExecutor'
    BY <2>2, <2>4, <2>5 DEF Ownership, OneExecutor
  <2>8. QueuedXorActive'
    BY <1>1, <1>3, <2>1 DEF Ownership, QueuedXorActive
  <2>9. TuplesAreDispatches'
    BY <1>1, <2>2 DEF Ownership, TuplesAreDispatches
  <2>10. SlotsAreCurrentOrDead'
    BY <1>1, <1>2, <1>3, <2>1, <2>2, <2>5
       DEF Ownership, SlotsAreCurrentOrDead, Assignment
  <2> QED BY <2>6, <2>7, <2>8, <2>9, <2>10 DEF Ownership
<1>4. CASE queuedDispatch[t] # g
  <2>1. /\ worker' = [worker EXCEPT ![w] = Idle]
        /\ UNCHANGED <<queuedDispatch, activeGeneration>>
    BY <1>4 DEF Claim
  <2>2. /\ worker'[w] = Idle /\ \A v \in Workers \ {w} : worker'[v] = worker[v]
    BY <2>1
  <2>3. worker'[w].pc = "idle" /\ ~Owns(w)'
    BY <2>2 DEF Idle, Owns, Owning, Executing
  <2>4. OwnersAreActive' /\ OneExecutor'
    BY <1>2, <2>1, <2>2, <2>3 DEF Ownership, OwnersAreActive, OneExecutor, Owns
  <2>5. QueuedXorActive' /\ TuplesAreDispatches'
    BY <1>1, <2>1, <2>2, <2>3
       DEF Ownership, QueuedXorActive, TuplesAreDispatches
  <2>6. SlotsAreCurrentOrDead'
    BY <1>1, <1>2, <2>1, <2>2 DEF Ownership, SlotsAreCurrentOrDead, Owns
  <2> QED BY <2>4, <2>5, <2>6 DEF Ownership
<1> QED BY <1>3, <1>4

\* After its look at the row the executor publishes its assignment, or gets
\* ready to release.
LEMMA CheckKeepsOwnership ==
    ASSUME TypeOK, Ownership, NEW w \in Workers, CheckRow(w) PROVE Ownership'
<1> USE DEF TypeOK
<1>1. /\ worker[w].pc = "claimed" /\ Owns(w)
      /\ UNCHANGED <<heap, queuedDispatch, dispatchGeneration,
                     activeGeneration, enqueuing>>
  BY DEF CheckRow, Owns, Owning, dispatcher
<1>2. PICK p \in {"assigned", "finished"} : Goto(w, p)
  BY DEF CheckRow
<1>3. SameHolders
  BY <1>1, <1>2, MoveKeepsHolders DEF Owning, Executing
<1>4. /\ worker'[w].task = worker[w].task /\ worker'[w].gen = worker[w].gen
      /\ Owns(w)'
  BY <1>1, <1>3 DEF SameHolders
<1>5. \/ UNCHANGED slot
      \/ slot' = [slot EXCEPT ![w] = [task |-> worker[w].task,
                                      gen |-> worker[w].gen]]
  BY DEF CheckRow
<1>6. OwnersAreActive' /\ OneExecutor' /\ QueuedXorActive' /\ TuplesAreDispatches'
  BY <1>1, <1>3, SMTT(30)
     DEF Ownership, OwnersAreActive, OneExecutor, QueuedXorActive,
         TuplesAreDispatches, SameHolders
<1>7. SlotsAreCurrentOrDead'
  <2>1. CASE UNCHANGED slot
    BY <1>1, <1>3, <2>1 DEF Ownership, SlotsAreCurrentOrDead, SameHolders
  <2>2. CASE slot' = [slot EXCEPT ![w] = [task |-> worker[w].task,
                                          gen |-> worker[w].gen]]
    <3>1. /\ slot'[w].task = worker'[w].task /\ slot'[w].gen = worker'[w].gen
          /\ \A v \in Workers \ {w} : slot'[v] = slot[v]
      BY <1>4, <2>2
    <3> QED BY <1>1, <1>3, <1>4, <3>1
            DEF Ownership, SlotsAreCurrentOrDead, SameHolders
  <2> QED BY <1>5, <2>1, <2>2
<1> QED BY <1>6, <1>7 DEF Ownership

\* The owner lets go of its generation, alive (Release) or dying (WorkerCrash).
\* Nobody else owns the task, so nobody else loses anything.
LEMMA LettingGo ==
    ASSUME TypeOK, Ownership, NEW w \in Workers, Owns(w),
           Released(worker[w].task, worker[w].gen),
           UNCHANGED <<heap, queuedDispatch, dispatchGeneration, enqueuing>>,
           worker'[w].pc \in {"idle", "dead"},
           \A v \in Workers \ {w} : worker'[v] = worker[v],
           \A v \in Workers \ {w} : slot'[v] = slot[v],
           \/ slot'[w].task = NoTask
           \/ worker'[w].pc = "dead" /\ slot'[w] = slot[w]
    PROVE  Ownership'
<1> DEFINE t == worker[w].task
           g == worker[w].gen
<1> USE DEF TypeOK
<1>1. t \in Tasks /\ g # 0 /\ g \in Nat /\ activeGeneration[t] = g
  BY DEF Ownership, OwnersAreActive, Coroutine
<1>2. activeGeneration' = [activeGeneration EXCEPT ![t] = 0]
  BY <1>1, ReleasedType DEF Released
<1>3. queuedDispatch[t] = 0 /\ g <= dispatchGeneration[t]
  BY <1>1 DEF Ownership, QueuedXorActive
<1>4. ~Owns(w)' /\ worker'[w].pc # "got"
  BY DEF Owns, Owning, Executing
<1>5. \A v \in Workers \ {w} : Owns(v) => worker[v].task # t
  BY DEF Ownership, OneExecutor
<1>6. OwnersAreActive' /\ OneExecutor'
  <2>1. \A v \in Workers \ {w} : Owns(v)' <=> Owns(v)
    BY DEF Owns
  <2>2. ASSUME NEW v \in Workers, Owns(v)'
        PROVE  /\ v # w /\ Owns(v) /\ worker'[v] = worker[v]
               /\ worker'[v].task \in Tasks /\ worker'[v].gen # 0
               /\ activeGeneration'[worker'[v].task] = worker'[v].gen
    <3>1. v # w /\ Owns(v) /\ worker'[v] = worker[v]
      BY <1>4, <2>1, <2>2
    <3>2. /\ worker[v].task \in Tasks /\ worker[v].gen # 0
          /\ activeGeneration[worker[v].task] = worker[v].gen
      BY <3>1 DEF Ownership, OwnersAreActive
    <3>3. worker[v].task # t
      BY <1>5, <3>1
    <3> QED BY <1>2, <3>1, <3>2, <3>3
  <2>3. OwnersAreActive'
    BY <2>2 DEF OwnersAreActive
  <2>4. OneExecutor'
    BY <2>2 DEF Ownership, OneExecutor
  <2> QED BY <2>3, <2>4
<1>7. QueuedXorActive'
  BY <1>1, <1>2 DEF Ownership, QueuedXorActive
<1>8. TuplesAreDispatches'
  BY <1>4 DEF Ownership, TuplesAreDispatches
<1>9. SlotsAreCurrentOrDead'
  <2> SUFFICES ASSUME NEW v \in Workers, slot'[v].task # NoTask
               PROVE  \/ /\ Owns(v)'
                         /\ worker'[v].task = slot'[v].task
                         /\ worker'[v].gen = slot'[v].gen
                      \/ /\ worker'[v].pc = "dead"
                         /\ slot'[v].gen # 0
                         /\ slot'[v].gen <= dispatchGeneration'[slot'[v].task]
                         /\ slot'[v].gen # queuedDispatch'[slot'[v].task]
                         /\ slot'[v].gen # activeGeneration'[slot'[v].task]
    BY DEF SlotsAreCurrentOrDead
  <2>1. CASE v = w
    <3>1. worker'[w].pc = "dead" /\ slot'[w] = slot[w]
      BY <2>1
    <3>2. slot[w].task = t /\ slot[w].gen = g
      BY <2>1, <3>1 DEF Ownership, SlotsAreCurrentOrDead, Owns, Owning, Executing
    <3> QED BY <1>1, <1>2, <1>3, <2>1, <3>1, <3>2
  <2>2. CASE v # w
    <3>1. /\ slot'[v] = slot[v] /\ worker'[v] = worker[v]
          /\ Owns(v)' <=> Owns(v)
      BY <2>2 DEF Owns
    <3>2. slot[v].gen # 0 /\ slot[v].gen # activeGeneration[slot[v].task]
          => slot[v].gen # activeGeneration'[slot[v].task]
      BY <1>1, <1>2 DEF Assignment
    <3>3. \/ /\ Owns(v)
             /\ worker[v].task = slot[v].task /\ worker[v].gen = slot[v].gen
          \/ /\ worker[v].pc = "dead"
             /\ slot[v].gen # 0
             /\ slot[v].gen <= dispatchGeneration[slot[v].task]
             /\ slot[v].gen # queuedDispatch[slot[v].task]
             /\ slot[v].gen # activeGeneration[slot[v].task]
      BY <3>1 DEF Ownership, SlotsAreCurrentOrDead
    <3> QED BY <3>1, <3>2, <3>3
  <2> QED BY <2>1, <2>2
<1> QED BY <1>6, <1>7, <1>8, <1>9 DEF Ownership

\* The finally block of _worker.
LEMMA ReleaseKeepsOwnership ==
    ASSUME TypeOK, Ownership, NEW w \in Workers, Release(w) PROVE Ownership'
<1>1. Owns(w)
  BY DEF Release, Owns, Owning
<1>2. /\ Released(worker[w].task, worker[w].gen)
      /\ UNCHANGED <<heap, queuedDispatch, dispatchGeneration, enqueuing>>
      /\ worker' = [worker EXCEPT ![w] = Idle]
      /\ slot' = [slot EXCEPT ![w] =
            IF slot[w] = [task |-> worker[w].task, gen |-> worker[w].gen]
            THEN NoSlot ELSE slot[w]]
  BY DEF Release
<1>3. worker'[w].pc = "idle" /\ \A v \in Workers \ {w} : worker'[v] = worker[v]
  BY <1>2 DEF Idle, TypeOK
<1>4. slot[w].task # NoTask =>
        slot[w] = [task |-> worker[w].task, gen |-> worker[w].gen]
  <2>1. slot[w] \in Assignment
    BY DEF TypeOK
  <2>2. slot[w] = [task |-> slot[w].task, gen |-> slot[w].gen]
    BY <2>1 DEF Assignment
  <2>3. worker[w].pc # "dead"
    BY <1>1 DEF Owns, Owning, Executing
  <2>4. slot[w].task # NoTask =>
          worker[w].task = slot[w].task /\ worker[w].gen = slot[w].gen
    BY <2>3 DEF Ownership, SlotsAreCurrentOrDead
  <2> QED BY <2>2, <2>4
<1>5. slot'[w].task = NoTask /\ \A v \in Workers \ {w} : slot'[v] = slot[v]
  BY <1>2, <1>4 DEF NoSlot, TypeOK
<1> QED BY <1>1, <1>2, <1>3, <1>5, LettingGo

\* A coroutine that dies leaves its slot for the supervisor, nothing else.
LEMMA CrashKeepsOwnership ==
    ASSUME TypeOK, Ownership, NEW w \in Workers, WorkerCrash(w) PROVE Ownership'
<1>1. /\ worker' = [worker EXCEPT ![w] = Dead]
      /\ UNCHANGED <<heap, queuedDispatch, dispatchGeneration, enqueuing, slot>>
  BY DEF WorkerCrash
<1>2. worker'[w].pc = "dead" /\ \A v \in Workers \ {w} : worker'[v] = worker[v]
  BY <1>1 DEF Dead, Idle, TypeOK
<1>3. CASE worker[w].pc = "got"
  <2>1. UNCHANGED activeGeneration
    BY <1>3 DEF WorkerCrash
  <2>2. ~Owns(w) /\ ~Owns(w)' /\ slot[w].task = NoTask
    BY <1>2, <1>3 DEF Owns, Owning, Executing, Ownership, SlotsAreCurrentOrDead
  <2>3. \A v \in Workers \ {w} : Owns(v)' <=> Owns(v)
    BY <1>2 DEF Owns
  <2>4. OwnersAreActive' /\ OneExecutor'
    BY <1>2, <2>1, <2>2, <2>3 DEF Ownership, OwnersAreActive, OneExecutor
  <2>5. QueuedXorActive' /\ TuplesAreDispatches'
    BY <1>1, <1>2, <2>1 DEF Ownership, QueuedXorActive, TuplesAreDispatches
  <2>6. SlotsAreCurrentOrDead'
    BY <1>1, <1>2, <2>1, <2>2, <2>3 DEF Ownership, SlotsAreCurrentOrDead
  <2> QED BY <2>4, <2>5, <2>6 DEF Ownership
<1>4. CASE worker[w].pc # "got"
  <2>1. Owns(w)
    BY <1>4 DEF WorkerCrash, ConstantsAssumption, Owns
  <2>2. Released(worker[w].task, worker[w].gen)
    BY <1>4 DEF WorkerCrash
  <2> QED BY <1>1, <1>2, <2>1, <2>2, LettingGo
<1> QED BY <1>3, <1>4

\* The supervisor's release of a dead executor's generation finds it inactive
\* and changes nothing.
LEMMA SuperviseKeepsOwnership ==
    ASSUME TypeOK, Ownership, NEW w \in Workers, SuperviseExit(w)
    PROVE  Ownership'
<1> USE DEF TypeOK
<1>1. /\ worker[w].pc = "dead" /\ ~Owns(w)
      /\ UNCHANGED <<heap, queuedDispatch, dispatchGeneration, enqueuing, slot>>
  BY DEF SuperviseExit, Owns, Owning, Executing
<1>2. CASE slot[w].task = NoTask
  <2>1. worker' = [worker EXCEPT ![w] = Idle] /\ UNCHANGED activeGeneration
    BY <1>2 DEF SuperviseExit
  <2>2. /\ worker'[w].pc = "idle" /\ ~Owns(w)'
        /\ \A v \in Workers \ {w} : worker'[v] = worker[v]
    BY <2>1 DEF Idle, Owns, Owning, Executing
  <2>3. \A v \in Workers \ {w} : Owns(v)' <=> Owns(v)
    BY <2>2 DEF Owns
  <2>4. OwnersAreActive' /\ OneExecutor'
    BY <1>1, <2>1, <2>2, <2>3 DEF Ownership, OwnersAreActive, OneExecutor
  <2>5. QueuedXorActive' /\ TuplesAreDispatches'
    BY <1>1, <2>1, <2>2 DEF Ownership, QueuedXorActive, TuplesAreDispatches
  <2>6. SlotsAreCurrentOrDead'
    BY <1>1, <1>2, <2>1, <2>2, <2>3 DEF Ownership, SlotsAreCurrentOrDead
  <2> QED BY <2>4, <2>5, <2>6 DEF Ownership
<1>3. CASE slot[w].task # NoTask
  <2>1. Released(slot[w].task, slot[w].gen) /\ UNCHANGED worker
    BY <1>3 DEF SuperviseExit
  <2>2. slot[w].gen # activeGeneration[slot[w].task]
    BY <1>1, <1>3 DEF Ownership, SlotsAreCurrentOrDead
  <2>3. UNCHANGED activeGeneration
    BY <2>1, <2>2, ReleasedType
  <2>4. SameHolders /\ UNCHANGED ownership
    BY <1>1, <2>1, <2>3 DEF SameHolders, Owns, ownership
  <2> QED BY <2>4, HoldersKept
<1> QED BY <1>2, <1>3

\* A restarted executor starts with nothing.
LEMMA RestartKeepsOwnership ==
    ASSUME TypeOK, Ownership, NEW w \in Workers, Restarted(w),
           UNCHANGED dispatcher
    PROVE  Ownership'
<1> USE DEF TypeOK, dispatcher
<1>1. /\ worker'[w].pc = "idle" /\ ~Owns(w)' /\ slot'[w].task = NoTask
      /\ \A v \in Workers \ {w} : worker'[v] = worker[v] /\ slot'[v] = slot[v]
  BY DEF Restarted, Idle, NoSlot, Owns, Owning, Executing
<1>2. \A v \in Workers \ {w} : Owns(v)' <=> Owns(v)
  BY <1>1 DEF Owns
<1>3. OwnersAreActive' /\ OneExecutor'
  BY <1>1, <1>2, SMTT(30) DEF Ownership, OwnersAreActive, OneExecutor
<1>4. QueuedXorActive' /\ TuplesAreDispatches'
  BY <1>1 DEF Ownership, QueuedXorActive, TuplesAreDispatches
<1>5. SlotsAreCurrentOrDead'
  BY <1>1, <1>2 DEF Ownership, SlotsAreCurrentOrDead
<1> QED BY <1>3, <1>4, <1>5 DEF Ownership

\* Cancelling withdraws the queued dispatch and moves the generation on.
LEMMA SignalKeepsOwnership ==
    ASSUME TypeOK, Ownership, NEW t \in Tasks, CancelSignal(t)
    PROVE  Ownership'
<1> USE DEF TypeOK
<1>1. UNCHANGED <<heap, activeGeneration, enqueuing, worker, slot>>
  BY DEF CancelSignal
<1>2. CASE queuedDispatch[t] = 0
  <2>1. UNCHANGED <<queuedDispatch, dispatchGeneration>>
    BY <1>2 DEF CancelSignal
  <2>2. SameHolders /\ UNCHANGED ownership
    BY <1>1, <2>1 DEF SameHolders, Owns, ownership
  <2> QED BY <2>2, HoldersKept
<1>3. CASE queuedDispatch[t] # 0
  <2>1. /\ queuedDispatch' = [queuedDispatch EXCEPT ![t] = 0]
        /\ \A u \in Tasks : dispatchGeneration[u] <= dispatchGeneration'[u]
        /\ dispatchGeneration' \in [Tasks -> Nat]
    <3>1. /\ queuedDispatch' = [queuedDispatch EXCEPT ![t] = 0]
          /\ dispatchGeneration' =
               [dispatchGeneration EXCEPT ![t] =
                  (IF dispatchGeneration[t] >= queuedDispatch[t]
                   THEN dispatchGeneration[t] ELSE queuedDispatch[t]) + 1]
      BY <1>3 DEF CancelSignal
    <3> DEFINE m == (IF dispatchGeneration[t] >= queuedDispatch[t]
                     THEN dispatchGeneration[t] ELSE queuedDispatch[t]) + 1
    <3>2. m \in Nat /\ dispatchGeneration[t] <= m
      OBVIOUS
    <3>3. dispatchGeneration' = [dispatchGeneration EXCEPT ![t] = m]
      BY <3>1
    <3> HIDE DEF m
    <3> QED BY <3>1, <3>2, <3>3
  <2>2. OwnersAreActive' /\ OneExecutor' /\ TuplesAreDispatches'
    BY <1>1 DEF Ownership, OwnersAreActive, OneExecutor, TuplesAreDispatches,
                Owns
  <2>3. QueuedXorActive'
    <3>1. \A u \in Tasks : activeGeneration[u] <= dispatchGeneration'[u]
      BY <2>1 DEF Ownership, QueuedXorActive
    <3>2. \A u \in Tasks : queuedDispatch'[u] <= dispatchGeneration'[u]
      BY <2>1 DEF Ownership, QueuedXorActive
    <3> QED BY <1>1, <2>1, <3>1, <3>2 DEF Ownership, QueuedXorActive
  <2>4. SlotsAreCurrentOrDead'
    <3>0. \A w \in Workers : Owns(w)' <=> Owns(w)
      BY <1>1 DEF Owns
    <3> SUFFICES ASSUME NEW w \in Workers, slot[w].task # NoTask,
                        ~(/\ Owns(w)
                          /\ worker[w].task = slot[w].task
                          /\ worker[w].gen = slot[w].gen)
                 PROVE  /\ worker[w].pc = "dead"
                        /\ slot[w].gen # 0
                        /\ slot[w].gen <= dispatchGeneration'[slot[w].task]
                        /\ slot[w].gen # queuedDispatch'[slot[w].task]
                        /\ slot[w].gen # activeGeneration[slot[w].task]
      BY <1>1, <3>0 DEF SlotsAreCurrentOrDead
    <3>1. slot[w].task \in Tasks /\ slot[w].gen \in Nat
      BY DEF Assignment
    <3>2. /\ worker[w].pc = "dead"
          /\ slot[w].gen # 0
          /\ slot[w].gen <= dispatchGeneration[slot[w].task]
          /\ slot[w].gen # queuedDispatch[slot[w].task]
          /\ slot[w].gen # activeGeneration[slot[w].task]
      BY DEF Ownership, SlotsAreCurrentOrDead
    <3> QED BY <2>1, <3>1, <3>2
  <2> QED BY <2>2, <2>3, <2>4 DEF Ownership
<1> QED BY <1>2, <1>3

\* A stopped Core has neither dispatches nor owners.
LEMMA LossKeepsOwnership ==
    ASSUME VolatileLost PROVE Ownership'
<1>1. \A w \in Workers : worker'[w] = Idle /\ slot'[w] = NoSlot
  BY DEF VolatileLost
<1>2. \A w \in Workers : ~Owns(w)' /\ worker'[w].pc = "idle"
                         /\ slot'[w].task = NoTask
  BY <1>1 DEF Owns, Idle, NoSlot, Owning, Executing
<1>3. \A t \in Tasks : /\ queuedDispatch'[t] = 0 /\ activeGeneration'[t] = 0
                       /\ dispatchGeneration'[t] = 0 /\ enqueuing' # t
  BY DEF VolatileLost
<1>4. heap' = {}
  BY DEF VolatileLost
<1> QED BY <1>2, <1>3, <1>4
        DEF Ownership, OwnersAreActive, QueuedXorActive, TuplesAreDispatches,
            SlotsAreCurrentOrDead, OneExecutor

\* An owner holds the active generation of its task, a task is never queued and
\* active at once, and what a dead executor leaves in its slot is not current.
THEOREM OwnershipInvariant == Spec => []Ownership
<1>1. Init => Ownership
  BY DEF Init, Idle, NoSlot, Ownership, OwnersAreActive, QueuedXorActive,
         TuplesAreDispatches, SlotsAreCurrentOrDead, OneExecutor, Owns, Owning,
         Executing
<1>2. TypeOK /\ Ownership /\ [Next]_vars => Ownership'
  <2> SUFFICES ASSUME TypeOK, Ownership, [Next]_vars PROVE Ownership'
    OBVIOUS
  <2> USE DEF dispatcher, requests, history, ownership
  <2>1. CASE UNCHANGED vars
    <3>1. SameHolders /\ UNCHANGED ownership
      BY <2>1 DEF vars, SameHolders, Owns
    <3> QED BY <3>1, HoldersKept
  <2>2. ASSUME NEW t \in Tasks,
               CreateTask(t) \/ CancelRead(t) \/ CancelCommit(t)
        PROVE  Ownership'
    <3>1. SameHolders /\ UNCHANGED ownership
      BY <2>2 DEF CreateTask, CancelRead, CancelCommit, SameHolders, Owns
    <3> QED BY <3>1, HoldersKept
  <2>3. ASSUME NEW t \in Tasks, EnqueueRead(t) PROVE Ownership'
    <3>1. /\ queuedDispatch[t] = 0 /\ activeGeneration[t] = 0
          /\ enqueuing' = t
          /\ UNCHANGED <<heap, queuedDispatch, dispatchGeneration,
                         activeGeneration, worker, slot>>
      BY <2>3 DEF EnqueueRead
    <3> QED BY <3>1 DEF Ownership, OwnersAreActive, QueuedXorActive,
                        TuplesAreDispatches, SlotsAreCurrentOrDead,
                        OneExecutor, Owns
  <2>4. ASSUME NEW t \in Tasks, NEW k \in Taps, Retry(t, k) PROVE Ownership'
    <3>1. UNCHANGED ownership
      BY <2>4 DEF Retry, RetryRead, RetryCommit
    <3>2. SameHolders
      <4>1. CASE RetryRead(t, k)
        BY <4>1 DEF RetryRead, SameHolders, Owns
      <4>2. CASE RetryCommit(t, k)
        BY <4>2 DEF RetryCommit, SameHolders, Owns, TypeOK, Coroutine
      <4> QED BY <2>4, <4>1, <4>2 DEF Retry
    <3> QED BY <3>1, <3>2, HoldersKept
  <2>5. ASSUME NEW w \in Workers,
               \/ Drive(w) \/ Run(w) \/ Abort(w) \/ ApprovalCancelled(w)
               \/ Fail(w) \/ WorkerCrash(w) \/ SuperviseExit(w)
        PROVE  Ownership'
    BY <2>5, TakeKeepsOwnership, ClaimKeepsOwnership, CheckKeepsOwnership,
       StepsOfAnAttempt, ReleaseKeepsOwnership, CrashKeepsOwnership,
       SuperviseKeepsOwnership DEF Drive
  <2>6. CASE RecoverTask \/ RecoverTaskFails
    BY <2>6, RestartKeepsOwnership DEF RecoverTask, RecoverTaskFails
  <2>7. CASE StopSignal \/ StartManager
    <3>1. SameHolders /\ UNCHANGED ownership
      BY <2>7 DEF StopSignal, StartManager, SameHolders, Owns
    <3> QED BY <3>1, HoldersKept
  <2>8. CASE StopEnd \/ Kill
    BY <2>8, LossKeepsOwnership DEF StopEnd, Kill
  <2> QED
    BY <2>1, <2>2, <2>3, <2>4, <2>5, <2>6, <2>7, <2>8,
       EnqueueKeepsOwnership, SignalKeepsOwnership DEF Next, Cancel
<1> QED BY <1>1, <1>2, TypeCorrect, PTL DEF Spec

\* Whatever is cancelled, retried, crashed or restarted, two executors never
\* work on one task.
THEOREM OneExecutorAlways == Spec => []OneExecutor
<1>1. Ownership => OneExecutor
  BY DEF Ownership
<1> QED BY <1>1, OwnershipInvariant, PTL

-----------------------------------------------------------------------------
(* No leaked slot.  What keeps enqueue() from accepting a task is in the   *)
(* hands of a tuple or of an executor that will clear it.                  *)

\* The supervisor is only ever busy with an executor that has died.
Supervised ==
    supervisor.worker # NoWorker => worker[supervisor.worker].pc = "dead"

dispatches == <<heap, queuedDispatch, activeGeneration>>

\* What a step does to dispatches and coroutines.
LEMMA DispatchFrame ==
    ASSUME TypeOK, Ownership, [Next]_vars
    PROVE  \/ SameHolders /\ UNCHANGED dispatches /\ UNCHANGED supervisor
           \/ EnqueuePut \/ VolatileLost
           \/ \E t \in Tasks : CancelSignal(t)
           \/ \E w \in Workers : \/ Take(w) \/ Claim(w) \/ Release(w)
                                 \/ WorkerCrash(w) \/ SuperviseExit(w)
           \/ \E w \in Workers : /\ supervisor.worker = w /\ Restarted(w)
                                 /\ UNCHANGED dispatches
<1> USE DEF dispatches, dispatcher, requests, history, StepFrame
<1>1. ASSUME NEW t \in Tasks,
             CreateTask(t) \/ EnqueueRead(t) \/ CancelRead(t) \/ CancelCommit(t)
      PROVE  SameHolders /\ UNCHANGED dispatches /\ UNCHANGED supervisor
  BY <1>1 DEF CreateTask, EnqueueRead, CancelRead, CancelCommit, SameHolders, Owns
<1>2. ASSUME NEW t \in Tasks, NEW k \in Taps, Retry(t, k)
      PROVE  SameHolders /\ UNCHANGED dispatches /\ UNCHANGED supervisor
  <2>1. CASE RetryRead(t, k)
    BY <2>1 DEF RetryRead, SameHolders, Owns
  <2>2. CASE RetryCommit(t, k)
    BY <2>2 DEF RetryCommit, SameHolders, Owns, TypeOK, Coroutine
  <2> QED BY <1>2, <2>1, <2>2 DEF Retry
<1>3. ASSUME NEW w \in Workers,
             \/ Run(w) \/ Abort(w) \/ ApprovalCancelled(w) \/ Fail(w)
             \/ ReadBeforeEnd(w) \/ CommitEnd(w)
      PROVE  SameHolders /\ UNCHANGED dispatches /\ UNCHANGED supervisor
  <2>1. SameHolders /\ UNCHANGED ownership
    BY <1>3, AttemptKeepsHolders
  <2>2. UNCHANGED supervisor
    BY <1>3 DEF Run, Prologue, Start, Think, YieldToForeground,
       SeekEvidence, EndBatch, CallTool,
         RecordIntent, DecidePermission, ApprovalAnswered, RunTool, Review,
         Complete, Handoff, Abort, ApprovalCancelled, Fail, ReadBeforeEnd,
         CommitEnd
  <2> QED BY <2>1, <2>2 DEF ownership
<1>4. ASSUME NEW w \in Workers, CheckRow(w)
      PROVE  SameHolders /\ UNCHANGED dispatches /\ UNCHANGED supervisor
  <2>1. PICK p \in {"assigned", "finished"} : Goto(w, p)
    BY <1>4 DEF CheckRow
  <2>2. Owns(w)
    BY <1>4 DEF CheckRow, Owns, Owning
  <2>3. SameHolders
    BY <2>1, <2>2, MoveKeepsHolders DEF Owning, Executing
  <2> QED BY <1>4, <2>3 DEF CheckRow
<1>5. CASE StopSignal \/ StartManager \/ UNCHANGED vars
  BY <1>5 DEF StopSignal, StartManager, vars, SameHolders, Owns
<1>6. CASE RecoverTask \/ RecoverTaskFails
  BY <1>6 DEF RecoverTask, RecoverTaskFails
<1>7. CASE StopEnd \/ Kill
  BY <1>7 DEF StopEnd, Kill
<1> QED BY <1>1, <1>2, <1>3, <1>4, <1>5, <1>6, <1>7 DEF Next, Drive, Cancel

LEMMA SupervisedStep ==
    ASSUME TypeOK, Ownership, Supervised, [Next]_vars
    PROVE  Supervised'
<1> USE DEF TypeOK
<1>1. CASE SameHolders /\ UNCHANGED supervisor
  BY <1>1 DEF Supervised, SameHolders
<1>2. CASE VolatileLost
  BY <1>2 DEF VolatileLost, NoHandler, Supervised
<1>3. CASE EnqueuePut \/ \E t \in Tasks : CancelSignal(t)
  BY <1>3 DEF EnqueuePut, CancelSignal, Supervised
<1>4. ASSUME NEW w \in Workers, Take(w) \/ Claim(w) \/ Release(w) \/ WorkerCrash(w)
      PROVE  Supervised'
  <2>1. /\ UNCHANGED supervisor
        /\ worker[w].pc = "dead" => worker'[w].pc = "dead"
        /\ \A v \in Workers \ {w} : worker'[v] = worker[v]
    <3>1. CASE Take(w)
      BY <3>1 DEF Take
    <3>2. CASE Claim(w)
      BY <3>2 DEF Claim, Goto
    <3>3. CASE Release(w)
      BY <3>3 DEF Release
    <3>4. CASE WorkerCrash(w)
      BY <3>4 DEF WorkerCrash, Dead, Idle
    <3> QED BY <1>4, <3>1, <3>2, <3>3, <3>4
  <2> QED BY <2>1 DEF Supervised
<1>5. ASSUME NEW w \in Workers, SuperviseExit(w) PROVE Supervised'
  BY <1>5 DEF SuperviseExit, Supervised
<1>6. ASSUME NEW w \in Workers, Restarted(w) PROVE Supervised'
  BY <1>6 DEF Restarted, NoHandler, Supervised
<1> QED BY <1>1, <1>2, <1>3, <1>4, <1>5, <1>6, DispatchFrame

\* Where the two parts of NoLeakedSlot find the one that will clear them.
Carried(t) ==
    \/ [task |-> t, gen |-> queuedDispatch[t]] \in heap
    \/ \E w \in Workers : /\ worker[w].pc = "got" /\ worker[w].task = t
                          /\ worker[w].gen = queuedDispatch[t]
Owned(t) ==
    \E w \in Workers : /\ Owns(w) /\ worker[w].task = t
                       /\ worker[w].gen = activeGeneration[t]

LEMMA NoLeakedSlotParts ==
    NoLeakedSlot <=> \A t \in Tasks : /\ queuedDispatch[t] # 0 => Carried(t)
                                      /\ activeGeneration[t] # 0 => Owned(t)
  BY DEF NoLeakedSlot, Carried, Owned

LEMMA NoLeakedSlotStep ==
    ASSUME TypeOK, Ownership, Supervised, NoLeakedSlot, [Next]_vars,
           "got" \notin CrashPoints
    PROVE  NoLeakedSlot'
<1> USE DEF TypeOK
<1> SUFFICES ASSUME NEW t \in Tasks
             PROVE  /\ queuedDispatch'[t] # 0 => Carried(t)'
                    /\ activeGeneration'[t] # 0 => Owned(t)'
  BY DEF NoLeakedSlot, Carried, Owned
<1>0. /\ queuedDispatch[t] # 0 => Carried(t)
      /\ activeGeneration[t] # 0 => Owned(t)
  BY NoLeakedSlotParts
<1>1. CASE SameHolders /\ UNCHANGED dispatches
  BY <1>0, <1>1 DEF SameHolders, dispatches, Carried, Owned
<1>2. CASE EnqueuePut
  <2>1. UNCHANGED <<activeGeneration, worker>>
    BY <1>2 DEF EnqueuePut
  <2>2. activeGeneration'[t] # 0 => Owned(t)'
    BY <1>0, <2>1 DEF Owned, Owns
  <2>3. heap \subseteq heap' /\
        \/ queuedDispatch'[t] = queuedDispatch[t]
        \/ [task |-> t, gen |-> queuedDispatch'[t]] \in heap'
    BY <1>2 DEF EnqueuePut
  <2>4. queuedDispatch'[t] # 0 => Carried(t)'
    BY <1>0, <2>1, <2>3 DEF Carried
  <2> QED BY <2>2, <2>4
<1>3. CASE VolatileLost
  BY <1>3 DEF VolatileLost
<1>4. ASSUME NEW u \in Tasks, CancelSignal(u)
      PROVE  /\ queuedDispatch'[t] # 0 => Carried(t)'
             /\ activeGeneration'[t] # 0 => Owned(t)'
  <2>1. /\ UNCHANGED <<heap, activeGeneration, worker>>
        /\ queuedDispatch'[t] # 0 => queuedDispatch'[t] = queuedDispatch[t]
    BY <1>4 DEF CancelSignal
  <2> QED BY <1>0, <2>1 DEF Carried, Owned, Owns
<1>5. ASSUME NEW w \in Workers, Take(w)
      PROVE  /\ queuedDispatch'[t] # 0 => Carried(t)'
             /\ activeGeneration'[t] # 0 => Owned(t)'
  <2>1. PICK e \in heap :
          /\ heap' = heap \ {e}
          /\ worker' = [worker EXCEPT ![w] =
                [Idle EXCEPT !.pc = "got", !.task = e.task, !.gen = e.gen]]
    BY <1>5 DEF Take
  <2>2. /\ worker'[w].pc = "got" /\ worker'[w].task = e.task
        /\ worker'[w].gen = e.gen
        /\ \A v \in Workers \ {w} : worker'[v] = worker[v]
    BY <2>1 DEF Idle
  <2>3. /\ worker[w].pc = "idle"
        /\ UNCHANGED <<queuedDispatch, activeGeneration>>
    BY <1>5 DEF Take
  <2>4. e = [task |-> e.task, gen |-> e.gen]
    BY DEF Dispatch
  <2>5. queuedDispatch'[t] # 0 => Carried(t)'
    BY <1>0, <2>1, <2>2, <2>3, <2>4 DEF Carried
  <2>6. \A v \in Workers : Owns(v) => worker'[v] = worker[v]
    BY <2>2, <2>3 DEF Owns, Owning, Executing
  <2>7. activeGeneration'[t] # 0 => Owned(t)'
    BY <1>0, <2>3, <2>6 DEF Owned, Owns
  <2> QED BY <2>5, <2>7
<1>6. ASSUME NEW w \in Workers, Claim(w)
      PROVE  /\ queuedDispatch'[t] # 0 => Carried(t)'
             /\ activeGeneration'[t] # 0 => Owned(t)'
  <2> DEFINE u == worker[w].task
             g == worker[w].gen
  <2>1. /\ worker[w].pc = "got" /\ UNCHANGED heap /\ u \in Tasks /\ g # 0
    BY <1>6 DEF Claim, Ownership, TuplesAreDispatches
  <2>2. CASE queuedDispatch[u] = g
    <3>1. /\ queuedDispatch' = [queuedDispatch EXCEPT ![u] = 0]
          /\ activeGeneration' = [activeGeneration EXCEPT ![u] = g]
          /\ Goto(w, "claimed")
      BY <1>6, <2>2 DEF Claim
    <3>2. /\ worker'[w].pc = "claimed" /\ worker'[w].task = u
          /\ worker'[w].gen = g
          /\ \A v \in Workers \ {w} : worker'[v] = worker[v]
      BY <3>1, GotoType DEF Points, Owning
    <3>3. CASE t = u
      <4>1. Owned(t)'
        BY <2>1, <3>1, <3>2, <3>3 DEF Owned, Owns, Owning
      <4> QED BY <3>1, <3>3, <4>1
    <3>4. CASE t # u
      <4>1. queuedDispatch'[t] = queuedDispatch[t]
            /\ activeGeneration'[t] = activeGeneration[t]
        BY <3>1, <3>4
      <4>2. \A v \in Workers : worker[v].task = t => worker'[v] = worker[v]
        BY <3>2, <3>4
      <4> QED BY <1>0, <2>1, <4>1, <4>2 DEF Carried, Owned, Owns
    <3> QED BY <3>3, <3>4
  <2>3. CASE queuedDispatch[u] # g
    <3>1. /\ worker' = [worker EXCEPT ![w] = Idle]
          /\ UNCHANGED <<queuedDispatch, activeGeneration>>
      BY <1>6, <2>3 DEF Claim
    <3>2. \A v \in Workers \ {w} : worker'[v] = worker[v]
      BY <3>1
    <3>3. queuedDispatch'[t] # 0 => Carried(t)'
      BY <1>0, <2>1, <2>3, <3>1, <3>2 DEF Carried
    <3>4. ~Owns(w)
      BY <2>1 DEF Owns, Owning, Executing
    <3>5. activeGeneration'[t] # 0 => Owned(t)'
      BY <1>0, <3>1, <3>2, <3>4 DEF Owned, Owns
    <3> QED BY <3>3, <3>5
  <2> QED BY <2>2, <2>3
<1>7. ASSUME NEW w \in Workers, Owns(w), Released(worker[w].task, worker[w].gen),
             UNCHANGED <<heap, queuedDispatch>>,
             \A v \in Workers \ {w} : worker'[v] = worker[v]
      PROVE  /\ queuedDispatch'[t] # 0 => Carried(t)'
             /\ activeGeneration'[t] # 0 => Owned(t)'
  <2>1. worker[w].pc # "got"
    BY <1>7 DEF Owns, Owning, Executing
  <2>2. queuedDispatch'[t] # 0 => Carried(t)'
    BY <1>0, <1>7, <2>1 DEF Carried
  <2>3. activeGeneration'[t] = IF t = worker[w].task
                                  /\ activeGeneration[t] = worker[w].gen
                               THEN 0 ELSE activeGeneration[t]
    BY <1>7, ReleasedType
  <2>4. ASSUME activeGeneration'[t] # 0 PROVE Owned(t)'
    <3>1. activeGeneration'[t] = activeGeneration[t] /\ activeGeneration[t] # 0
      BY <2>3, <2>4
    <3>2. PICK v \in Workers : /\ Owns(v) /\ worker[v].task = t
                               /\ worker[v].gen = activeGeneration[t]
      BY <1>0, <3>1 DEF Owned
    <3>3. v # w
      BY <2>3, <2>4, <3>2
    <3>4. worker'[v] = worker[v]
      BY <1>7, <3>3
    <3> QED BY <3>1, <3>2, <3>4 DEF Owned, Owns
  <2> QED BY <2>2, <2>4
<1>8. ASSUME NEW w \in Workers, Release(w) \/ WorkerCrash(w)
      PROVE  /\ queuedDispatch'[t] # 0 => Carried(t)'
             /\ activeGeneration'[t] # 0 => Owned(t)'
  <2>1. Owns(w)
    BY <1>8 DEF Release, WorkerCrash, ConstantsAssumption, Owns, Owning
  <2>2. Released(worker[w].task, worker[w].gen)
    <3>1. worker[w].pc # "got"
      BY <2>1 DEF Owns, Owning, Executing
    <3> QED BY <1>8, <3>1 DEF Release, WorkerCrash
  <2>3. /\ UNCHANGED <<heap, queuedDispatch>>
        /\ \A v \in Workers \ {w} : worker'[v] = worker[v]
    BY <1>8 DEF Release, WorkerCrash
  <2> QED BY <1>7, <2>1, <2>2, <2>3
<1>9. ASSUME NEW w \in Workers, worker[w].pc = "dead",
             \A v \in Workers \ {w} : worker'[v] = worker[v],
             UNCHANGED dispatches
      PROVE  /\ queuedDispatch'[t] # 0 => Carried(t)'
             /\ activeGeneration'[t] # 0 => Owned(t)'
  <2>1. worker[w].pc # "got" /\ ~Owns(w)
    BY <1>9 DEF Owns, Owning, Executing
  <2> QED BY <1>0, <1>9, <2>1 DEF Carried, Owned, Owns, dispatches
<1>10. ASSUME NEW w \in Workers, SuperviseExit(w)
       PROVE  /\ queuedDispatch'[t] # 0 => Carried(t)'
              /\ activeGeneration'[t] # 0 => Owned(t)'
  <2>1. /\ worker[w].pc = "dead" /\ UNCHANGED <<heap, queuedDispatch>>
        /\ \A v \in Workers \ {w} : worker'[v] = worker[v]
    BY <1>10 DEF SuperviseExit
  <2>2. UNCHANGED activeGeneration
    <3>1. CASE slot[w].task = NoTask
      BY <1>10, <3>1 DEF SuperviseExit
    <3>2. CASE slot[w].task # NoTask
      <4>1. slot[w].gen # activeGeneration[slot[w].task]
        BY <2>1, <3>2 DEF Ownership, SlotsAreCurrentOrDead, Owns, Owning, Executing
      <4>2. Released(slot[w].task, slot[w].gen)
        BY <1>10, <3>2 DEF SuperviseExit
      <4> QED BY <4>1, <4>2, ReleasedType
    <3> QED BY <3>1, <3>2
  <2> QED BY <1>9, <2>1, <2>2 DEF dispatches
<1>11. ASSUME NEW w \in Workers, supervisor.worker = w, Restarted(w),
              UNCHANGED dispatches
       PROVE  /\ queuedDispatch'[t] # 0 => Carried(t)'
              /\ activeGeneration'[t] # 0 => Owned(t)'
  <2>1. worker[w].pc = "dead"
    BY <1>11 DEF Supervised
  <2>2. \A v \in Workers \ {w} : worker'[v] = worker[v]
    BY <1>11 DEF Restarted
  <2> QED BY <1>9, <1>11, <2>1, <2>2
<1> QED BY <1>1, <1>2, <1>3, <1>4, <1>5, <1>6, <1>8, <1>10, <1>11, DispatchFrame

\* Unless an executor dies between taking a tuple and claiming it, nothing
\* parks a task: every registered dispatch has its tuple and every active
\* generation its executor, whatever is cancelled, retried or recovered.
THEOREM NothingLeaks ==
    ASSUME "got" \notin CrashPoints
    PROVE  Spec => []NoLeakedSlot
<1>1. Init => Supervised /\ NoLeakedSlot
  BY DEF Init, NoHandler, Supervised, NoLeakedSlot
<1>2. TypeOK /\ Ownership /\ Supervised /\ NoLeakedSlot /\ [Next]_vars
        => Supervised' /\ NoLeakedSlot'
  BY SupervisedStep, NoLeakedSlotStep
<1> QED BY <1>1, <1>2, TypeCorrect, OwnershipInvariant, PTL DEF Spec

-----------------------------------------------------------------------------
(* What a step writes into a row.                                          *)

\* A write of the status, by the executor that owns the task.
Wrote(w, t) ==
    /\ Owns(w) /\ worker[w].task = t
    /\ \/ Run(w)
       \/ CommitEnd(w)
    /\ row'[t] \in Row
    /\ row'[t].status \in Active \cup Terminal
    /\ row'[t].cancel = row[t].cancel
    /\ \/ row'[t].evidence = row[t].evidence
       \/ RecordIntent(w) /\ row'[t].evidence = TRUE

LEMMA StatusWrite ==
    ASSUME TypeOK, NEW u, NEW s \in Active \cup Terminal, SetStatus(u, s),
           NEW t \in Tasks
    PROVE  \/ row'[t] = row[t]
           \/ /\ t = u /\ row'[t] \in Row /\ row'[t].status = s
              /\ row'[t].cancel = row[t].cancel
              /\ row'[t].evidence = row[t].evidence
<1>1. s \in Statuses
  BY DEF Statuses
<1>2. row' = [row EXCEPT ![u] = [row[u] EXCEPT !.status = s]]
  BY DEF SetStatus
<1>3. CASE t = u
  <2>1. row[t] \in Row
    BY DEF TypeOK
  <2> DEFINE new == [row[t] EXCEPT !.status = s]
  <2>2. /\ new \in Row /\ new.status = s
        /\ new.cancel = row[t].cancel /\ new.evidence = row[t].evidence
    BY <1>1, <2>1 DEF Row
  <2>3. row'[t] = new
    BY <1>2, <1>3 DEF TypeOK
  <2> HIDE DEF new
  <2> QED BY <1>3, <2>2, <2>3
<1>4. CASE t # u
  BY <1>2, <1>4 DEF TypeOK
<1> QED BY <1>3, <1>4

LEMMA AttemptWrites ==
    ASSUME TypeOK, NEW w \in Workers, NEW t \in Tasks,
           Run(w) \/ CommitEnd(w)
    PROVE  row'[t] = row[t] \/ Wrote(w, t)
<1> USE DEF Active, Terminal
<1>0. Owns(w)
  BY DEF Run, Prologue, Start, Think, YieldToForeground,
     SeekEvidence, EndBatch, CallTool, RecordIntent,
         DecidePermission, ApprovalAnswered, RunTool, Review, Complete, Handoff,
         CommitEnd, Owns, Owning, Executing
<1>1. CASE Prologue(w) \/ CallTool(w) \/ Handoff(w) \/ RunTool(w)
           \/ SeekEvidence(w) \/ EndBatch(w)
  BY <1>1, BatchSteps DEF Prologue, CallTool, Handoff, RunTool
<1>2. CASE RecordIntent(w)
  <2> DEFINE u == worker[w].task
             new == [row[u] EXCEPT !.status = "using_tool", !.evidence = TRUE]
  <2>1. row' = [row EXCEPT ![u] = new]
    BY <1>2 DEF RecordIntent
  <2>2. CASE t # u
    BY <2>1, <2>2 DEF TypeOK
  <2>3. CASE t = u
    <3>1. row[u] \in Row
      BY <2>3 DEF TypeOK
    <3>2. /\ new \in Row /\ new.status = "using_tool"
          /\ new.cancel = row[u].cancel /\ new.evidence = TRUE
      BY <3>1 DEF Row, Statuses
    <3>3. row'[t] = new
      BY <2>1, <2>3 DEF TypeOK
    <3> HIDE DEF new
    <3> QED BY <1>0, <1>2, <2>3, <3>2, <3>3 DEF Wrote, Run
  <2> QED BY <2>2, <2>3
<1>3. CASE UNCHANGED row \/ \E s \in Active \cup Terminal : SetStatus(worker[w].task, s)
  BY <1>0, <1>3, StatusWrite DEF Wrote
<1>4. CASE Start(w) \/ Think(w) \/ YieldToForeground(w) \/ Review(w) \/ Complete(w)
  BY <1>3, <1>4 DEF Start, Think, YieldToForeground, Review, Complete
<1>5. CASE DecidePermission(w) \/ ApprovalAnswered(w)
  BY <1>3, <1>5 DEF DecidePermission, ApprovalAnswered
<1>6. CASE CommitEnd(w)
  BY <1>3, <1>6 DEF CommitEnd
<1> QED BY <1>1, <1>2, <1>4, <1>5, <1>6 DEF Run

LEMMA RowMoves ==
    ASSUME TypeOK, [Next]_vars, NEW t \in Tasks
    PROVE  \/ row'[t] = row[t]
           \/ \E w \in Workers : Wrote(w, t)
           \/ CreateTask(t) /\ row'[t].cancel = row[t].cancel
              /\ row'[t].evidence = row[t].evidence
           \/ CancelCommit(t)
              /\ row'[t] = CancelledRow(cancelRequest[t].seen, row[t])
           \/ \E k \in Taps : RetryCommit(t, k)
           \/ \E w \in Workers :
                /\ RecoverTask /\ supervisor.worker = w /\ slot[w].task = t
                /\ Restarted(w)
                /\ row'[t] = RecoveredRow(supervisor.seen, row[t])
           \/ StartManager /\ row'[t] = RestartedRow(row[t])
<1> USE DEF TypeOK
<1>1. ASSUME NEW u \in Tasks, CreateTask(u)
      PROVE  \/ row'[t] = row[t]
             \/ CreateTask(t) /\ row'[t].cancel = row[t].cancel
                /\ row'[t].evidence = row[t].evidence
  <2>1. row' = [row EXCEPT ![u] = [row[u] EXCEPT !.status = "queued"]]
    BY <1>1 DEF CreateTask
  <2>2. CASE u = t
    <3>1. row'[t] = [row[t] EXCEPT !.status = "queued"] /\ row[t] \in Row
      BY <2>1, <2>2
    <3> QED BY <1>1, <2>2, <3>1 DEF Row
  <2>3. CASE u # t
    BY <2>1, <2>3
  <2> QED BY <2>2, <2>3
<1>2. ASSUME NEW u \in Tasks, CancelCommit(u)
      PROVE  \/ row'[t] = row[t]
             \/ CancelCommit(t)
                /\ row'[t] = CancelledRow(cancelRequest[t].seen, row[t])
  <2>1. row' = [row EXCEPT ![u] = CancelledRow(cancelRequest[u].seen, row[u])]
    BY <1>2 DEF CancelCommit
  <2> QED BY <1>2, <2>1
<1>3. ASSUME NEW u \in Tasks, NEW k \in Taps, RetryCommit(u, k)
      PROVE  row'[t] = row[t] \/ RetryCommit(t, k)
  BY <1>3 DEF RetryCommit
<1>4. CASE RecoverTask
  <2>1. PICK w \in Workers :
          /\ supervisor.worker = w /\ Restarted(w)
          /\ row' = [row EXCEPT ![slot[w].task] =
                        RecoveredRow(supervisor.seen, row[slot[w].task])]
    BY <1>4 DEF RecoverTask
  <2>2. row'[t] = row[t] \/
        (slot[w].task = t /\ row'[t] = RecoveredRow(supervisor.seen, row[t]))
    BY <2>1
  <2> QED BY <1>4, <2>1, <2>2
<1>5. CASE StartManager
  BY <1>5 DEF StartManager
<1>6. ASSUME NEW w \in Workers,
             Run(w) \/ CommitEnd(w)
      PROVE  row'[t] = row[t] \/ Wrote(w, t)
  BY <1>6, AttemptWrites
<1>7. ASSUME NEW w \in Workers,
             \/ Take(w) \/ Claim(w) \/ CheckRow(w) \/ ReadBeforeEnd(w) \/ Release(w)
             \/ Abort(w) \/ ApprovalCancelled(w) \/ Fail(w) \/ WorkerCrash(w)
             \/ SuperviseExit(w)
      PROVE  row'[t] = row[t]
  BY <1>7 DEF Take, Claim, CheckRow, ReadBeforeEnd, Release, Abort,
     ApprovalCancelled, Fail, WorkerCrash, SuperviseExit
<1>8. ASSUME NEW u \in Tasks, NEW k \in Taps, RetryRead(u, k)
      PROVE  row'[t] = row[t]
  BY <1>8 DEF RetryRead
<1>9. CASE EnqueuePut \/ RecoverTaskFails \/ StopSignal \/ StopEnd \/ Kill
           \/ UNCHANGED vars
  BY <1>9 DEF EnqueuePut, RecoverTaskFails, StopSignal, StopEnd, Kill, vars
<1>10. ASSUME NEW u \in Tasks, EnqueueRead(u) \/ CancelRead(u) \/ CancelSignal(u)
       PROVE  row'[t] = row[t]
  BY <1>10 DEF EnqueueRead, CancelRead, CancelSignal
<1> QED BY <1>1, <1>2, <1>3, <1>4, <1>5, <1>6, <1>7, <1>8, <1>9, <1>10
        DEF Next, Drive, Cancel, Retry

\* What the recoveries and a cancellation write.
LEMMA RecoveryWrites ==
    ASSUME NEW seen \in Row, NEW r \in Row
    PROVE  /\ RecoveredRow(seen, r).cancel = r.cancel
           /\ r.evidence => RecoveredRow(seen, r).evidence
           /\ RecoveredRow(seen, r).evidence => r.evidence
           /\ RestartedRow(r).cancel = r.cancel
           /\ RestartedRow(r).evidence = r.evidence
           /\ CancelledRow(seen, r).evidence = r.evidence
           /\ r.cancel => CancelledRow(seen, r).cancel
           /\ seen.status \notin Terminal /\ ~seen.cancel
                => CancelledRow(seen, r).cancel
           /\ CancelledRow(seen, r).status \in {r.status, "cancelled"}
<1> USE DEF Row
<1>1. /\ RecoveredRow(seen, r).cancel = r.cancel
      /\ RecoveredRow(seen, r).evidence = r.evidence
  <2> DEFINE s == Written(seen.status, "queued", r.status)
             n == seen.recoveries + 1
             requeued == [r EXCEPT !.status = s, !.recoveries = n]
  <2>1. /\ requeued.cancel = r.cancel /\ requeued.evidence = r.evidence
    BY DEF Row
  <2>2. RecoveredRow(seen, r) \in
          {r, requeued, [r EXCEPT !.status = "cancelled"],
           [r EXCEPT !.status = "failed"],
           [r EXCEPT !.status = "failed", !.quarantined = TRUE]}
    BY DEF RecoveredRow
  <2> HIDE DEF requeued
  <2> QED BY <2>1, <2>2
<1>2. /\ RestartedRow(r).cancel = r.cancel
      /\ RestartedRow(r).evidence = r.evidence
  BY DEF RestartedRow
<1>3. CASE seen.status \in Terminal
  BY <1>1, <1>2, <1>3 DEF CancelledRow
<1>4. CASE seen.status \notin Terminal
  <2> DEFINE c == Written(seen.cancel, TRUE, r.cancel)
             s == IF seen.status = "queued" THEN "cancelled" ELSE r.status
  <2>1. CancelledRow(seen, r) = [r EXCEPT !.cancel = c, !.status = s]
    BY <1>4 DEF CancelledRow
  <2>2. /\ r.cancel => c
        /\ ~seen.cancel => c
        /\ s \in {r.status, "cancelled"}
    BY DEF Written
  <2> HIDE DEF c, s
  <2> QED BY <1>1, <1>2, <1>4, <2>1, <2>2
<1> QED BY <1>3, <1>4

-----------------------------------------------------------------------------
(* A signalled cancellation stops the work.                                *)

\* A recorded cancellation stays in the row, and once it is signalled every
\* executor that is at work on the task finds its event set.
Told ==
    \A t \in Tasks :
        /\ stopped[t] # "no" => row[t].cancel
        /\ stopped[t] = "signalled" =>
             \A w \in Workers : worker[w].pc \in Executing /\ worker[w].task = t
                                => CancelSet(w)

LEMMA StoppedFrame ==
    ASSUME TypeOK, [Next]_vars, NEW t \in Tasks
    PROVE  \/ stopped'[t] \in {stopped[t], "no"}
           \/ /\ CancelCommit(t) /\ stopped'[t] = "recorded"
              /\ cancelRequest[t].seen.status \notin Terminal
              /\ ~cancelRequest[t].seen.cancel
           \/ /\ CancelSignal(t) /\ stopped[t] = "recorded"
              /\ stopped'[t] = "signalled"
<1> USE DEF TypeOK
<1>1. ASSUME NEW u \in Tasks, CancelCommit(u)
      PROVE  \/ stopped'[t] = stopped[t]
             \/ /\ CancelCommit(t) /\ stopped'[t] = "recorded"
                /\ cancelRequest[t].seen.status \notin Terminal
                /\ ~cancelRequest[t].seen.cancel
  BY <1>1 DEF CancelCommit
<1>2. ASSUME NEW u \in Tasks, CancelSignal(u)
      PROVE  \/ stopped'[t] = stopped[t]
             \/ /\ CancelSignal(t) /\ stopped[t] = "recorded"
                /\ stopped'[t] = "signalled"
  BY <1>2 DEF CancelSignal
<1>3. ASSUME NEW u \in Tasks, NEW k \in Taps, Retry(u, k)
      PROVE  stopped'[t] \in {stopped[t], "no"}
  BY <1>3 DEF Retry, RetryRead, RetryCommit, history
<1> USE DEF history, StepFrame
<1>4. ASSUME NEW u \in Tasks, CreateTask(u) \/ EnqueueRead(u) \/ CancelRead(u)
      PROVE  UNCHANGED stopped
  BY <1>4 DEF CreateTask, EnqueueRead, CancelRead
<1>5. ASSUME NEW w \in Workers,
             Drive(w) \/ Abort(w) \/ ApprovalCancelled(w) \/ Fail(w)
             \/ WorkerCrash(w) \/ SuperviseExit(w)
      PROVE  UNCHANGED stopped
  BY <1>5 DEF Drive, Take, Claim, CheckRow, ReadBeforeEnd, CommitEnd, Release,
     Abort, ApprovalCancelled, Fail, WorkerCrash, SuperviseExit
<1>6. ASSUME NEW w \in Workers, Run(w) PROVE UNCHANGED stopped
  BY <1>6 DEF Run, Prologue, Start, Think, YieldToForeground,
     SeekEvidence, EndBatch, CallTool,
     RecordIntent, DecidePermission, ApprovalAnswered, RunTool, Review, Complete,
     Handoff
<1>7. CASE EnqueuePut \/ RecoverTask \/ RecoverTaskFails \/ StopSignal \/ StopEnd
           \/ Kill \/ StartManager \/ UNCHANGED vars
  BY <1>7 DEF EnqueuePut, RecoverTask, RecoverTaskFails, StopSignal, StopEnd, Kill,
     StartManager, vars
<1> QED BY <1>1, <1>2, <1>3, <1>4, <1>5, <1>6, <1>7 DEF Next, Cancel

\* How an executor comes to be at work: by its check of the row, or by going on.
LEMMA Advances ==
    ASSUME TypeOK, [Next]_vars, NEW w \in Workers, worker'[w].pc \in Executing
    PROVE  /\ worker'[w].task = worker[w].task /\ worker'[w].gen = worker[w].gen
           /\ \/ worker'[w].pc = worker[w].pc
                 /\ (worker[w].counted => worker'[w].counted)
              \/ CheckRow(w) /\ worker'[w].pc = "assigned"
                 /\ row[worker[w].task].status = "queued"
                 /\ ~row[worker[w].task].cancel
              \/ Run(w) /\ worker[w].pc \in Executing
                 /\ worker'[w].pc # "assigned"
                 /\ (TakesUpWork(w) => ~CancelSet(w))
                 /\ (worker[w].counted => worker'[w].counted)
<1> USE DEF TypeOK
<1>1. ASSUME NEW v \in Workers, Run(v)
      PROVE  /\ worker'[w].task = worker[w].task /\ worker'[w].gen = worker[w].gen
             /\ \/ worker'[w].pc = worker[w].pc
                   /\ (worker[w].counted => worker'[w].counted)
                \/ Run(w) /\ worker[w].pc \in Executing
                   /\ worker'[w].pc # "assigned"
                   /\ (TakesUpWork(w) => ~CancelSet(w))
                   /\ (worker[w].counted => worker'[w].counted)
  <2>0. worker[v] \in Coroutine
    OBVIOUS
  <2>1. CASE CallTool(v)
    <3>1. worker' = [worker EXCEPT ![v] = [worker[v] EXCEPT !.pc = "beginning"]]
          /\ worker[v].pc = "turn" /\ ~CancelSet(v)
      BY <2>1 DEF CallTool, Goto
    <3> QED BY <1>1, <2>0, <3>1 DEF Coroutine, Executing
  <2>2. CASE RunTool(v)
    <3> DEFINE new == [worker[v] EXCEPT !.pc = "reviewing", !.counted = TRUE]
    <3>1. worker' = [worker EXCEPT ![v] = new] /\ worker[v].pc = "acting"
      BY <2>2 DEF RunTool
    <3>2. /\ new.pc = "reviewing" /\ new.counted = TRUE
          /\ new.task = worker[v].task /\ new.gen = worker[v].gen
      BY <2>0 DEF Coroutine
    <3> HIDE DEF new
    <3> QED BY <1>1, <3>1, <3>2 DEF TakesUpWork, Executing
  <2>3. CASE YieldToForeground(v)
    BY <2>3 DEF YieldToForeground
  <2>4. CASE Think(v)
    <3>1. Goto(v, "turn") /\ worker[v].pc = "loop" /\ ~CancelSet(v)
      BY <2>4 DEF Think
    <3>2. /\ worker'[v].pc = "turn" /\ worker'[v].counted = worker[v].counted
          /\ worker'[v].task = worker[v].task /\ worker'[v].gen = worker[v].gen
          /\ \A u \in Workers \ {v} : worker'[u] = worker[u]
      BY <3>1, GotoType DEF Points, Owning, Executing
    <3> QED BY <1>1, <3>1, <3>2 DEF Executing
  <2>5. CASE SeekEvidence(v)
    <3>1. PICK b \in {"open", "closing"} :
            /\ Enter(v, "probing", b) /\ (b = "closing" => ~CancelSet(v))
            /\ worker[v].pc \in {"turn", "closing"}
      BY <2>5 DEF SeekEvidence
    <3>2. /\ worker'[v].pc = "probing" /\ worker'[v].batch = b
          /\ worker'[v].counted = worker[v].counted
          /\ worker'[v].task = worker[v].task /\ worker'[v].gen = worker[v].gen
          /\ \A u \in Workers \ {v} : worker'[u] = worker[u]
      <4>1. "probing" \in Points /\ b \in Batches
        BY DEF Batches, Points, Owning, Executing
      <4> QED BY <3>1, <4>1, EnterType
    <3>3. CASE w = v
      <4>1. worker[w].pc \in Executing
        BY <3>1, <3>3 DEF Executing
      <4>2. TakesUpWork(w) => ~CancelSet(w)
        BY <3>1, <3>2, <3>3 DEF TakesUpWork
      <4> QED BY <1>1, <3>2, <3>3, <4>1, <4>2
    <3>4. CASE w # v
      BY <3>2, <3>4
    <3> QED BY <3>3, <3>4
  <2>6. ASSUME ~CallTool(v), ~RunTool(v), ~YieldToForeground(v), ~Think(v),
               ~SeekEvidence(v)
        PROVE  /\ worker'[w].task = worker[w].task
               /\ worker'[w].gen = worker[w].gen
               /\ \/ worker'[w].pc = worker[w].pc
                     /\ (worker[w].counted => worker'[w].counted)
                  \/ Run(w) /\ worker[w].pc \in Executing
                     /\ worker'[w].pc # "assigned"
                     /\ ~TakesUpWork(w)
                     /\ (worker[w].counted => worker'[w].counted)
    <3>1. /\ worker[v].pc \in Executing /\ worker[v].pc # "loop"
          /\ \E p \in {"starting", "loop", "turn", "using", "waiting", "acting",
                       "reviewing", "closing", "handoff", "finished", "probing"} :
               /\ Goto(v, p) \/ \E b \in Batches : Enter(v, p, b)
               /\ p = "probing" => worker[v].pc \notin {"turn", "closing"}
      <4>1. CASE Start(v) \/ EndBatch(v)
        BY <4>1 DEF Start, EndBatch, Batches, Executing
      <4>2. CASE ~Start(v) /\ ~EndBatch(v)
        <5>1. CASE Review(v)
          BY <5>1 DEF Review, Executing
        <5>2. CASE ~Review(v)
          BY <1>1, <2>6, <4>2, <5>2 DEF Run, Prologue, RecordIntent,
             DecidePermission, ApprovalAnswered, Complete, Handoff, Executing
        <5> QED BY <5>1, <5>2
      <4> QED BY <4>1, <4>2
    <3>2. PICK p \in {"starting", "loop", "turn", "using", "waiting", "acting",
                      "reviewing", "closing", "handoff", "finished", "probing"} :
               /\ Goto(v, p) \/ \E b \in Batches : Enter(v, p, b)
               /\ p = "probing" => worker[v].pc \notin {"turn", "closing"}
      BY <3>1
    <3>3. p \in Points
      BY DEF Points, Owning, Executing
    <3>4. /\ worker'[v].pc = p /\ worker'[v].counted = worker[v].counted
          /\ worker'[v].task = worker[v].task /\ worker'[v].gen = worker[v].gen
          /\ \A u \in Workers \ {v} : worker'[u] = worker[u]
      <4>1. CASE Goto(v, p)
        BY <3>3, <4>1, GotoType
      <4>2. ASSUME NEW b \in Batches, Enter(v, p, b)
            PROVE  /\ worker'[v].pc = p /\ worker'[v].counted = worker[v].counted
                   /\ worker'[v].task = worker[v].task
                   /\ worker'[v].gen = worker[v].gen
                   /\ \A u \in Workers \ {v} : worker'[u] = worker[u]
        BY <3>3, <4>2, EnterType
      <4> QED BY <3>2, <4>1, <4>2
    <3>5. CASE w = v
      <4>1. ~TakesUpWork(w)
        BY <3>1, <3>2, <3>4, <3>5 DEF TakesUpWork
      <4> QED BY <1>1, <3>1, <3>2, <3>4, <3>5, <4>1
    <3>6. CASE w # v
      BY <3>4, <3>6
    <3> QED BY <3>5, <3>6
  <2> QED BY <2>1, <2>2, <2>3, <2>4, <2>5, <2>6
<1>2. ASSUME NEW v \in Workers, CheckRow(v)
      PROVE  /\ worker'[w].task = worker[w].task /\ worker'[w].gen = worker[w].gen
             /\ \/ worker'[w] = worker[w]
                \/ CheckRow(w) /\ worker'[w].pc = "assigned"
                   /\ row[worker[w].task].status = "queued"
                   /\ ~row[worker[w].task].cancel
  <2>1. \/ /\ Goto(v, "assigned") /\ row[worker[v].task].status = "queued"
           /\ ~row[worker[v].task].cancel
        \/ Goto(v, "finished")
    BY <1>2 DEF CheckRow
  <2>2. \A p \in Points : Goto(v, p) =>
            /\ worker'[v].pc = p
            /\ worker'[v].task = worker[v].task /\ worker'[v].gen = worker[v].gen
            /\ \A u \in Workers \ {v} : worker'[u] = worker[u]
    BY GotoType
  <2> QED BY <1>2, <2>1, <2>2 DEF Points, Owning, Executing
<1>3. ASSUME NEW v \in Workers,
             \/ Take(v) \/ Claim(v) \/ ReadBeforeEnd(v) \/ CommitEnd(v) \/ Release(v)
             \/ Abort(v) \/ ApprovalCancelled(v) \/ Fail(v) \/ WorkerCrash(v)
             \/ SuperviseExit(v)
      PROVE  worker'[w] = worker[w]
  <2>1. \A p \in Points : Goto(v, p) =>
            worker'[v].pc = p /\ \A u \in Workers \ {v} : worker'[u] = worker[u]
    BY GotoType
  <2>2. CASE Claim(v) \/ ReadBeforeEnd(v) \/ CommitEnd(v) \/ Abort(v)
             \/ ApprovalCancelled(v) \/ Fail(v)
    <3>1. \/ \E p \in Points \ Executing : Goto(v, p)
          \/ worker' = [worker EXCEPT ![v] = Idle]
      BY <2>2 DEF Claim, ReadBeforeEnd, CommitEnd, Abort, ApprovalCancelled, Fail,
         Points, Owning, Executing
    <3> QED BY <2>1, <3>1 DEF Idle, Executing
  <2>3. CASE Take(v)
    <3>1. PICK e \in heap : worker' = [worker EXCEPT ![v] =
                [Idle EXCEPT !.pc = "got", !.task = e.task, !.gen = e.gen]]
      BY <2>3 DEF Take
    <3> QED BY <3>1 DEF Idle, Executing
  <2>4. CASE Release(v) \/ WorkerCrash(v) \/ SuperviseExit(v)
    BY <2>4 DEF Release, WorkerCrash, SuperviseExit, Dead, Idle, Executing
  <2> QED BY <1>3, <2>2, <2>3, <2>4
<1>4. ASSUME NEW u \in Tasks, NEW k \in Taps, Retry(u, k)
      PROVE  /\ worker'[w].task = worker[w].task /\ worker'[w].gen = worker[w].gen
             /\ worker'[w].pc = worker[w].pc
             /\ worker[w].counted => worker'[w].counted
  <2>1. CASE RetryRead(u, k)
    BY <2>1 DEF RetryRead
  <2>2. CASE RetryCommit(u, k)
    <3>1. \/ worker'[w] = worker[w]
          \/ worker'[w] = [worker[w] EXCEPT !.counted = TRUE]
      BY <2>2 DEF RetryCommit
    <3> QED BY <3>1 DEF Coroutine
  <2> QED BY <1>4, <2>1, <2>2 DEF Retry
<1>5. ASSUME NEW u \in Tasks, CreateTask(u) \/ EnqueueRead(u) \/ Cancel(u)
      PROVE  worker'[w] = worker[w]
  BY <1>5 DEF CreateTask, EnqueueRead, Cancel, CancelRead, CancelCommit, CancelSignal
<1>6. CASE EnqueuePut \/ StopSignal \/ StartManager \/ UNCHANGED vars
  BY <1>6 DEF EnqueuePut, StopSignal, StartManager, vars
<1>7. ASSUME RecoverTask \/ RecoverTaskFails PROVE worker'[w] = worker[w]
  <2>1. PICK v \in Workers : worker' = [worker EXCEPT ![v] = Idle]
    BY <1>7 DEF RecoverTask, RecoverTaskFails, Restarted
  <2> QED BY <2>1 DEF Idle, Executing
<1>8. ~StopEnd /\ ~Kill
  BY DEF StopEnd, Kill, VolatileLost, Idle, Executing
<1> QED BY <1>1, <1>2, <1>3, <1>4, <1>5, <1>6, <1>7, <1>8 DEF Next, Drive

\* The event of an execution stays set as long as it goes on.
LEMMA EventKept ==
    ASSUME TypeOK, Ownership, [Next]_vars, NEW w \in Workers,
           Owns(w), Owns(w)', CancelSet(w)
    PROVE  [task |-> worker[w].task, gen |-> worker[w].gen] \in cancelEvents'
<1> DEFINE event == [task |-> worker[w].task, gen |-> worker[w].gen]
<1> USE DEF TypeOK, dispatcher, StepFrame
<1>0. /\ event \in cancelEvents
      /\ worker[w].task \in Tasks /\ worker[w].gen # 0
      /\ activeGeneration[worker[w].task] = worker[w].gen
  BY DEF CancelSet, Ownership, OwnersAreActive
<1>1. ASSUME NEW v \in Workers, Release(v) \/ WorkerCrash(v)
      PROVE  event \in cancelEvents'
  <2>1. v # w
    BY <1>1 DEF Release, WorkerCrash, Idle, Dead, Owns, Owning, Executing
  <2>2. CASE UNCHANGED cancelEvents
    BY <1>0, <2>2
  <2>3. CASE ~UNCHANGED cancelEvents
    <3>1. Owns(v)
      BY <1>1, <2>3 DEF Release, WorkerCrash, ConstantsAssumption, Owns, Owning
    <3>2. worker[v].task # worker[w].task
      BY <2>1, <3>1 DEF Ownership, OneExecutor
    <3>3. cancelEvents' = cancelEvents \
                          {[task |-> worker[v].task, gen |-> worker[v].gen]}
      BY <1>1, <2>3 DEF Release, WorkerCrash, Released
    <3> QED BY <1>0, <3>2, <3>3
  <2> QED BY <2>2, <2>3
<1>2. ASSUME NEW v \in Workers, SuperviseExit(v)
      PROVE  event \in cancelEvents'
  <2>1. CASE slot[v].task = NoTask
    BY <1>0, <1>2, <2>1 DEF SuperviseExit
  <2>2. CASE slot[v].task # NoTask
    <3>1. slot[v].gen # activeGeneration[slot[v].task]
      BY <1>2, <2>2
         DEF SuperviseExit, Ownership, SlotsAreCurrentOrDead, Owns, Owning, Executing
    <3>2. cancelEvents' = cancelEvents \
                          {[task |-> slot[v].task, gen |-> slot[v].gen]}
      BY <1>2, <2>2 DEF SuperviseExit, Released
    <3> QED BY <1>0, <3>1, <3>2
  <2> QED BY <2>1, <2>2
<1>3. CASE StopSignal
  BY <1>0, <1>3 DEF StopSignal
<1>4. ASSUME NEW u \in Tasks, CancelSignal(u) PROVE event \in cancelEvents'
  BY <1>0, <1>4 DEF CancelSignal, Signalled
<1>5. ~StopEnd /\ ~Kill
  BY DEF StopEnd, Kill, VolatileLost, Idle, Owns, Owning, Executing
<1>6. ASSUME NEW v \in Workers,
             Take(v) \/ Claim(v) \/ CheckRow(v) \/ ReadBeforeEnd(v) \/ CommitEnd(v)
             \/ Abort(v) \/ ApprovalCancelled(v) \/ Fail(v)
      PROVE  UNCHANGED cancelEvents
  BY <1>6 DEF Take, Claim, CheckRow, ReadBeforeEnd, CommitEnd, Abort,
     ApprovalCancelled, Fail
<1>7. ASSUME NEW v \in Workers, Run(v) PROVE UNCHANGED cancelEvents
  BY <1>7 DEF Run, Prologue, Start, Think, YieldToForeground,
     SeekEvidence, EndBatch, CallTool,
     RecordIntent, DecidePermission, ApprovalAnswered, RunTool, Review, Complete,
     Handoff
<1>8. ASSUME NEW u \in Tasks,
             CreateTask(u) \/ EnqueueRead(u) \/ CancelRead(u) \/ CancelCommit(u)
             \/ \E k \in Taps : Retry(u, k)
      PROVE  UNCHANGED cancelEvents
  BY <1>8 DEF CreateTask, EnqueueRead, CancelRead, CancelCommit, Retry, RetryRead,
     RetryCommit
<1>9. CASE EnqueuePut \/ RecoverTask \/ RecoverTaskFails \/ StartManager
           \/ UNCHANGED vars
  <2>1. UNCHANGED cancelEvents
    BY <1>9 DEF EnqueuePut, RecoverTask, RecoverTaskFails, StartManager, vars
  <2> QED BY <1>0, <2>1
<1>10. UNCHANGED cancelEvents => event \in cancelEvents'
  BY <1>0
<1> QED BY <1>1, <1>2, <1>3, <1>4, <1>5, <1>6, <1>7, <1>8, <1>9, <1>10
        DEF Next, Drive, Cancel

LEMMA ToldStep ==
    ASSUME TypeOK, Ownership, Told, [Next]_vars
    PROVE  Told'
<1> USE DEF TypeOK
<1>1. ASSUME NEW t \in Tasks, stopped'[t] # "no"
      PROVE  row'[t].cancel
  <2>0. row[t] \in Row /\ cancelRequest[t].seen \in Row
    BY DEF CancelState
  <2>1. CASE CancelCommit(t) /\ stopped'[t] = "recorded"
             /\ cancelRequest[t].seen.status \notin Terminal
             /\ ~cancelRequest[t].seen.cancel
    <3>1. row'[t] = CancelledRow(cancelRequest[t].seen, row[t])
      BY <2>1 DEF CancelCommit
    <3> QED BY <2>0, <2>1, <3>1, RecoveryWrites
  <2>2. CASE row[t].cancel
    <3>1. ASSUME NEW k \in Taps, RetryCommit(t, k) PROVE FALSE
      <4>1. stopped' = [stopped EXCEPT ![t] = "no"]
        BY <3>1, Zenon DEF RetryCommit
      <4> QED BY <1>1, <4>1
    <3>2. /\ RecoveredRow(supervisor.seen, row[t]).cancel
          /\ RestartedRow(row[t]).cancel
          /\ CancelledRow(cancelRequest[t].seen, row[t]).cancel
      BY <2>0, <2>2, RecoveryWrites
    <3>3. \A w \in Workers : Wrote(w, t) => row'[t].cancel
      BY <2>2 DEF Wrote
    <3> QED BY <2>2, <3>1, <3>2, <3>3, RowMoves
  <2> QED BY <1>1, <2>1, <2>2, StoppedFrame DEF Told
<1>2. ASSUME NEW t \in Tasks, stopped'[t] = "signalled",
             NEW w \in Workers, worker'[w].pc \in Executing, worker'[w].task = t
      PROVE  CancelSet(w)'
  <2>1. worker[w].task = t /\ worker'[w].gen = worker[w].gen
    BY <1>2, Advances
  <2>2. CASE stopped[t] = "signalled"
    <3>1. ~(CheckRow(w) /\ ~row[worker[w].task].cancel)
      BY <2>1, <2>2 DEF Told
    <3>2. worker[w].pc \in Executing
      BY <1>2, <3>1, Advances
    <3>3. CancelSet(w)
      BY <2>1, <2>2, <3>2 DEF Told
    <3>4. Owns(w) /\ Owns(w)'
      BY <1>2, <3>2 DEF Owns, Owning
    <3> QED BY <1>2, <2>1, <3>3, <3>4, EventKept DEF CancelSet
  <2>3. CASE CancelSignal(t)
    <3>1. worker' = worker /\ cancelEvents' = Signalled(t)
      BY <2>3 DEF CancelSignal
    <3>2. activeGeneration[t] = worker[w].gen /\ worker[w].gen # 0
      BY <1>2, <2>1, <3>1 DEF Ownership, OwnersAreActive, Owns, Owning
    <3> QED BY <2>1, <3>1, <3>2 DEF Signalled, CancelSet
  <2> QED BY <1>2, <2>2, <2>3, StoppedFrame
<1> QED BY <1>1, <1>2 DEF Told

\* Once a cancellation is recorded and signalled no executor is given the task,
\* asks the model for another turn, begins a tool call of a turn or a round of
\* the frontier's closure, until the user retries, however many tasks,
\* executors, cancellations, crashes and restarts there are.  (A batch of
\* evidence tools that was due still runs.)
THEOREM CancelStops == Spec => CancelStopsWork
<1>1. Init => Told
  BY DEF Init, Told
<1>2. TypeOK /\ Ownership /\ Told /\ [Next]_vars => Told'
  BY ToldStep
<1>3. Spec => []Told
  BY <1>1, <1>2, TypeCorrect, OwnershipInvariant, PTL DEF Spec
<1>4. TypeOK /\ Ownership /\ Told /\ [Next]_vars =>
        [\A w \in Workers :
            TakesUpWork(w) => stopped[worker'[w].task] # "signalled"]_vars
  <2> SUFFICES ASSUME TypeOK, Ownership, Told, [Next]_vars, NEW w \in Workers,
                      TakesUpWork(w), stopped[worker'[w].task] = "signalled"
               PROVE  FALSE
    OBVIOUS
  <2>1. worker'[w].pc \in Executing /\ worker'[w].pc # worker[w].pc
    BY DEF TakesUpWork, Executing
  <2>2. \/ CheckRow(w) /\ ~row[worker[w].task].cancel
        \/ worker[w].pc \in Executing /\ ~CancelSet(w)
    BY <2>1, Advances
  <2>3. Owns(w)
    BY <2>2 DEF CheckRow, Owns, Owning
  <2>4. worker'[w].task = worker[w].task /\ worker[w].task \in Tasks
    BY <2>1, <2>3, Advances DEF Ownership, OwnersAreActive
  <2> QED BY <2>2, <2>4 DEF Told
<1> QED BY <1>3, <1>4, TypeCorrect, OwnershipInvariant, PTL
        DEF Spec, CancelStopsWork

-----------------------------------------------------------------------------
(* No attempt that may have had an effect is replayed by a recovery.       *)

\* Nobody retries.
NoRetries ==
    /\ budget.retries = 0
    /\ \A t \in Tasks, k \in Taps : ~retryRequest[t][k].pending

Absent(t)  == row[t].status = "absent"
Queued(t)  == row[t].status = "queued"
Unowned(t) == queuedDispatch[t] = 0 /\ activeGeneration[t] = 0 /\ enqueuing # t

\* A task that is not created is known to nobody.
Uncreated == \A t \in Tasks : Absent(t) => Unowned(t) /\ attempts[t] = 0

\* A task that a dead executor had been assigned was under way, is left alone
\* by the dispatcher until the supervisor has taken it up, and is in one slot.
Orphans ==
    \A w \in Workers : worker[w].pc = "dead" /\ slot[w].task # NoTask =>
        /\ ~Absent(slot[w].task) /\ ~Queued(slot[w].task)
        /\ Unowned(slot[w].task)
        /\ \A v \in Workers : slot[v].task = slot[w].task => v = w

\* The supervisor knows whether the attempt it recovers had begun a tool.
Evidenced ==
    \A w \in Workers : supervisor.worker = w =>
        /\ slot[w].task # NoTask
        /\ row[slot[w].task].evidence => supervisor.seen.evidence

\* From its first write to its end an executor's row is not queued, and before
\* a tool runs the intent is in the row.
UnderWay ==
    \A w \in Workers :
        /\ worker[w].pc \in Executing \ {"assigned", "starting"} =>
             ~Absent(worker[w].task) /\ ~Queued(worker[w].task)
        /\ worker[w].pc \in {"using", "waiting", "acting"} =>
             row[worker[w].task].evidence

\* An attempt that ran a tool was the first, is on record, is not queued again,
\* and nobody but the executor that made it can still be at work.
Spent ==
    \A t \in Tasks : attempts[t] # 0 =>
        /\ attempts[t] = 1 /\ row[t].evidence /\ ~Absent(t) /\ ~Queued(t)
        /\ \A w \in Workers : worker[w].pc \in Executing /\ worker[w].task = t
                              => worker[w].counted

\* A Core that is down has lost everything but the rows.
Gone ==
    manager = "down" =>
        /\ supervisor.worker = NoWorker
        /\ \A w \in Workers : worker[w].pc = "idle" /\ slot[w].task = NoTask

ReplayInv == NoRetries /\ Supervised /\ Uncreated /\ Orphans /\ Evidenced
             /\ UnderWay /\ Spent /\ Gone

LEMMA RetriesFrame ==
    ASSUME TypeOK, NoRetries, [Next]_vars
    PROVE  NoRetries' /\ \A t \in Tasks, k \in Taps : ~Retry(t, k)
<1>1. \A t \in Tasks, k \in Taps : ~Retry(t, k)
  <2>1. ~(budget.retries > 0)
    BY DEF NoRetries
  <2>2. \A t \in Tasks, k \in Taps : ~RetryRead(t, k)
    BY <2>1, Zenon DEF RetryRead
  <2>3. \A t \in Tasks, k \in Taps : ~RetryCommit(t, k)
    BY Zenon DEF NoRetries, RetryCommit
  <2> QED BY <2>2, <2>3 DEF Retry
<1> USE DEF TypeOK, Budget
<1>2. \/ UNCHANGED retryRequest
      \/ VolatileLost
  <2> USE DEF requests, StepFrame
  <2>1. ASSUME NEW w \in Workers, Run(w) PROVE UNCHANGED retryRequest
    BY <2>1 DEF Run, Prologue, Start, Think, YieldToForeground,
       SeekEvidence, EndBatch, CallTool,
       RecordIntent, DecidePermission, ApprovalAnswered, RunTool, Review, Complete,
       Handoff
  <2>2. ASSUME NEW w \in Workers,
               Drive(w) \/ Abort(w) \/ ApprovalCancelled(w) \/ Fail(w)
               \/ WorkerCrash(w) \/ SuperviseExit(w)
        PROVE  UNCHANGED retryRequest
    BY <2>2 DEF Drive, Take, Claim, CheckRow, ReadBeforeEnd, CommitEnd, Release,
       Abort, ApprovalCancelled, Fail, WorkerCrash, SuperviseExit
  <2>3. ASSUME NEW u \in Tasks, CreateTask(u) \/ EnqueueRead(u) \/ Cancel(u)
        PROVE  UNCHANGED retryRequest
    BY <2>3 DEF CreateTask, EnqueueRead, Cancel, CancelRead, CancelCommit,
       CancelSignal
  <2>4. CASE EnqueuePut \/ RecoverTask \/ RecoverTaskFails \/ StopSignal
             \/ StartManager
    BY <2>4 DEF EnqueuePut, RecoverTask, RecoverTaskFails, StopSignal, StartManager
  <2>5. CASE UNCHANGED vars
    BY <2>5 DEF vars
  <2>6. CASE StopEnd \/ Kill
    BY <2>6 DEF StopEnd, Kill
  <2> QED BY <1>1, <2>1, <2>2, <2>3, <2>4, <2>5, <2>6 DEF Next
<1>3. budget'.retries = budget.retries
  <2> USE DEF StepFrame
  <2>1. ASSUME NEW w \in Workers, Run(w) PROVE UNCHANGED budget
    BY <2>1 DEF Run, Prologue, Start, Think, YieldToForeground,
       SeekEvidence, EndBatch, CallTool,
       RecordIntent, DecidePermission, ApprovalAnswered, RunTool, Review, Complete,
       Handoff
  <2>2. ASSUME NEW w \in Workers,
               Drive(w) \/ Abort(w) \/ ApprovalCancelled(w) \/ Fail(w)
               \/ SuperviseExit(w)
        PROVE  UNCHANGED budget
    BY <2>2 DEF Drive, Take, Claim, CheckRow, ReadBeforeEnd, CommitEnd, Release,
       Abort, ApprovalCancelled, Fail, SuperviseExit
  <2>3. ASSUME NEW w \in Workers, WorkerCrash(w)
        PROVE  budget'.retries = budget.retries
    BY <2>3 DEF WorkerCrash
  <2>4. ASSUME NEW u \in Tasks, CreateTask(u) \/ EnqueueRead(u)
               \/ CancelCommit(u) \/ CancelSignal(u)
        PROVE  UNCHANGED budget
    BY <2>4 DEF CreateTask, EnqueueRead, CancelCommit, CancelSignal
  <2>5. ASSUME NEW u \in Tasks, CancelRead(u)
        PROVE  budget'.retries = budget.retries
    BY <2>5 DEF CancelRead
  <2>6. CASE EnqueuePut \/ RecoverTask \/ StopEnd \/ StartManager
    BY <2>6 DEF EnqueuePut, RecoverTask, StopEnd, StartManager
  <2>7. CASE RecoverTaskFails
    BY <2>7 DEF RecoverTaskFails
  <2>8. CASE StopSignal \/ Kill
    BY <2>8 DEF StopSignal, Kill
  <2>9. CASE UNCHANGED vars
    BY <2>9 DEF vars
  <2> QED BY <1>1, <2>1, <2>2, <2>3, <2>4, <2>5, <2>6, <2>7, <2>8, <2>9
          DEF Next, Cancel
<1>4. NoRetries'
  BY <1>2, <1>3 DEF NoRetries, VolatileLost, NoRetry
<1> QED BY <1>1, <1>4

\* How the status moves, and that evidence is not lost.
LEMMA StatusMoves ==
    ASSUME TypeOK, NoRetries, [Next]_vars, SafeRecovery, NEW t \in Tasks
    PROVE  /\ row[t].evidence => row'[t].evidence
           /\ row'[t].evidence => \/ row[t].evidence
                                  \/ \E w \in Workers :
                                        Owns(w) /\ worker[w].task = t
           /\ \/ row'[t].status = row[t].status
              \/ row'[t].status \notin {"absent", "queued"}
              \/ Absent(t) /\ row'[t].status = "queued"
              \/ /\ row'[t].status = "queued"
                 /\ \E w \in Workers :
                      /\ supervisor.worker = w /\ slot[w].task = t /\ Restarted(w)
                      /\ ~supervisor.seen.evidence
              \/ row'[t].status = "queued" /\ StartManager /\ ~row[t].evidence
<1> USE DEF TypeOK
<1>0. row[t] \in Row /\ supervisor.seen \in Row /\ cancelRequest[t].seen \in Row
  BY DEF CancelState
<1>1. CASE row'[t] = row[t]
  BY <1>1
<1>2. ASSUME NEW w \in Workers, Wrote(w, t)
      PROVE  /\ row[t].evidence => row'[t].evidence
             /\ row'[t].evidence => row[t].evidence
                                    \/ (Owns(w) /\ worker[w].task = t)
             /\ row'[t].status \notin {"absent", "queued"}
  BY <1>2 DEF Wrote, Active, Terminal
<1>3. ASSUME CreateTask(t)
      PROVE  Absent(t) /\ row'[t].status = "queued"
  BY <1>0, <1>3 DEF CreateTask, Absent, Row
<1>4. ASSUME row'[t] = CancelledRow(cancelRequest[t].seen, row[t])
      PROVE  /\ row'[t].evidence = row[t].evidence
             /\ row'[t].status \in {row[t].status, "cancelled"}
  BY <1>0, <1>4, RecoveryWrites
<1>5. ASSUME row'[t] = RecoveredRow(supervisor.seen, row[t])
      PROVE  /\ row'[t].evidence <=> row[t].evidence
             /\ \/ row'[t].status = row[t].status
                \/ row'[t].status \notin {"absent", "queued"}
                \/ row'[t].status = "queued" /\ ~supervisor.seen.evidence
  <2>1. row'[t].evidence <=> row[t].evidence
    BY <1>0, <1>5, RecoveryWrites
  <2>2. \/ row'[t].status \in {row[t].status, "failed", "cancelled"}
        \/ row'[t].status = "queued" /\ ~supervisor.seen.evidence
    <3> DEFINE s == Written(supervisor.seen.status, "queued", row[t].status)
               n == supervisor.seen.recoveries + 1
               requeued == [row[t] EXCEPT !.status = s, !.recoveries = n]
    <3>1. \/ row'[t] \in {row[t], [row[t] EXCEPT !.status = "cancelled"],
                          [row[t] EXCEPT !.status = "failed"],
                          [row[t] EXCEPT !.status = "failed", !.quarantined = TRUE]}
          \/ row'[t] = requeued /\ ~supervisor.seen.evidence
      BY <1>5 DEF RecoveredRow
    <3>2. requeued.status = s /\ s \in {row[t].status, "queued"}
      BY <1>0 DEF Row, Written
    <3>3. /\ [row[t] EXCEPT !.status = "cancelled"].status = "cancelled"
          /\ [row[t] EXCEPT !.status = "failed"].status = "failed"
          /\ [row[t] EXCEPT !.status = "failed", !.quarantined = TRUE].status
               = "failed"
      BY <1>0 DEF Row
    <3> HIDE DEF requeued, s
    <3> QED BY <3>1, <3>2, <3>3
  <2> QED BY <2>1, <2>2
<1>6. ASSUME row'[t] = RestartedRow(row[t])
      PROVE  /\ row'[t].evidence <=> row[t].evidence
             /\ \/ row'[t].status = row[t].status /\ row[t].status # "queued"
                \/ row'[t].status \notin {"absent", "queued"}
                \/ row'[t].status = "queued" /\ ~row[t].evidence
  <2>1. row'[t].evidence <=> row[t].evidence
    BY <1>0, <1>6, RecoveryWrites
  <2>2. \/ row'[t].status = row[t].status /\ row[t].status # "queued"
        \/ row'[t].status \in {"failed", "cancelled"}
        \/ row'[t].status = "queued" /\ ~row[t].evidence
    BY <1>0, <1>6 DEF RestartedRow, Row
  <2> QED BY <2>1, <2>2
<1>7. \A k \in Taps : ~RetryCommit(t, k)
  BY RetriesFrame DEF Retry
<1> QED BY <1>1, <1>2, <1>3, <1>4, <1>5, <1>6, <1>7, RowMoves

\* A task nobody holds and nobody may enqueue stays so.
LEMMA UnownedStays ==
    ASSUME TypeOK, Ownership, [Next]_vars, NEW t \in Tasks, Unowned(t), ~Queued(t)
    PROVE  Unowned(t)'
<1> USE DEF TypeOK, dispatcher, StepFrame, Unowned
<1>1. ASSUME NEW u \in Tasks, EnqueueRead(u) PROVE Unowned(t)'
  BY <1>1 DEF EnqueueRead, Queued
<1>2. CASE EnqueuePut
  BY <1>2 DEF EnqueuePut
<1>3. ASSUME NEW w \in Workers, Claim(w) PROVE Unowned(t)'
  <2>1. worker[w].task \in Tasks /\ worker[w].gen # 0
    BY <1>3 DEF Claim, Ownership, TuplesAreDispatches
  <2> QED BY <1>3, <2>1 DEF Claim
<1>4. ASSUME NEW w \in Workers, Release(w) \/ WorkerCrash(w) \/ SuperviseExit(w)
      PROVE  Unowned(t)'
  <2>1. UNCHANGED <<queuedDispatch, enqueuing>>
    BY <1>4 DEF Release, WorkerCrash, SuperviseExit
  <2>2. activeGeneration' = activeGeneration \/ \E u, g : Released(u, g)
    BY <1>4 DEF Release, WorkerCrash, SuperviseExit
  <2>3. activeGeneration'[t] = 0
    BY <2>2 DEF Released
  <2> QED BY <2>1, <2>3
<1>5. ASSUME NEW u \in Tasks, CancelSignal(u) PROVE Unowned(t)'
  BY <1>5 DEF CancelSignal
<1>6. CASE StopEnd \/ Kill
  BY <1>6, ConstantsAssumption DEF StopEnd, Kill, VolatileLost
<1>7. ASSUME NEW w \in Workers,
             \/ Run(w) \/ Abort(w) \/ ApprovalCancelled(w) \/ Fail(w)
             \/ ReadBeforeEnd(w) \/ CommitEnd(w)
      PROVE  Unowned(t)'
  BY <1>7, AttemptKeepsHolders DEF ownership
<1>8. ASSUME NEW w \in Workers, Take(w) \/ CheckRow(w) PROVE Unowned(t)'
  BY <1>8 DEF Take, CheckRow
<1>9. ASSUME NEW u \in Tasks,
             CreateTask(u) \/ CancelRead(u) \/ CancelCommit(u)
             \/ \E k \in Taps : Retry(u, k)
      PROVE  Unowned(t)'
  BY <1>9 DEF CreateTask, CancelRead, CancelCommit, Retry, RetryRead, RetryCommit
<1>10. CASE RecoverTask \/ RecoverTaskFails \/ StopSignal \/ StartManager
  BY <1>10 DEF RecoverTask, RecoverTaskFails, StopSignal, StartManager
<1>11. CASE UNCHANGED vars
  BY <1>11 DEF vars
<1> QED BY <1>1, <1>2, <1>3, <1>4, <1>5, <1>6, <1>7, <1>8, <1>9, <1>10, <1>11
        DEF Next, Drive, Cancel

\* What happens to the slots.
LEMMA SlotFrame ==
    ASSUME TypeOK, [Next]_vars, NEW w \in Workers
    PROVE  \/ slot'[w] = slot[w]
           \/ CheckRow(w) /\ slot'[w].task = worker[w].task
           \/ slot'[w].task = NoTask /\ (worker[w].pc = "finished" \/ Restarted(w))
           \/ VolatileLost
<1> USE DEF TypeOK, StepFrame
<1>1. ASSUME NEW v \in Workers, CheckRow(v)
      PROVE  slot'[w] = slot[w] \/ (CheckRow(w) /\ slot'[w].task = worker[w].task)
  BY <1>1 DEF CheckRow
<1>2. ASSUME NEW v \in Workers, Release(v)
      PROVE  \/ slot'[w] = slot[w]
             \/ slot'[w].task = NoTask /\ worker[w].pc = "finished"
  <2>1. /\ worker[v].pc = "finished"
        /\ \/ slot' = slot
           \/ slot' = [slot EXCEPT ![v] = NoSlot]
    <3> DEFINE mine == [task |-> worker[v].task, gen |-> worker[v].gen]
    <3>1. slot' = [slot EXCEPT ![v] = IF slot[v] = mine THEN NoSlot ELSE slot[v]]
      BY <1>2 DEF Release
    <3>2. worker[v].pc = "finished"
      BY <1>2 DEF Release
    <3> HIDE DEF mine
    <3>3. CASE slot[v] = mine
      BY <3>1, <3>2, <3>3
    <3>4. CASE slot[v] # mine
      BY <3>1, <3>2, <3>4
    <3> QED BY <3>3, <3>4
  <2>2. slot'[w] = slot[w] \/ (v = w /\ slot'[w] = NoSlot)
    BY <2>1
  <2>3. NoSlot.task = NoTask
    BY DEF NoSlot
  <2> QED BY <2>1, <2>2, <2>3
<1>3. CASE RecoverTask \/ RecoverTaskFails
  <2>1. PICK v \in Workers : Restarted(v)
    BY <1>3 DEF RecoverTask, RecoverTaskFails
  <2>2. slot' = [slot EXCEPT ![v] = NoSlot]
    BY <2>1 DEF Restarted
  <2> QED BY <2>1, <2>2 DEF NoSlot
<1>4. CASE StopEnd \/ Kill
  BY <1>4 DEF StopEnd, Kill
<1>5. ASSUME NEW v \in Workers,
             \/ Run(v) \/ Abort(v) \/ ApprovalCancelled(v) \/ Fail(v)
             \/ ReadBeforeEnd(v) \/ CommitEnd(v)
      PROVE  UNCHANGED slot
  BY <1>5, AttemptKeepsHolders DEF ownership
<1>6. ASSUME NEW v \in Workers, Take(v) \/ Claim(v) \/ WorkerCrash(v)
             \/ SuperviseExit(v)
      PROVE  UNCHANGED slot
  BY <1>6 DEF Take, Claim, WorkerCrash, SuperviseExit
<1>7. ASSUME NEW u \in Tasks,
             CreateTask(u) \/ EnqueueRead(u) \/ Cancel(u)
             \/ \E k \in Taps : Retry(u, k)
      PROVE  UNCHANGED slot
  BY <1>7 DEF CreateTask, EnqueueRead, Cancel, CancelRead, CancelCommit,
     CancelSignal, Retry, RetryRead, RetryCommit
<1>8. CASE EnqueuePut \/ StopSignal \/ StartManager
  BY <1>8 DEF EnqueuePut, StopSignal, StartManager
<1>9. CASE UNCHANGED vars
  BY <1>9 DEF vars
<1> QED BY <1>1, <1>2, <1>3, <1>4, <1>5, <1>6, <1>7, <1>8, <1>9 DEF Next, Drive

\* An executor dies by its crash only, and a dead one stays where it is until
\* it is restarted.
LEMMA Dying ==
    ASSUME TypeOK, [Next]_vars, NEW w \in Workers, worker'[w].pc = "dead"
    PROVE  worker[w].pc = "dead" \/ WorkerCrash(w)
<1> USE DEF TypeOK
<1>1. CASE SameHolders
  BY <1>1 DEF SameHolders
<1>2. ASSUME NEW v \in Workers, Take(v) \/ Claim(v) \/ CheckRow(v) \/ Release(v)
      PROVE  worker[w].pc = "dead"
  <2>1. CASE v # w
    BY <1>2, <2>1 DEF Take, Claim, CheckRow, Release, Goto
  <2>2. CASE v = w
    <3>1. CASE Take(v)
      BY <2>2, <3>1 DEF Take
    <3>2. CASE Claim(v) \/ CheckRow(v)
      <4>1. \/ \E p \in Points \ {"dead"} : Goto(v, p)
            \/ worker' = [worker EXCEPT ![v] = Idle]
        BY <3>2 DEF Claim, CheckRow, Points, Owning, Executing
      <4> QED BY <2>2, <4>1, GotoType DEF Idle
    <3>3. CASE Release(v)
      BY <2>2, <3>3 DEF Release, Idle
    <3> QED BY <1>2, <3>1, <3>2, <3>3
  <2> QED BY <2>1, <2>2
<1>3. ASSUME NEW v \in Workers, WorkerCrash(v)
      PROVE  worker[w].pc = "dead" \/ WorkerCrash(w)
  BY <1>3 DEF WorkerCrash
<1>4. ASSUME NEW v \in Workers, SuperviseExit(v) PROVE worker[w].pc = "dead"
  BY <1>4 DEF SuperviseExit, Idle
<1>5. ASSUME RecoverTask \/ RecoverTaskFails PROVE worker[w].pc = "dead"
  <2>1. PICK v \in Workers : worker' = [worker EXCEPT ![v] = Idle]
    BY <1>5 DEF RecoverTask, RecoverTaskFails, Restarted
  <2> QED BY <2>1 DEF Idle
<1>6. ~StopEnd /\ ~Kill
  BY DEF StopEnd, Kill, VolatileLost, Idle
<1>7. ASSUME NEW t \in Tasks,
             CreateTask(t) \/ EnqueueRead(t) \/ Cancel(t)
      PROVE  worker[w].pc = "dead"
  BY <1>7 DEF CreateTask, EnqueueRead, Cancel, CancelRead, CancelCommit, CancelSignal
<1>8. ASSUME NEW t \in Tasks, NEW k \in Taps, Retry(t, k)
      PROVE  worker[w].pc = "dead"
  <2>1. \/ worker'[w] = worker[w]
        \/ worker'[w] = [worker[w] EXCEPT !.counted = TRUE]
    <3>1. CASE RetryRead(t, k)
      BY <3>1 DEF RetryRead
    <3>2. CASE RetryCommit(t, k)
      BY <3>2 DEF RetryCommit
    <3> QED BY <1>8, <3>1, <3>2 DEF Retry
  <2>2. worker[w] \in Coroutine
    OBVIOUS
  <2> QED BY <2>1, <2>2 DEF Coroutine
<1>9. ASSUME NEW v \in Workers,
             \/ Run(v) \/ Abort(v) \/ ApprovalCancelled(v) \/ Fail(v)
             \/ ReadBeforeEnd(v) \/ CommitEnd(v)
      PROVE  worker[w].pc = "dead"
  BY <1>9, AttemptKeepsHolders DEF SameHolders
<1>10. CASE EnqueuePut \/ StopSignal \/ StartManager
  BY <1>10 DEF EnqueuePut, StopSignal, StartManager
<1>11. CASE UNCHANGED vars
  BY <1>11 DEF vars
<1> QED BY <1>1, <1>2, <1>3, <1>4, <1>5, <1>6, <1>7, <1>8, <1>9, <1>10, <1>11
        DEF Next, Drive

LEMMA AttemptsFrame ==
    ASSUME TypeOK, NoRetries, [Next]_vars, NEW t \in Tasks
    PROVE  \/ attempts'[t] = attempts[t]
           \/ \E w \in Workers :
                /\ RunTool(w) /\ worker[w].task = t /\ ~worker[w].counted
                /\ attempts'[t] = attempts[t] + 1
<1> USE DEF TypeOK, history, StepFrame
<1>1. ASSUME NEW w \in Workers, RunTool(w)
      PROVE  \/ attempts'[t] = attempts[t]
             \/ /\ RunTool(w) /\ worker[w].task = t /\ ~worker[w].counted
                /\ attempts'[t] = attempts[t] + 1
  BY <1>1 DEF RunTool
<1>2. ASSUME NEW w \in Workers, Run(w), ~RunTool(w) PROVE UNCHANGED attempts
  BY <1>2 DEF Run, Prologue, Start, Think, YieldToForeground,
     SeekEvidence, EndBatch, CallTool,
     RecordIntent, DecidePermission, ApprovalAnswered, Review, Complete, Handoff
<1>3. ASSUME NEW w \in Workers,
             Drive(w) \/ Abort(w) \/ ApprovalCancelled(w) \/ Fail(w)
             \/ WorkerCrash(w) \/ SuperviseExit(w)
      PROVE  UNCHANGED attempts
  BY <1>3 DEF Drive, Take, Claim, CheckRow, ReadBeforeEnd, CommitEnd, Release,
     Abort, ApprovalCancelled, Fail, WorkerCrash, SuperviseExit
<1>4. ASSUME NEW u \in Tasks, CreateTask(u) \/ EnqueueRead(u) \/ Cancel(u)
      PROVE  UNCHANGED attempts
  BY <1>4 DEF CreateTask, EnqueueRead, Cancel, CancelRead, CancelCommit, CancelSignal
<1>5. CASE EnqueuePut \/ RecoverTask \/ RecoverTaskFails \/ StopSignal \/ StopEnd
           \/ Kill \/ StartManager
  BY <1>5 DEF EnqueuePut, RecoverTask, RecoverTaskFails, StopSignal, StopEnd, Kill,
     StartManager
<1>6. CASE UNCHANGED vars
  BY <1>6 DEF vars
<1> QED BY <1>1, <1>2, <1>3, <1>4, <1>5, <1>6, RetriesFrame DEF Next

LEMMA UncreatedStep ==
    ASSUME TypeOK, Ownership, ReplayInv, SafeRecovery, [Next]_vars
    PROVE  Uncreated'
<1> USE DEF ReplayInv
<1> SUFFICES ASSUME NEW t \in Tasks, Absent(t)'
             PROVE  Unowned(t)' /\ attempts'[t] = 0
  BY DEF Uncreated
<1>1. row'[t].status = "absent"
  BY DEF Absent
<1>2. Absent(t)
  BY <1>1, StatusMoves DEF Absent
<1>3. Unowned(t) /\ attempts[t] = 0 /\ ~Queued(t)
  BY <1>2 DEF Uncreated, Absent, Queued
<1>4. Unowned(t)'
  BY <1>3, UnownedStays
<1>5. ASSUME NEW w \in Workers, RunTool(w), worker[w].task = t PROVE FALSE
  <2>1. Owns(w)
    BY <1>5 DEF RunTool, Owns, Owning, Executing
  <2> QED BY <1>3, <1>5, <2>1 DEF Unowned, Ownership, OwnersAreActive
<1> QED BY <1>3, <1>4, <1>5, AttemptsFrame

\* An owner's task is neither unowned nor absent.
LEMMA OwnedTask ==
    ASSUME Ownership, Uncreated, NEW w \in Workers, Owns(w)
    PROVE  /\ worker[w].task \in Tasks
           /\ ~Unowned(worker[w].task) /\ ~Absent(worker[w].task)
  BY DEF Ownership, OwnersAreActive, Unowned, Uncreated

\* The task in the slot of a dead executor is not queued again but by the
\* recovery of that executor.
LEMMA OrphanStatus ==
    ASSUME TypeOK, Ownership, ReplayInv, SafeRecovery, [Next]_vars,
           NEW w \in Workers, NEW t, worker[w].pc = "dead", slot[w].task = t,
           t # NoTask, ~Restarted(w)
    PROVE  /\ t \in Tasks
           /\ ~Absent(t)' /\ ~Queued(t)'
           /\ row'[t].evidence => row[t].evidence
<1> USE DEF ReplayInv
<1>1. /\ t \in Tasks /\ ~Absent(t) /\ ~Queued(t) /\ Unowned(t)
      /\ \A v \in Workers : slot[v].task = t => v = w
  BY DEF Orphans, TypeOK, Assignment
<1>2. ~StartManager
  BY DEF StartManager, Gone
<1>3. \A v \in Workers : ~(Owns(v) /\ worker[v].task = t)
  BY <1>1, OwnedTask
<1>4. /\ row'[t].status # "absent" /\ row'[t].status # "queued"
      /\ row'[t].evidence => row[t].evidence
  BY <1>1, <1>2, <1>3, StatusMoves DEF Absent, Queued
<1> QED BY <1>1, <1>4 DEF Absent, Queued

LEMMA OrphansStep ==
    ASSUME TypeOK, Ownership, ReplayInv, SafeRecovery, ~CrashWhileQueued, [Next]_vars
    PROVE  Orphans'
<1> USE DEF ReplayInv
<1> SUFFICES ASSUME NEW w \in Workers, NEW t, worker'[w].pc = "dead",
                    slot'[w].task = t, t # NoTask
             PROVE  /\ ~Absent(t)' /\ ~Queued(t)' /\ Unowned(t)'
                    /\ \A v \in Workers : slot'[v].task = t => v = w
  BY DEF Orphans, Absent, Queued, Unowned
<1>1. ~VolatileLost
  BY DEF VolatileLost, Idle
<1>2. CASE worker[w].pc = "dead"
  <2>1. slot'[w] = slot[w]
    BY <1>1, <1>2, SlotFrame DEF CheckRow, Restarted, Idle, TypeOK
  <2>2. ~Restarted(w)
    BY DEF Restarted, Idle, TypeOK
  <2>3. /\ t \in Tasks /\ Unowned(t) /\ ~Queued(t)
        /\ \A v \in Workers : slot[v].task = t => v = w
    BY <1>2, <2>1 DEF Orphans, TypeOK, Assignment
  <2>4. ~Absent(t)' /\ ~Queued(t)'
    BY <1>2, <2>1, <2>2, OrphanStatus
  <2>5. Unowned(t)'
    BY <2>3, UnownedStays
  <2>6. ASSUME NEW v \in Workers, slot'[v].task = t PROVE v = w
    <3>1. ~(CheckRow(v) /\ worker[v].task = t)
      <4>1. CheckRow(v) => Owns(v)
        BY DEF CheckRow, Owns, Owning
      <4> QED BY <2>3, <4>1, OwnedTask
    <3>2. slot[v].task = t
      BY <1>1, <2>3, <2>6, <3>1, SlotFrame
    <3> QED BY <2>3, <3>2
  <2> QED BY <2>4, <2>5, <2>6
<1>3. CASE WorkerCrash(w)
  <2>1. /\ slot' = slot /\ row' = row
        /\ UNCHANGED <<queuedDispatch, enqueuing>>
    BY <1>3 DEF WorkerCrash
  <2>2. worker[w].pc \in Owning \cup {"got"} /\ worker[w].pc # "dead"
    BY <1>3 DEF WorkerCrash, ConstantsAssumption, Owning, Executing
  <2>3. Owns(w) /\ worker[w].task = t /\ worker[w].gen = slot[w].gen
    BY <2>1, <2>2 DEF Ownership, SlotsAreCurrentOrDead
  <2>4. /\ t \in Tasks /\ activeGeneration[t] = worker[w].gen
        /\ activeGeneration[t] # 0 /\ ~Absent(t)
    BY <2>3, OwnedTask DEF Ownership, OwnersAreActive
  <2>5. LockFree /\ Released(t, worker[w].gen)
    <3>1. worker[w].pc # "got"
      BY <2>3 DEF Owns, Owning, Executing
    <3> QED BY <1>3, <2>3, <3>1 DEF WorkerCrash
  <2>6. ~Queued(t)
    BY <1>3, <2>3 DEF WorkerCrash, Queued
  <2>7. queuedDispatch'[t] = 0 /\ activeGeneration'[t] = 0 /\ enqueuing' # t
    BY <2>1, <2>4, <2>5, ConstantsAssumption
       DEF Released, LockFree, Ownership, QueuedXorActive, TypeOK
  <2>8. ASSUME NEW v \in Workers, slot[v].task = t PROVE v = w
    <3>1. CASE Owns(v) /\ worker[v].task = slot[v].task
      BY <2>3, <2>8, <3>1 DEF Ownership, OneExecutor
    <3>2. CASE worker[v].pc = "dead"
      BY <2>1, <2>4, <2>8, <3>2 DEF Orphans, Unowned
    <3> QED BY <2>1, <2>8, <3>1, <3>2 DEF Ownership, SlotsAreCurrentOrDead
  <2> QED BY <2>1, <2>4, <2>6, <2>7, <2>8 DEF Absent, Queued, Unowned
<1> QED BY <1>2, <1>3, Dying

LEMMA EvidencedStep ==
    ASSUME TypeOK, Ownership, ReplayInv, SafeRecovery, [Next]_vars
    PROVE  Evidenced'
<1> USE DEF ReplayInv
<1> SUFFICES ASSUME NEW w \in Workers, supervisor'.worker = w
             PROVE  /\ slot'[w].task # NoTask
                    /\ row'[slot'[w].task].evidence => supervisor'.seen.evidence
  BY DEF Evidenced
<1>1. \A v \in Workers : ~Restarted(v)
  BY ConstantsAssumption DEF Restarted, NoHandler
<1>2. ~VolatileLost
  BY ConstantsAssumption DEF VolatileLost, NoHandler
<1>3. CASE UNCHANGED supervisor
  <2>1. worker[w].pc = "dead"
    BY <1>3, ConstantsAssumption DEF Supervised
  <2>2. /\ slot[w].task # NoTask
        /\ row[slot[w].task].evidence => supervisor.seen.evidence
    BY <1>3 DEF Evidenced
  <2>3. slot'[w] = slot[w]
    BY <1>1, <1>2, <2>1, SlotFrame DEF CheckRow
  <2>4. row'[slot[w].task].evidence => row[slot[w].task].evidence
    <3> DEFINE t == slot[w].task
    <3>1. t # NoTask /\ ~Restarted(w)
      BY <1>1, <2>2
    <3> HIDE DEF t
    <3>2. row'[t].evidence => row[t].evidence
      <4>1. slot[w].task = t
        BY DEF t
      <4> QED BY <2>1, <3>1, <4>1, OrphanStatus
    <3> QED BY <3>2 DEF t
  <2> QED BY <1>3, <2>2, <2>3, <2>4
<1>4. ASSUME NEW v \in Workers, SuperviseExit(v), ~UNCHANGED supervisor
      PROVE  /\ slot'[w].task # NoTask
             /\ row'[slot'[w].task].evidence => supervisor'.seen.evidence
  <2>1. /\ slot[v].task # NoTask /\ UNCHANGED <<slot, row>>
        /\ supervisor' = [worker |-> v, seen |-> row[slot[v].task]]
    BY <1>4 DEF SuperviseExit
  <2> QED BY <2>1
<1>5. \/ UNCHANGED supervisor
      \/ \E v \in Workers : SuperviseExit(v)
  <2>1. ASSUME NEW v \in Workers, Take(v) \/ Claim(v) \/ Release(v) \/ WorkerCrash(v)
        PROVE  UNCHANGED supervisor
    BY <2>1 DEF Take, Claim, Release, WorkerCrash
  <2>2. ASSUME EnqueuePut \/ \E t \in Tasks : CancelSignal(t)
        PROVE  UNCHANGED supervisor
    BY <2>2 DEF EnqueuePut, CancelSignal
  <2> QED BY <1>1, <1>2, <2>1, <2>2, DispatchFrame
<1> QED BY <1>3, <1>4, <1>5

\* From where an attempt comes to where it is.
LEMMA ComesFrom ==
    ASSUME TypeOK, NEW w \in Workers, Run(w), worker'[w].pc \in Executing
    PROVE  /\ \/ worker[w].pc \notin {"assigned", "starting"}
              \/ worker'[w].pc = "starting"
              \/ Start(w)
           /\ worker'[w].pc \in {"using", "waiting", "acting"} =>
                RecordIntent(w) \/ worker[w].pc \in {"using", "waiting"}
<1>1. \A p \in Points : Goto(w, p) => worker'[w].pc = p
  BY GotoType DEF TypeOK
<1>2. CASE Prologue(w) \/ CallTool(w) \/ Think(w) \/ Review(w) \/ Complete(w)
           \/ Handoff(w)
  <2>1. \E p \in {"starting", "turn", "loop", "beginning", "probing", "handoff",
                 "finished"} :
            Goto(w, p) /\ (worker[w].pc = "assigned" => p = "starting")
                       /\ worker[w].pc # "starting"
    BY <1>2 DEF Prologue, CallTool, Think, Review, Complete, Handoff
  <2> QED BY <1>1, <2>1 DEF Points, Owning, Executing
<1>3. CASE Start(w)
  <2>1. \A p \in Points, b \in Batches : Enter(w, p, b) => worker'[w].pc = p
    BY EnterType DEF TypeOK
  <2> QED BY <1>1, <1>3, <2>1, StartSteps DEF Batches, Points, Owning, Executing
<1>4. CASE YieldToForeground(w)
  BY <1>4 DEF YieldToForeground
<1>8. CASE SeekEvidence(w) \/ EndBatch(w)
  <2>1. PICK p \in {"probing", "closing", "loop"}, b \in Batches : Enter(w, p, b)
    BY <1>8, BatchSteps
  <2>2. worker'[w].pc = p
    BY <2>1, EnterType DEF TypeOK, Points, Owning, Executing
  <2> QED BY <1>8, <2>2, BatchSteps
<1>5. CASE RecordIntent(w)
  BY <1>5 DEF RecordIntent
<1>6. CASE DecidePermission(w) \/ ApprovalAnswered(w)
  BY <1>6 DEF DecidePermission, ApprovalAnswered
<1>7. CASE RunTool(w)
  <2>1. worker[w].pc = "acting" /\ worker'[w].pc = "reviewing"
    <3>1. worker[w] \in Coroutine
      BY DEF TypeOK
    <3>2. worker'[w] = [worker[w] EXCEPT !.pc = "reviewing", !.counted = TRUE]
      BY <1>7 DEF RunTool, TypeOK
    <3> QED BY <1>7, <3>1, <3>2 DEF RunTool, Coroutine
  <2> QED BY <2>1
<1> QED BY <1>2, <1>3, <1>4, <1>5, <1>6, <1>7, <1>8 DEF Run

LEMMA UnderWayStep ==
    ASSUME TypeOK, Ownership, ReplayInv, SafeRecovery, [Next]_vars
    PROVE  UnderWay'
<1> USE DEF ReplayInv
<1> SUFFICES ASSUME NEW w \in Workers, NEW t, worker'[w].pc \in Executing,
                    worker'[w].task = t
             PROVE  /\ worker'[w].pc \notin {"assigned", "starting"} =>
                        row'[t].status \notin {"absent", "queued"}
                    /\ worker'[w].pc \in {"using", "waiting", "acting"} =>
                        row'[t].evidence
  BY DEF UnderWay, Executing, Absent, Queued
<1>0. /\ worker[w].task = t
      /\ \/ worker'[w].pc = worker[w].pc
         \/ worker'[w].pc = "assigned" /\ CheckRow(w)
         \/ Run(w) /\ worker[w].pc \in Executing
  BY Advances
<1>1. CASE CheckRow(w) /\ worker'[w].pc = "assigned"
  BY <1>1
<1>2. CASE worker[w].pc \in Executing
  <2>1. Owns(w) /\ t \in Tasks /\ ~Unowned(t) /\ row[t] \in Row
    BY <1>0, <1>2, OwnedTask DEF Owns, Owning, TypeOK
  <2>2. ~StartManager
    BY <1>2 DEF StartManager, Gone, Executing
  <2>3. ASSUME NEW v \in Workers, supervisor.worker = v, slot[v].task = t
        PROVE  FALSE
    BY <2>1, <2>3, ConstantsAssumption DEF Supervised, Orphans, TypeOK
  <2>4. row[t].status \notin {"absent", "queued"} =>
            row'[t].status \notin {"absent", "queued"}
    BY <2>1, <2>2, <2>3, StatusMoves DEF Absent
  <2>5. row[t].evidence => row'[t].evidence
    BY <2>1, StatusMoves
  <2>6. worker[w].pc \notin {"assigned", "starting"} =>
            row[t].status \notin {"absent", "queued"}
    BY <1>0, <1>2 DEF UnderWay, Absent, Queued
  <2>7. worker[w].pc \in {"using", "waiting", "acting"} => row[t].evidence
    BY <1>0 DEF UnderWay
  <2>8. ASSUME Start(w) PROVE row'[t].status = "running"
    <3>1. row'[t] = [row[t] EXCEPT !.status = "running"]
      BY <1>0, <2>1, <2>8 DEF Start, SetStatus, TypeOK
    <3> QED BY <2>1, <3>1 DEF Row
  <2>9. ASSUME RecordIntent(w) PROVE row'[t].evidence
    <3>1. row'[t] = [row[t] EXCEPT !.status = "using_tool", !.evidence = TRUE]
      BY <1>0, <2>1, <2>9 DEF RecordIntent, TypeOK
    <3> QED BY <2>1, <3>1 DEF Row
  <2>10. worker'[w].pc \notin {"assigned", "starting"} =>
            row'[t].status \notin {"absent", "queued"}
    BY <1>0, <1>2, <2>4, <2>6, <2>8, ComesFrom
  <2>11. worker'[w].pc \in {"using", "waiting", "acting"} => row'[t].evidence
    BY <1>0, <1>2, <2>5, <2>7, <2>9, ComesFrom
  <2> QED BY <2>10, <2>11
<1> QED BY <1>0, <1>1, <1>2

LEMMA SpentStep ==
    ASSUME TypeOK, Ownership, ReplayInv, SafeRecovery, [Next]_vars
    PROVE  Spent'
<1> USE DEF ReplayInv
<1> SUFFICES ASSUME NEW t \in Tasks, attempts'[t] # 0
             PROVE  /\ attempts'[t] = 1 /\ row'[t].evidence
                    /\ row'[t].status \notin {"absent", "queued"}
                    /\ \A w \in Workers :
                        worker'[w].pc \in Executing /\ worker'[w].task = t
                            => worker'[w].counted
  BY DEF Spent, Absent, Queued
<1>1. CASE attempts[t] # 0
  <2>1. /\ attempts[t] = 1 /\ row[t].evidence
        /\ row[t].status \notin {"absent", "queued"}
        /\ \A w \in Workers : worker[w].pc \in Executing /\ worker[w].task = t
                              => worker[w].counted
    BY <1>1 DEF Spent, Absent, Queued
  <2>2. attempts'[t] = 1
    <3>1. ASSUME NEW w \in Workers, RunTool(w), worker[w].task = t,
                 ~worker[w].counted
          PROVE  FALSE
      BY <2>1, <3>1 DEF RunTool, Executing
    <3> QED BY <2>1, <3>1, AttemptsFrame
  <2>3. row'[t].evidence
    BY <2>1, StatusMoves
  <2>4. row'[t].status \notin {"absent", "queued"}
    <3>1. ASSUME NEW w \in Workers, supervisor.worker = w, slot[w].task = t
          PROVE  supervisor.seen.evidence
      BY <2>1, <3>1 DEF Evidenced
    <3> QED BY <2>1, <3>1, StatusMoves DEF Absent
  <2>5. ASSUME NEW w \in Workers, worker'[w].pc \in Executing, worker'[w].task = t
        PROVE  worker'[w].counted
    <3>1. /\ worker[w].task = t /\ worker[w].pc \in Executing
          /\ worker[w].counted => worker'[w].counted
      BY <2>1, <2>5, Advances
    <3> QED BY <2>1, <3>1
  <2> QED BY <2>2, <2>3, <2>4, <2>5
<1>2. CASE attempts[t] = 0
  <2>1. PICK w \in Workers : /\ RunTool(w) /\ worker[w].task = t
                             /\ attempts'[t] = attempts[t] + 1
    BY <1>2, AttemptsFrame
  <2>2. /\ row' = row /\ worker[w].pc = "acting" /\ Owns(w)
    BY <2>1 DEF RunTool, Owns, Owning, Executing
  <2>3. /\ row[t].evidence /\ row[t].status \notin {"absent", "queued"}
    BY <2>1, <2>2 DEF UnderWay, Absent, Queued, Executing
  <2>4. worker'[w].counted /\ \A v \in Workers \ {w} : worker'[v] = worker[v]
    <3>1. worker[w] \in Coroutine
      BY DEF TypeOK
    <3>2. worker' = [worker EXCEPT ![w] =
                        [worker[w] EXCEPT !.pc = "reviewing", !.counted = TRUE]]
      BY <2>1 DEF RunTool
    <3> QED BY <3>1, <3>2 DEF TypeOK, Coroutine
  <2>5. ASSUME NEW v \in Workers, worker'[v].pc \in Executing, worker'[v].task = t
        PROVE  v = w
    <3>1. CASE v # w
      <4>1. Owns(v) /\ worker[v].task = t
        BY <2>4, <2>5, <3>1 DEF Owns, Owning
      <4> QED BY <2>1, <2>2, <4>1 DEF Ownership, OneExecutor
    <3> QED BY <3>1
  <2>6. attempts'[t] = 1
    BY <1>2, <2>1
  <2> QED BY <2>2, <2>3, <2>4, <2>5, <2>6
<1> QED BY <1>1, <1>2

LEMMA GoneStep ==
    ASSUME TypeOK, ReplayInv, [Next]_vars
    PROVE  Gone'
<1> USE DEF ReplayInv
<1> SUFFICES ASSUME manager' = "down"
             PROVE  /\ supervisor'.worker = NoWorker
                    /\ \A w \in Workers : /\ worker'[w].pc = "idle"
                                          /\ slot'[w].task = NoTask
  BY DEF Gone
<1>1. CASE VolatileLost
  BY <1>1 DEF VolatileLost, NoHandler, Idle, NoSlot
<1>2. CASE ~VolatileLost
  <2> USE DEF Live, StepFrame
  <2>1. ASSUME NEW w \in Workers, Run(w) PROVE FALSE
    BY <2>1 DEF Run, Prologue, Start, Think, YieldToForeground,
       SeekEvidence, EndBatch, CallTool,
       RecordIntent, DecidePermission, ApprovalAnswered, RunTool, Review, Complete,
       Handoff
  <2>2. ASSUME NEW w \in Workers,
               Drive(w) \/ Abort(w) \/ ApprovalCancelled(w) \/ Fail(w)
               \/ WorkerCrash(w) \/ SuperviseExit(w)
        PROVE  FALSE
    BY <2>2 DEF Drive, Take, Claim, CheckRow, ReadBeforeEnd, CommitEnd, Release,
       Abort, ApprovalCancelled, Fail, WorkerCrash, SuperviseExit
  <2>3. ASSUME NEW u \in Tasks,
               CreateTask(u) \/ EnqueueRead(u) \/ Cancel(u)
        PROVE  FALSE
    BY <2>3 DEF CreateTask, EnqueueRead, Cancel, CancelRead, CancelCommit,
       CancelSignal
  <2>4. ~EnqueuePut /\ ~RecoverTask /\ ~RecoverTaskFails /\ ~StopSignal
        /\ ~StartManager /\ ~StopEnd /\ ~Kill
    BY <1>2 DEF EnqueuePut, RecoverTask, RecoverTaskFails, StopSignal, StartManager,
       StopEnd, Kill
  <2>5. UNCHANGED vars
    BY <2>1, <2>2, <2>3, <2>4, RetriesFrame DEF Next
  <2> QED BY <2>5 DEF vars, Gone
<1> QED BY <1>1, <1>2

\* Until the user retries, at most one attempt at a task runs tools: whatever
\* executors die once the row says that they are at work, however the recovery
\* of one is interrupted or fails, and however often Core is restarted.
THEOREM ReplayedNever ==
    ASSUME ~CrashWhileQueued, MaxRetries = 0
    PROVE  Spec => []NoAutomaticReplay
<1>1. CASE ~SafeRecovery
  <2>1. NoAutomaticReplay
    BY <1>1 DEF NoAutomaticReplay
  <2> QED BY <2>1, PTL
<1>2. CASE SafeRecovery
  <2>1. Init => ReplayInv
    <3> SUFFICES ASSUME Init PROVE ReplayInv
      OBVIOUS
    <3>1. NoRetries
      BY DEF Init, NoRetries, NoRetry
    <3>2. /\ \A w \in Workers : worker[w].pc = "idle" /\ slot[w].task = NoTask
          /\ supervisor.worker = NoWorker
      BY DEF Init, Idle, NoSlot, NoHandler
    <3>3. \A t \in Tasks : Unowned(t) /\ attempts[t] = 0
      BY ConstantsAssumption DEF Init, Unowned
    <3> QED BY <3>1, <3>2, <3>3, ConstantsAssumption
            DEF ReplayInv, Supervised, Uncreated, Orphans, Evidenced, UnderWay,
                Spent, Gone, Executing
  <2>2. TypeOK /\ Ownership /\ ReplayInv /\ [Next]_vars => ReplayInv'
    BY <1>2, RetriesFrame, SupervisedStep, UncreatedStep, OrphansStep,
       EvidencedStep, UnderWayStep, SpentStep, GoneStep DEF ReplayInv
  <2>3. TypeOK /\ ReplayInv => NoAutomaticReplay
    BY DEF TypeOK, ReplayInv, Spent, NoAutomaticReplay
  <2> QED BY <2>1, <2>2, <2>3, TypeCorrect, OwnershipInvariant, PTL DEF Spec
<1> QED BY <1>1, <1>2
=============================================================================
