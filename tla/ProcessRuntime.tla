--------------------------- MODULE ProcessRuntime ---------------------------
(***************************************************************************)
(* Processes that Jace Core runs on a paired device: Core's                *)
(* ProcessRuntimeService with its process_runs rows, the registry of       *)
(* device connections and the receive loop of each of them, and the Device *)
(* Agent, which owns the subprocesses, numbers their output, keeps a       *)
(* window of it and reconnects when its WebSocket is lost.                 *)
(*                                                                         *)
(* One device.  A connection is a slot that is used again once Core's loop *)
(* for it has ended.  A WebSocket delivers in order; when it is lost, what *)
(* travels to the Agent is lost at once, and Core's loop still handles a   *)
(* prefix of what had arrived before it notices.                           *)
(*                                                                         *)
(* A database session of Core is two actions, as in AgentDispatch: load    *)
(* and judge the row, then commit the columns that changed.                *)
(***************************************************************************)
EXTENDS Integers, Sequences, FiniteSets

CONSTANTS
    Processes,      \* process ids
    Connections,    \* slots for WebSocket connections
    NoConnection,
    NoProcess,
    History,        \* chunks the Agent keeps of one process
    Retained,       \* chunks Core keeps of one process
    Budgets         \* bounds: chunks a process writes, callers of
                    \* wait_for_exit and of terminate_process, lost
                    \* WebSockets and restarts of Core or the Agent,
                    \* terminations and faults together; and which processes
                    \* are given a timeout

ASSUME ConstantsAssumption ==
    /\ NoConnection \notin Connections
    /\ NoProcess \notin Processes
    /\ History \in Nat \ {0} /\ Retained \in Nat
    /\ Budgets \subseteq [output : Nat, waits : Nat, stops : Nat,
                          faults : Nat, trouble : Nat,
                          timed : SUBSET Processes]

\* _FINAL and _FINAL_STATUSES: what the Agent reports, and what Core may add.
Ended        == {"completed", "failed", "cancelled", "timed_out"}
Final        == Ended \cup {"lost"}
ActiveStatus == {"starting", "running", "cancel_requested"}
Statuses     == {"absent"} \cup ActiveStatus \cup Final

VARIABLES
    row,        \* process_runs and process_output_chunks; history: the
                \* chunks stored by a handler whose row was changed between its
                \* load and its commit, and whether an end was overwritten
    registered, \* device_connections: the connection Core sends on
    loop,       \* connect_device, one receive loop per connection
    starter,    \* start_process, per process
    waiter,     \* wait_for_exit, called when start_process has returned
    stopper,    \* terminate_process, per process
    link,       \* the Agent's WebSocket: its connection and its phase
    toAgent,    \* messages under way to the Agent
    toCore,     \* messages under way to Core, per connection
    session,    \* ManagedProcess of the Agent, per process
    replay,     \* messages the Agent's receiver still has to send for _replay
    budget,     \* what the environment may still do
    outcome     \* history: how the subprocess really ended

core  == <<row, registered, loop, starter, waiter, stopper>>
agent == <<link, session, replay, outcome>>
wire  == <<toAgent, toCore>>
vars  == <<core, agent, wire, budget>>

NewRow    == [status |-> "absent", last |-> 0, chunks |-> <<>>,
              crossed |-> {}, revived |-> FALSE]
NoTxn     == [kind |-> "none", p |-> NoProcess, arg |-> 0, end |-> "none",
              seen |-> NewRow, phase |-> "none"]
NoSession == [status |-> "none", seq |-> 0, cancel |-> FALSE,
              timedOut |-> FALSE]
NoReport  == [p \in Processes |-> [status |-> "none", last |-> 0]]
NoLoop    == [pc |-> "closed", txn |-> NoTxn, report |-> NoReport,
              todo |-> {}, item |-> NoProcess, after |-> 0]
NoLink    == [at |-> NoConnection, phase |-> "none"]

Init ==
    /\ row = [p \in Processes |-> NewRow]
    /\ registered = NoConnection
    /\ loop = [c \in Connections |-> NoLoop]
    /\ starter = [p \in Processes |->
                    [pc |-> "none", future |-> "none", txn |-> NoTxn]]
    /\ waiter = [p \in Processes |-> [pc |-> "none", future |-> "none"]]
    /\ stopper = [p \in Processes |-> [pc |-> "none", txn |-> NoTxn]]
    /\ link = NoLink
    /\ toAgent = <<>>
    /\ toCore = [c \in Connections |-> <<>>]
    /\ session = [p \in Processes |-> NoSession]
    /\ replay = <<>>
    /\ budget \in Budgets
    /\ outcome = [p \in Processes |-> "none"]

-----------------------------------------------------------------------------
(* The environment's faults, and transactions on one row.                  *)

Fault == /\ budget.faults > 0 /\ budget.trouble > 0
         /\ budget' = [budget EXCEPT !.faults = @ - 1, !.trouble = @ - 1]

\* Mutant: the last chunk is accepted again.
AppliesAgain(kind, p, arg) ==
    CASE kind = "exited" -> row[p].status # "absent"
      [] kind = "output" -> row[p].status # "absent" /\ arg >= row[p].last
      [] OTHER           -> row[p].status \in ActiveStatus

\* The guard of each handler on the row it has loaded.
Applies(kind, p, arg) ==
    CASE kind = "exited" -> row[p].status # "absent"
      [] kind = "output" -> row[p].status # "absent" /\ arg > row[p].last
      [] OTHER           -> row[p].status \in ActiveStatus

Loaded(kind, p, arg, end) ==
    [kind |-> kind, p |-> p, arg |-> arg, end |-> end, seen |-> row[p],
     phase |-> "loaded"]

\* Mutant: the type of the message is stored, not the status it carries.
NewStatusOfMessage(x) == IF x.kind = "started" THEN "running" ELSE x.kind

NewStatus(x) ==
    CASE x.kind = "started" -> "running"
      [] x.kind = "exited"  -> x.end
      [] x.kind = "cancel"  -> "cancel_requested"
      [] OTHER              -> x.kind

\* Output was stored since x loaded the row.
Crosses(x, r) == <<x.seen.last, x.seen.chunks>> # <<r.last, r.chunks>>

\* The end of a process that runs no more was stored since x loaded the row.
Revives(x, r) == x.kind = "started" /\ r.status \in Final
                 /\ session[x.p].status # "running"

\* What the commit of x makes of the row: output adds a chunk while Core's
\* limit allows, everything else assigns the status.
Committed(x, r) ==
    IF x.kind = "output"
    THEN LET stored == Len(x.seen.chunks) < Retained
         IN  [r EXCEPT !.last = x.arg,
                       !.chunks = IF stored THEN Append(@, x.arg) ELSE @,
                       !.crossed = IF stored /\ Crosses(x, r)
                                   THEN @ \cup {Len(r.chunks) + 1} ELSE @]
    ELSE IF NewStatus(x) = x.seen.status THEN r
    ELSE [r EXCEPT !.status = NewStatus(x), !.revived = @ \/ Revives(x, r)]

\* device_connections.send: without a registration it fails; on a dead
\* WebSocket it fails and drops the registration, or succeeds for nothing.
Send(m, sent) ==
    \/ /\ registered = NoConnection /\ ~sent
       /\ UNCHANGED <<registered, toAgent>>
    \/ /\ registered \in Connections /\ registered = link.at /\ sent
       /\ toAgent' = Append(toAgent, m)
       /\ UNCHANGED registered
    \/ /\ registered \in Connections /\ registered # link.at
       /\ registered' = IF sent THEN registered ELSE NoConnection
       /\ UNCHANGED toAgent

Resolved(f) == IF f = "pending" THEN "set" ELSE f

ResolveStart(p) == starter' = [starter EXCEPT ![p].future = Resolved(@)]
ResolveExit(p)  == waiter' = [waiter EXCEPT ![p].future = Resolved(@)]

-----------------------------------------------------------------------------
(* start_process                                                           *)

\* The row is committed ...
StartCreate(p) ==
    /\ starter[p].pc = "none"
    /\ registered # NoConnection
    /\ row' = [row EXCEPT ![p].status = "starting"]
    /\ starter' = [starter EXCEPT ![p].pc = "created"]
    /\ UNCHANGED <<registered, loop, waiter, stopper, agent, wire, budget>>

\* ... and the start waiter registered before anything is sent.
StartRegister(p) ==
    /\ starter[p].pc = "created"
    /\ starter' = [starter EXCEPT ![p].pc = "registered",
                                  ![p].future = "pending"]
    /\ UNCHANGED <<row, registered, loop, waiter, stopper, agent, wire, budget>>

StartSend(p) ==
    /\ starter[p].pc = "registered"
    /\ \E sent \in BOOLEAN :
        /\ Send([kind |-> "start", p |-> p], sent)
        /\ starter' = [starter EXCEPT ![p].pc = IF sent THEN "waiting"
                                                ELSE "unsent"]
    /\ UNCHANGED <<row, loop, waiter, stopper, agent, toCore, budget>>

\* The acknowledgement does not come in time.
StartTimeout(p) ==
    /\ starter[p].pc = "waiting" /\ starter[p].future = "pending"
    /\ starter' = [starter EXCEPT ![p].pc = "unacknowledged"]
    /\ UNCHANGED <<row, registered, loop, waiter, stopper, agent, wire, budget>>

\* The future is dropped when start_process returns.
Started == [pc |-> "done", future |-> "none", txn |-> NoTxn]

AfterFailure(pc) == IF pc = "unsent" THEN Started
                    ELSE [Started EXCEPT !.pc = "retract"]

\* _mark_failed, for both failures.
StartFailLoad(p) ==
    /\ starter[p].pc \in {"unsent", "unacknowledged"}
    /\ starter[p].txn = NoTxn
    /\ starter' = [starter EXCEPT ![p] =
                      IF Applies("failed", p, 0)
                      THEN [@ EXCEPT !.txn = Loaded("failed", p, 0, "none")]
                      ELSE AfterFailure(@.pc)]
    /\ UNCHANGED <<row, registered, loop, waiter, stopper, agent, wire, budget>>

StartFailCommit(p) ==
    /\ starter[p].txn # NoTxn
    /\ row' = [row EXCEPT ![p] = Committed(starter[p].txn, @)]
    /\ starter' = [starter EXCEPT ![p] = AfterFailure(@.pc)]
    /\ UNCHANGED <<registered, loop, waiter, stopper, agent, wire, budget>>

\* An unacknowledged process is told to terminate, whether or not that gets
\* through.
StartRetract(p) ==
    /\ starter[p].pc = "retract"
    /\ \E sent \in BOOLEAN : Send([kind |-> "terminate", p |-> p], sent)
    /\ starter' = [starter EXCEPT ![p] = Started]
    /\ UNCHANGED <<row, loop, waiter, stopper, agent, toCore, budget>>

StartReturn(p) ==
    /\ starter[p].pc = "waiting" /\ starter[p].future = "set"
    /\ starter' = [starter EXCEPT ![p] = Started]
    /\ UNCHANGED <<row, registered, loop, waiter, stopper, agent, wire, budget>>

-----------------------------------------------------------------------------
(* wait_for_exit                                                           *)

Returned == [pc |-> "returned", future |-> "none"]

\* A row that is not final ...
WaitRead(p) ==
    /\ starter[p].pc = "done" /\ waiter[p].pc = "none"
    /\ budget.waits > 0
    /\ budget' = [budget EXCEPT !.waits = @ - 1]
    /\ waiter' = [waiter EXCEPT ![p] =
                    IF row[p].status \in Final THEN Returned
                    ELSE [@ EXCEPT !.pc = "read"]]
    /\ UNCHANGED <<row, registered, loop, starter, stopper, agent, wire>>

\* ... has the future registered ...
WaitRegister(p) ==
    /\ waiter[p].pc = "read"
    /\ waiter' = [waiter EXCEPT ![p] = [pc |-> "registered",
                                       future |-> "pending"]]
    /\ UNCHANGED <<row, registered, loop, starter, stopper, agent, wire, budget>>

\* Mutant: without the second look.
WaitAtOnce(p) ==
    /\ waiter[p].pc = "registered"
    /\ waiter' = [waiter EXCEPT ![p].pc = "waiting"]
    /\ UNCHANGED <<row, registered, loop, starter, stopper, agent, wire, budget>>

\* ... and look once more before waiting.
WaitRecheck(p) ==
    /\ waiter[p].pc = "registered"
    /\ waiter' = [waiter EXCEPT ![p] = IF row[p].status \in Final
                                       THEN Returned
                                       ELSE [@ EXCEPT !.pc = "waiting"]]
    /\ UNCHANGED <<row, registered, loop, starter, stopper, agent, wire, budget>>

WaitReturn(p) ==
    /\ waiter[p].pc = "waiting" /\ waiter[p].future = "set"
    /\ waiter' = [waiter EXCEPT ![p] = Returned]
    /\ UNCHANGED <<row, registered, loop, starter, stopper, agent, wire, budget>>

WaitTimeout(p) ==
    /\ waiter[p].pc = "waiting"
    /\ waiter' = [waiter EXCEPT ![p] = Returned]
    /\ UNCHANGED <<row, registered, loop, starter, stopper, agent, wire, budget>>

-----------------------------------------------------------------------------
(* terminate_process                                                       *)

StopBegin(p) ==
    /\ stopper[p].pc = "none"
    /\ row[p].status \in ActiveStatus
    /\ budget.stops > 0 /\ budget.trouble > 0
    /\ budget' = [budget EXCEPT !.stops = @ - 1, !.trouble = @ - 1]
    /\ stopper' = [stopper EXCEPT ![p].pc = "begun"]
    /\ UNCHANGED <<row, registered, loop, starter, waiter, agent, wire>>

\* The row is loaded again; if it ended meanwhile only the message is sent.
StopLoad(p) ==
    /\ stopper[p].pc = "begun" /\ stopper[p].txn = NoTxn
    /\ stopper' = IF Applies("cancel", p, 0)
                  THEN [stopper EXCEPT ![p].txn = Loaded("cancel", p, 0, "none")]
                  ELSE [stopper EXCEPT ![p].pc = "send"]
    /\ UNCHANGED <<row, registered, loop, starter, waiter, agent, wire, budget>>

StopSend(p) ==
    /\ stopper[p].pc = "send"
    /\ \E sent \in BOOLEAN :
        /\ Send([kind |-> "terminate", p |-> p], sent)
        /\ stopper' = [stopper EXCEPT ![p].pc = IF sent THEN "none" ELSE "lose"]
    /\ UNCHANGED <<row, loop, starter, waiter, agent, toCore, budget>>

\* Not sent: _mark_lost.
StopLoseLoad(p) ==
    /\ stopper[p].pc = "lose" /\ stopper[p].txn = NoTxn
    /\ stopper' = IF Applies("lost", p, 0)
                  THEN [stopper EXCEPT ![p].txn = Loaded("lost", p, 0, "none")]
                  ELSE [stopper EXCEPT ![p].pc = "none"]
    /\ UNCHANGED <<row, registered, loop, starter, waiter, agent, wire, budget>>

StopCommit(p) ==
    /\ stopper[p].pc \in {"begun", "lose"} /\ stopper[p].txn # NoTxn
    /\ row' = [row EXCEPT ![p] = Committed(stopper[p].txn, @)]
    /\ stopper' = [stopper EXCEPT ![p].txn = NoTxn,
                     ![p].pc = IF @ = "begun" THEN "send" ELSE "resolve"]
    /\ UNCHANGED <<registered, loop, starter, waiter, agent, wire, budget>>

StopResolve(p) ==
    /\ stopper[p].pc = "resolve"
    /\ stopper' = [stopper EXCEPT ![p].pc = "none"]
    /\ ResolveStart(p) /\ ResolveExit(p)
    /\ UNCHANGED <<row, registered, loop, agent, wire, budget>>

-----------------------------------------------------------------------------
(* connect_device: Core's side of a connection.                            *)

\* The Agent's link is gone; what was under way to it is lost, and so is what
\* its receiver was doing.
LinkLost == /\ link' = NoLink
            /\ toAgent' = <<>>
            /\ replay' = <<>>

\* Authenticated: the connection replaces the registered one, whose WebSocket
\* is closed.
Register(c) ==
    /\ loop[c].pc = "opening"
    /\ loop' = [loop EXCEPT ![c].pc = "greeting"]
    /\ registered' = c
    /\ IF registered \in Connections /\ registered = link.at
       THEN LinkLost ELSE UNCHANGED <<link, toAgent, replay>>
    /\ UNCHANGED <<row, starter, waiter, stopper, session, outcome, toCore,
                   budget>>

\* The welcome is sent in a later step: something else may be sent first.
Greet(c) ==
    /\ loop[c].pc = "greeting"
    /\ \E sent \in BOOLEAN :
        /\ Send([kind |-> "welcome"], sent)
        /\ loop' = [loop EXCEPT ![c].pc = IF sent THEN "idle" ELSE "leaving"]
    /\ UNCHANGED <<row, starter, waiter, stopper, agent, toCore, budget>>

\* The loop ends once its WebSocket is gone, wherever it reads from it.
LoopEnd(c) ==
    /\ loop[c].txn = NoTxn
    /\ \/ loop[c].pc \in {"opening", "idle"} /\ c # link.at
       \/ loop[c].pc = "leaving"
    /\ loop' = [loop EXCEPT ![c] = NoLoop]
    /\ registered' = IF registered = c THEN NoConnection ELSE registered
    /\ toCore' = [toCore EXCEPT ![c] = <<>>]
    /\ IF c = link.at THEN LinkLost ELSE UNCHANGED <<link, toAgent, replay>>
    /\ UNCHANGED <<row, starter, waiter, stopper, session, outcome, budget>>

\* The processes a snapshot lists.
Tracked(report) == {p \in Processes : report[p].status # "none"}

\* handle_device_message: one message at a time.  The handlers of started,
\* output, exited and error load the row; process.error resolves the waiters
\* even when there is nothing to write.
Handle(c) ==
    LET m == Head(toCore[c])
        kind == IF m.kind = "error" THEN "failed" ELSE m.kind
    IN  /\ loop[c].pc = "idle" /\ loop[c].txn = NoTxn
        /\ toCore[c] # <<>> /\ m.kind # "snapshot"
        /\ toCore' = [toCore EXCEPT ![c] = Tail(@)]
        /\ loop' = [loop EXCEPT ![c].txn =
             IF Applies(kind, m.p, m.arg) THEN Loaded(kind, m.p, m.arg, m.end)
             ELSE IF kind = "failed"
                  THEN [Loaded(kind, m.p, m.arg, m.end) EXCEPT !.phase = "written"]
             ELSE NoTxn]
        /\ UNCHANGED <<row, registered, starter, waiter, stopper, agent,
                       toAgent, budget>>

LoopCommit(c) ==
    LET x == loop[c].txn
    IN  /\ x.phase = "loaded"
        /\ row' = [row EXCEPT ![x.p] = Committed(x, @)]
        /\ loop' = [loop EXCEPT ![c].txn =
             IF x.kind = "output" THEN NoTxn ELSE [x EXCEPT !.phase = "written"]]
        /\ UNCHANGED <<registered, starter, waiter, stopper, agent, wire, budget>>

\* After the commit: whoever waits for the start, and for an end, is woken.
LoopResolve(c) ==
    LET x == loop[c].txn
    IN  /\ x.phase = "written"
        /\ loop' = [loop EXCEPT ![c].txn = NoTxn]
        /\ ResolveStart(x.p)
        /\ IF x.kind = "started" THEN UNCHANGED waiter ELSE ResolveExit(x.p)
        /\ UNCHANGED <<row, registered, stopper, agent, wire, budget>>

\* _handle_snapshot: every row is judged anew, one tracked process after the
\* other ...
SnapshotBegin(c) ==
    /\ loop[c].pc = "idle" /\ loop[c].txn = NoTxn
    /\ toCore[c] # <<>> /\ Head(toCore[c]).kind = "snapshot"
    /\ LET sessions == Head(toCore[c]).sessions
       IN  loop' = [loop EXCEPT ![c].pc = "items", ![c].report = sessions,
                                ![c].todo = Tracked(sessions)]
    /\ toCore' = [toCore EXCEPT ![c] = Tail(@)]
    /\ row' = [p \in Processes |-> [row[p] EXCEPT !.revived = FALSE]]
    /\ UNCHANGED <<registered, starter, waiter, stopper, agent, toAgent,
                   budget>>

\* Mutant: only a missed start is made good.
SnapshotItemStarts(c) ==
    /\ loop[c].pc = "items"
    /\ \E p \in loop[c].todo :
        loop' = [loop EXCEPT
          ![c].pc = "request", ![c].item = p, ![c].after = row[p].last,
          ![c].todo = @ \ {p},
          ![c].txn = IF /\ loop[c].report[p].status = "running"
                        /\ row[p].status \in {"starting", "running"}
                     THEN Loaded("started", p, 0, "none") ELSE NoTxn]
    /\ UNCHANGED <<row, registered, starter, waiter, stopper, agent, wire, budget>>

\* ... whose end or start Core may have missed (the row is read twice in a
\* row, here once) ...
SnapshotItem(c) ==
    /\ loop[c].pc = "items"
    /\ \E p \in loop[c].todo :
        LET s == loop[c].report[p].status
            missed == IF s \in Final /\ row[p].status \in ActiveStatus
                      THEN Loaded("exited", p, 0, s)
                      ELSE IF s = "running"
                              /\ row[p].status \in {"starting", "running"}
                      THEN Loaded("started", p, 0, "none")
                      ELSE NoTxn
        IN  loop' = [loop EXCEPT ![c].pc = "request", ![c].item = p,
                                 ![c].after = row[p].last,
                                 ![c].todo = @ \ {p}, ![c].txn = missed]
    /\ UNCHANGED <<row, registered, starter, waiter, stopper, agent, wire, budget>>

\* ... and whose output it lacks, judged by the row read before that.
SnapshotRequest(c) ==
    LET p == loop[c].item
    IN  /\ loop[c].pc = "request" /\ loop[c].txn = NoTxn
        /\ loop' = [loop EXCEPT ![c].pc = "items", ![c].item = NoProcess,
                                ![c].after = 0]
        /\ IF loop[c].report[p].last > loop[c].after
           THEN \E sent \in BOOLEAN :
                  Send([kind |-> "replay", p |-> p, arg |-> loop[c].after],
                       sent)
           ELSE UNCHANGED <<registered, toAgent>>
        /\ UNCHANGED <<row, starter, waiter, stopper, agent, toCore, budget>>

\* Then the active rows that the Agent did not report ...
SnapshotSweep(c) ==
    /\ loop[c].pc = "items" /\ loop[c].todo = {}
    /\ loop' = [loop EXCEPT
         ![c].pc = "absent", ![c].report = NoReport,
         ![c].todo = {p \in Processes \ Tracked(loop[c].report) :
                        row[p].status \in ActiveStatus}]
    /\ UNCHANGED <<row, registered, starter, waiter, stopper, agent, wire, budget>>

\* ... are marked lost.
SnapshotAbsent(c) ==
    /\ loop[c].pc = "absent" /\ loop[c].txn = NoTxn
    /\ IF loop[c].todo = {}
       THEN loop' = [loop EXCEPT ![c].pc = "idle"]
       ELSE \E p \in loop[c].todo :
                loop' = [loop EXCEPT ![c].todo = @ \ {p},
                           ![c].txn = IF Applies("lost", p, 0)
                                      THEN Loaded("lost", p, 0, "none") ELSE NoTxn]
    /\ UNCHANGED <<row, registered, starter, waiter, stopper, agent, wire, budget>>

\* Core stops and starts again: rows remain, coroutines and connections do not.
CoreRestart ==
    /\ Fault
    /\ registered' = NoConnection
    /\ loop' = [c \in Connections |-> NoLoop]
    /\ starter' = [p \in Processes |->
         IF starter[p].pc = "none" THEN starter[p]
         ELSE [pc |-> "gone", future |-> "none", txn |-> NoTxn]]
    /\ waiter' = [p \in Processes |->
         IF waiter[p].pc = "none" THEN waiter[p]
         ELSE [pc |-> "gone", future |-> "none"]]
    /\ stopper' = [p \in Processes |-> [pc |-> "none", txn |-> NoTxn]]
    /\ toCore' = [c \in Connections |-> <<>>]
    /\ LinkLost
    /\ UNCHANGED <<row, session, outcome>>

-----------------------------------------------------------------------------
(* The Device Agent.                                                       *)

\* _send: nothing is sent without a WebSocket that was welcomed.
Attached == link.phase = "attached"

Report(kind, p) == [kind |-> kind, p |-> p, arg |-> 0, end |-> "none"]
Chunk(p, n)     == [Report("output", p) EXCEPT !.arg = n]
Exited(p, s)    == [Report("exited", p) EXCEPT !.end = s]

Tell(ms) ==
    toCore' = IF Attached THEN [toCore EXCEPT ![link.at] = @ \o ms] ELSE toCore

Connect ==
    /\ link = NoLink
    /\ \E c \in Connections :
        /\ loop[c].pc = "closed"
        /\ link' = [at |-> c, phase |-> "hello"]
        /\ loop' = [loop EXCEPT ![c].pc = "opening"]
    /\ UNCHANGED <<row, registered, starter, waiter, stopper, session, replay,
                   outcome, wire, budget>>

Drop ==
    /\ link # NoLink
    /\ Fault
    /\ LinkLost
    /\ UNCHANGED <<core, session, outcome, toCore>>

\* The first message must be the welcome.  The snapshot answers it, without
\* the sessions that ended an hour ago.
Welcomed ==
    /\ link.phase = "hello" /\ toAgent # <<>>
    /\ IF Head(toAgent).kind = "welcome"
       THEN \E pruned \in SUBSET {p \in Processes : session[p].status \in Ended} :
              /\ session' = [p \in Processes |->
                   IF p \in pruned THEN NoSession ELSE session[p]]
              /\ link' = [link EXCEPT !.phase = "attached"]
              /\ toAgent' = Tail(toAgent)
              /\ LET report == [p \in Processes |->
                                  [status |-> session'[p].status,
                                   last |-> session'[p].seq]]
                 IN  toCore' = [toCore EXCEPT ![link.at] =
                        Append(@, [kind |-> "snapshot", sessions |-> report])]
              /\ UNCHANGED replay
       ELSE LinkLost /\ UNCHANGED <<session, toCore>>
    /\ UNCHANGED <<core, outcome, budget>>

\* The receiver takes the next message when it is done with the last one.
Received(kind) ==
    /\ Attached /\ replay = <<>>
    /\ toAgent # <<>> /\ Head(toAgent).kind = kind
    /\ toAgent' = Tail(toAgent)

\* A welcome meant for an older connection reaches the newer one.
AgentIgnore ==
    /\ Received("welcome")
    /\ UNCHANGED <<core, agent, toCore, budget>>

\* _start: started, or refused (disabled, limit, scope, no such shell).
AgentStart ==
    LET p == Head(toAgent).p
    IN  /\ Received("start")
        /\ \/ /\ session[p].status = "none"
              /\ session' = [session EXCEPT ![p].status = "running"]
              /\ Tell(<<Report("started", p)>>)
           \/ /\ session[p].status = "none"
              /\ Tell(<<Report("error", p)>>)
              /\ UNCHANGED session
        /\ UNCHANGED <<core, link, replay, outcome, budget>>

\* Mutant: a process that has ended is reported as cancelled.
AgentTerminateCancels ==
    LET p == Head(toAgent).p
        s == session[p].status
    IN  /\ Received("terminate")
        /\ session' = IF s = "running"
                      THEN [session EXCEPT ![p].cancel = TRUE] ELSE session
        /\ Tell(IF s = "running" THEN <<>>
                ELSE IF s = "none" THEN <<Report("error", p)>>
                ELSE <<Exited(p, "cancelled")>>)
        /\ UNCHANGED <<core, link, replay, outcome, budget>>

\* _terminate_message: the tree is killed, or the missed end is told again.
AgentTerminate ==
    LET p == Head(toAgent).p
        s == session[p].status
    IN  /\ Received("terminate")
        /\ session' = IF s = "running"
                      THEN [session EXCEPT ![p].cancel = TRUE] ELSE session
        /\ Tell(IF s = "running" THEN <<>>
                ELSE IF s = "none" THEN <<Report("error", p)>>
                ELSE <<Exited(p, s)>>)
        /\ UNCHANGED <<core, link, replay, outcome, budget>>

\* _replay takes the retained chunks after the sequence it was asked for ...
AgentReplay ==
    LET m == Head(toAgent)
        n == session[m.p].seq
        lo == IF m.arg > n - History THEN m.arg ELSE n - History
    IN  /\ Received("replay")
        /\ replay' = IF session[m.p].status = "none" \/ lo >= n THEN <<>>
                     ELSE [i \in 1..(n - lo) |-> Chunk(m.p, lo + i)]
        /\ UNCHANGED <<core, link, session, outcome, toCore, budget>>

\* ... and sends them one by one.
AgentReplayStep ==
    /\ Attached /\ replay # <<>>
    /\ Tell(<<Head(replay)>>)
    /\ replay' = Tail(replay)
    /\ UNCHANGED <<core, link, session, outcome, toAgent, budget>>

\* _read_stream: number, remember, send.  The readers may still be at it when
\* the process has been reaped.
Output(p) ==
    /\ session[p].status # "none"
    /\ session[p].seq < budget.output
    /\ session' = [session EXCEPT ![p].seq = @ + 1]
    /\ Tell(<<Chunk(p, session[p].seq + 1)>>)
    /\ UNCHANGED <<core, link, replay, outcome, toAgent, budget>>

\* _watchdog, at any moment the timeout may have run out.
Watchdog(p) ==
    /\ p \in budget.timed
    /\ session[p].status = "running" /\ ~session[p].timedOut
    /\ session' = [session EXCEPT ![p].timedOut = TRUE]
    /\ UNCHANGED <<core, link, replay, outcome, wire, budget>>

\* _wait_for_exit: the process has ended, by itself or killed.
Exit(p) ==
    /\ session[p].status = "running"
    /\ \E code \in {"completed", "failed"} :
         LET s == IF session[p].timedOut THEN "timed_out"
                  ELSE IF session[p].cancel THEN "cancelled" ELSE code
         IN  /\ session' = [session EXCEPT ![p] =
                              [NoSession EXCEPT !.status = s,
                                                !.seq = session[p].seq]]
             /\ outcome' = [outcome EXCEPT ![p] = s]
             /\ Tell(<<Exited(p, s)>>)
    /\ UNCHANGED <<core, link, replay, toAgent, budget>>

\* The Agent restarts: its subprocesses are killed and forgotten.
AgentRestart ==
    /\ Fault
    /\ session' = [p \in Processes |-> NoSession]
    /\ LinkLost
    /\ UNCHANGED <<core, outcome, toCore>>

-----------------------------------------------------------------------------

Start(p) == \/ StartRegister(p) \/ StartSend(p) \/ StartTimeout(p)
            \/ StartFailLoad(p) \/ StartFailCommit(p) \/ StartRetract(p)
            \/ StartReturn(p)

Wait(p) == WaitRegister(p) \/ WaitRecheck(p) \/ WaitReturn(p)

Stop(p) == \/ StopLoad(p) \/ StopCommit(p) \/ StopSend(p) \/ StopLoseLoad(p)
           \/ StopResolve(p)

Loop(c) == \/ Register(c) \/ Greet(c) \/ LoopEnd(c) \/ Handle(c)
           \/ LoopCommit(c) \/ LoopResolve(c)
           \/ SnapshotBegin(c) \/ SnapshotItem(c) \/ SnapshotRequest(c)
           \/ SnapshotSweep(c) \/ SnapshotAbsent(c)

Receiver == \/ Welcomed \/ AgentIgnore \/ AgentStart \/ AgentTerminate
            \/ AgentReplay \/ AgentReplayStep

Next ==
    \/ \E p \in Processes : \/ StartCreate(p) \/ Start(p)
                            \/ WaitRead(p) \/ Wait(p) \/ WaitTimeout(p)
                            \/ StopBegin(p) \/ Stop(p)
                            \/ Output(p) \/ Watchdog(p) \/ Exit(p)
    \/ \E c \in Connections : Loop(c)
    \/ Receiver \/ Connect \/ Drop \/ AgentRestart \/ CoreRestart

Spec == Init /\ [][Next]_vars

\* Coroutines that are ready run and the acknowledgement timer fires; the
\* Agent reconnects and reads what it receives; every process ends by itself
\* some day.  Nobody has to start, wait or terminate, and no timer but that
\* one is relied upon.
Fairness ==
    /\ \A p \in Processes : WF_vars(Start(p)) /\ WF_vars(Wait(p))
                            /\ WF_vars(Stop(p)) /\ WF_vars(Exit(p))
    /\ \A c \in Connections : SF_vars(Loop(c))
    /\ WF_vars(Receiver) /\ WF_vars(Connect)

FairSpec == Spec /\ Fairness

-----------------------------------------------------------------------------
(* What the process runtime promises.                                      *)

RowType == [status : Statuses, last : Nat, chunks : Seq(Nat \ {0}),
            crossed : SUBSET Nat, revived : BOOLEAN]
TxnType == [kind : {"none", "started", "exited", "failed", "lost", "cancel",
                    "output"},
            p : Processes \cup {NoProcess}, arg : Nat,
            end : {"none"} \cup Ended, seen : RowType,
            phase : {"none", "loaded", "written"}]
ReportType == [Processes -> [status : {"none", "running"} \cup Ended,
                             last : Nat]]
LoopType == [pc : {"closed", "opening", "greeting", "leaving", "idle", "items",
                   "request", "absent"},
             txn : TxnType, report : ReportType, todo : SUBSET Processes,
             item : Processes \cup {NoProcess}, after : Nat]
FutureType == {"none", "pending", "set"}
StarterType == [pc : {"none", "created", "registered", "waiting", "unsent",
                      "unacknowledged", "retract", "done", "gone"},
                future : FutureType, txn : TxnType]
WaiterType == [pc : {"none", "read", "registered", "waiting", "returned",
                     "gone"},
               future : FutureType]
StopperType == [pc : {"none", "begun", "send", "lose", "resolve"},
                txn : TxnType]
SessionType == [status : {"none", "running"} \cup Ended, seq : Nat,
                cancel : BOOLEAN, timedOut : BOOLEAN]
ToAgentType == [kind : {"welcome"}]
               \cup [kind : {"start", "terminate"}, p : Processes]
               \cup [kind : {"replay"}, p : Processes, arg : Nat]
ToCoreType == [kind : {"started", "error", "output", "exited"}, p : Processes,
               arg : Nat, end : {"none"} \cup Ended]
              \cup [kind : {"snapshot"}, sessions : ReportType]

\* Every variable has the shape the code gives it.
TypeOK ==
    /\ row \in [Processes -> RowType]
    /\ registered \in Connections \cup {NoConnection}
    /\ loop \in [Connections -> LoopType]
    /\ starter \in [Processes -> StarterType]
    /\ waiter \in [Processes -> WaiterType]
    /\ stopper \in [Processes -> StopperType]
    /\ link \in [at : Connections \cup {NoConnection},
                 phase : {"none", "hello", "attached"}]
    /\ toAgent \in Seq(ToAgentType)
    /\ toCore \in [Connections -> Seq(ToCoreType)]
    /\ session \in [Processes -> SessionType]
    /\ replay \in Seq(ToCoreType)
    /\ budget \in [output : Nat, waits : Nat, stops : Nat, faults : Nat,
                   trouble : Nat, timed : SUBSET Processes]
    /\ outcome \in [Processes -> {"none"} \cup Ended]

\* Core keeps the chunks of a process in order and each of them once, however
\* live output and replayed output mix and connections are replaced, from one
\* crossing to the next: only a chunk whose handler had loaded the row before
\* another loop stored output may be out of place, and what follows it may
\* repeat what was there. (_handle_output)
ChunksInOrder ==
    \A p \in Processes :
        \A i, j \in 1..Len(row[p].chunks) :
            i < j => \/ row[p].chunks[i] < row[p].chunks[j]
                     \/ \E k \in row[p].crossed : i < k /\ k <= j

\* Core says completed, cancelled or timed out only of a process that ended
\* just so; what Core itself concludes is "failed" or "lost".
ReportsAreTrue ==
    \A p \in Processes :
        row[p].status \in {"completed", "cancelled", "timed_out"}
            => outcome[p] = row[p].status

\* Whatever is dropped, restarted or told late, an active row becomes final,
\* unless a handler wrote running over an end that was stored after it had
\* loaded the row, and the process runs no more: such a row waits for the next
\* snapshot, which settles it. (_handle_started, _handle_snapshot)
ActiveRowsEnd ==
    \A p \in Processes :
        row[p].status \in ActiveStatus
            ~> row[p].status \in Final \/ row[p].revived

\* wait_for_exit does not sleep through an end ("Re-check after waiter
\* registration to close the race"): it need not wait for its timeout.
WaiterWakes ==
    \A p \in Processes :
        (waiter[p].pc = "waiting" /\ row[p].status \in Final)
            ~> waiter[p].pc # "waiting"

\* "Core requests any missing output", "Device Agent replays retained chunks":
\* when the Agent retains everything and Core too, Core has every chunk up to
\* the last one it has.
NoOutputGap ==
    \A p \in Processes :
        \A n \in 1..row[p].last :
            \E i \in 1..Len(row[p].chunks) : row[p].chunks[i] = n

=============================================================================
