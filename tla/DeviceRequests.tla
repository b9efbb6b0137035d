--------------------------- MODULE DeviceRequests ---------------------------
(***************************************************************************)
(* Requests for a capability of a paired device: Core's broker with its    *)
(* device_capability_requests rows, the registry of device connections and *)
(* the receive loop of each, the revocation of the device, and the tasks   *)
(* that the Device Agent runs the requests in.                             *)
(*                                                                         *)
(* One device.  The first message a connection carries to the Agent must   *)
(* be the welcome.  _finalise loads the row, returns if it has ended, and  *)
(* commits later; _mark_running asks nothing.                              *)
(***************************************************************************)
EXTENDS Naturals, Sequences, FiniteSets

CONSTANTS
    Calls,           \* calls of execute; the row a call creates has its name
    NoRequest,
    MaxConnections,  \* bound: connections of the Agent
    Scenes           \* which calls are made, which of them carry the one
                     \* idempotency key, and the bounds: connections,
                     \* calls of cancel, revocations, and how often a
                     \* WebSocket, Core or the Agent may go

ASSUME ConstantsAssumption ==
    /\ NoRequest \notin Calls
    /\ MaxConnections \in Nat
    /\ \A s \in Scenes : s.keyed \subseteq s.calls /\ s.calls \subseteq Calls

Connections == 1..MaxConnections
NoConnection == 0
Final == {"completed", "failed", "timed_out", "cancelled"}

VARIABLES
    scene,    \* one of Scenes, fixed
    device,   \* the Device row, and whether its revocation has disconnected it
    row,      \* status of DeviceCapabilityRequest, "none" without a row
    execute,  \* DeviceCapabilityBroker.execute
    cancel,   \* DeviceCapabilityBroker.cancel
    future,   \* _pending and the future of each entry
    link,     \* device_connections: the connection Core sends on
    loop,     \* connect_device
    at,       \* the Agent's connection and whether it was welcomed
    toAgent,  \* messages under way on the Agent's connection
    toCore,   \* results under way, per connection
    job,      \* _capability_tasks of the Agent
    overtaken,\* history: rows put back to running after they had ended
    budget    \* what the environment may still do

broker == <<row, execute, cancel, future, overtaken>>
agent  == <<at, job>>
wire   == <<toAgent, toCore>>
vars   == <<scene, device, broker, link, loop, agent, wire, budget>>

NoCall  == [pc |-> "idle", late |-> FALSE, saw |-> "none"]
NoJob   == [pc |-> "none", on |-> NoConnection, end |-> "none"]
NoLoop  == [pc |-> "none", call |-> NoRequest, status |-> "none"]
Nowhere == [on |-> NoConnection, welcomed |-> FALSE]

Init ==
    /\ scene \in Scenes
    /\ device = "active"
    /\ row = [c \in Calls |-> "none"]
    /\ execute = [c \in Calls |-> NoCall]
    /\ cancel = [c \in Calls |-> "idle"]
    /\ future = [c \in Calls |-> "none"]
    /\ link = NoConnection
    /\ loop = [k \in Connections |-> NoLoop]
    /\ at = Nowhere
    /\ toAgent = <<>>
    /\ toCore = [k \in Connections |-> <<>>]
    /\ job = [c \in Calls |-> NoJob]
    /\ overtaken = {}
    /\ budget = scene.bounds

\* device_connections.send: fails without a registration; on a dead WebSocket
\* it fails and drops the registration, or succeeds for nothing.
Send(m, sent) ==
    \/ /\ link = NoConnection /\ ~sent
       /\ UNCHANGED <<link, toAgent>>
    \/ /\ link # NoConnection /\ link = at.on /\ sent
       /\ toAgent' = Append(toAgent, m)
       /\ UNCHANGED link
    \/ /\ link # NoConnection /\ link # at.on
       /\ link' = IF sent THEN link ELSE NoConnection
       /\ UNCHANGED toAgent

Message(kind, c) == [kind |-> kind, call |-> c]
Resolved(f) == IF f = "pending" THEN "set" ELSE f
Step(c, pc) == execute' = [execute EXCEPT ![c].pc = pc]

-----------------------------------------------------------------------------
(* DeviceCapabilityBroker.execute                                          *)

SameKey(c) == IF c \in scene.keyed THEN {d \in scene.keyed : row[d] # "none"} ELSE {}

\* The row of the key is returned as it is; otherwise the device must be
\* active and connected.
Lookup(c) ==
    /\ c \in scene.calls /\ execute[c].pc = "idle"
    /\ \/ \E d \in SameKey(c) :
            execute' = [execute EXCEPT ![c].pc = "returned", ![c].saw = row[d]]
       \/ /\ SameKey(c) = {}
          /\ Step(c, IF device = "active" /\ link # NoConnection
                     THEN "checked" ELSE "refused")
    /\ UNCHANGED <<scene, device, row, cancel, future, overtaken, link, loop,
                   agent, wire, budget>>

\* Mutant: the column is not unique.
InsertAgain(c) ==
    /\ execute[c].pc = "checked"
    /\ row' = [row EXCEPT ![c] = "pending"]
    /\ Step(c, "inserted")
    /\ UNCHANGED <<scene, device, cancel, future, overtaken, link, loop,
                   agent, wire, budget>>

\* idempotency_key is unique: of two calls that found nothing one raises.
Insert(c) ==
    /\ execute[c].pc = "checked"
    /\ IF SameKey(c) = {}
       THEN row' = [row EXCEPT ![c] = "pending"] /\ Step(c, "inserted")
       ELSE Step(c, "raised") /\ UNCHANGED row
    /\ UNCHANGED <<scene, device, cancel, future, overtaken, link, loop,
                   agent, wire, budget>>

Await(c) ==
    /\ execute[c].pc = "inserted"
    /\ future' = [future EXCEPT ![c] = "pending"]
    /\ Step(c, "awaiting")
    /\ UNCHANGED <<scene, device, row, cancel, overtaken, link, loop, agent,
                   wire, budget>>

SendRequest(c) ==
    /\ execute[c].pc = "awaiting"
    /\ \E sent \in BOOLEAN :
        /\ Send(Message("request", c), sent)
        /\ Step(c, IF sent THEN "sent" ELSE "unsent")
    /\ UNCHANGED <<scene, device, row, cancel, future, overtaken, loop, agent,
                   toCore, budget>>

MarkRunning(c) ==
    /\ execute[c].pc = "sent"
    /\ row' = [row EXCEPT ![c] = "running"]
    /\ overtaken' = IF row[c] \in Final THEN overtaken \cup {c} ELSE overtaken
    /\ Step(c, "waiting")
    /\ UNCHANGED <<scene, device, cancel, future, link, loop, agent, wire,
                   budget>>

Woken(c) ==
    /\ execute[c].pc = "waiting" /\ future[c] = "set"
    /\ Step(c, "ending")
    /\ UNCHANGED <<scene, device, row, cancel, future, overtaken, link, loop,
                   agent, wire, budget>>

\* The timeout may win over a result that has just been set.
Expire(c) ==
    /\ execute[c].pc = "waiting"
    /\ \E sent \in BOOLEAN : Send(Message("cancel", c), sent)
    /\ execute' = [execute EXCEPT ![c].pc = "expired", ![c].late = TRUE]
    /\ UNCHANGED <<scene, device, row, cancel, future, overtaken, loop, agent,
                   toCore, budget>>

\* Mutant: an unsent or late request is not finalised.
LoadEndOnly(c) ==
    /\ execute[c].pc \in {"unsent", "expired"}
    /\ Step(c, "ending")
    /\ UNCHANGED <<scene, device, row, cancel, future, overtaken, link, loop,
                   agent, wire, budget>>

LoadEnd(c) ==
    /\ execute[c].pc \in {"unsent", "expired"}
    /\ Step(c, IF row[c] \in Final THEN "ending"
               ELSE IF execute[c].late THEN "expiring" ELSE "failing")
    /\ UNCHANGED <<scene, device, row, cancel, future, overtaken, link, loop,
                   agent, wire, budget>>

CommitEnd(c) ==
    /\ execute[c].pc \in {"expiring", "failing"}
    /\ row' = [row EXCEPT ![c] = IF execute[c].late THEN "timed_out"
                                 ELSE "failed"]
    /\ Step(c, "ending")
    /\ UNCHANGED <<scene, device, cancel, future, overtaken, link, loop, agent,
                   wire, budget>>

\* Mutant: the pending entry is left behind.
ReturnOnly(c) ==
    /\ execute[c].pc = "ending"
    /\ execute' = [execute EXCEPT ![c].pc = "returned", ![c].saw = row[c]]
    /\ UNCHANGED <<scene, device, row, cancel, future, overtaken, link, loop,
                   agent, wire, budget>>

\* _remove_pending and get_request.
Return(c) ==
    /\ execute[c].pc = "ending"
    /\ future' = [future EXCEPT ![c] = "none"]
    /\ execute' = [execute EXCEPT ![c].pc = "returned", ![c].saw = row[c]]
    /\ UNCHANGED <<scene, device, row, cancel, overtaken, link, loop, agent,
                   wire, budget>>

-----------------------------------------------------------------------------
(* DeviceCapabilityBroker.cancel                                           *)

CancelAsk(c) ==
    /\ cancel[c] = "idle" /\ budget.cancels > 0
    /\ row[c] \notin Final \cup {"none"}
    /\ \E sent \in BOOLEAN : Send(Message("cancel", c), sent)
    /\ cancel' = [cancel EXCEPT ![c] = "asked"]
    /\ budget' = [budget EXCEPT !.cancels = @ - 1]
    /\ UNCHANGED <<scene, device, row, execute, future, overtaken, loop, agent,
                   toCore>>

CancelLoad(c) ==
    /\ cancel[c] = "asked"
    /\ cancel' = [cancel EXCEPT ![c] = IF row[c] \in Final THEN "telling"
                                       ELSE "cancelling"]
    /\ UNCHANGED <<scene, device, row, execute, future, overtaken, link, loop,
                   agent, wire, budget>>

CancelCommit(c) ==
    /\ cancel[c] = "cancelling"
    /\ row' = [row EXCEPT ![c] = "cancelled"]
    /\ cancel' = [cancel EXCEPT ![c] = "telling"]
    /\ UNCHANGED <<scene, device, execute, future, overtaken, link, loop,
                   agent, wire, budget>>

CancelTell(c) ==
    /\ cancel[c] = "telling"
    /\ future' = [future EXCEPT ![c] = Resolved(@)]
    /\ cancel' = [cancel EXCEPT ![c] = "done"]
    /\ UNCHANGED <<scene, device, row, execute, overtaken, link, loop, agent,
                   wire, budget>>

-----------------------------------------------------------------------------
(* connect_device, the registry of connections, and resolve_result         *)

Enter(k, pc) == loop' = [loop EXCEPT ![k].pc = pc]

\* The Agent connects and says hello; the token is looked up once more.
Hello(k) ==
    /\ at = Nowhere /\ device = "active"
    /\ loop[k].pc = "none" /\ k <= scene.bounds.connections
    /\ \A j \in 1..(k - 1) : loop[j].pc # "none"
    /\ Enter(k, "hello")
    /\ at' = [on |-> k, welcomed |-> FALSE]
    /\ UNCHANGED <<scene, device, broker, link, job, wire, budget>>

\* The WebSocket of registration j is closed by Core; its loop goes on.
Close(j) ==
    toAgent' = IF j # NoConnection /\ j = at.on
               THEN Append(toAgent, Message("close", NoRequest)) ELSE toAgent

\* A handler that comes late replaces the newer connection of its Agent.
Register(k) ==
    /\ loop[k].pc = "hello"
    /\ link' = k
    /\ Close(link)
    /\ Enter(k, "welcome")
    /\ UNCHANGED <<scene, device, broker, agent, toCore, budget>>

Welcome(k) ==
    /\ loop[k].pc = "welcome"
    /\ \E sent \in BOOLEAN :
        /\ Send(Message("welcome", NoRequest), sent)
        /\ Enter(k, IF sent THEN "receive" ELSE "closing")
    /\ UNCHANGED <<scene, device, broker, agent, toCore, budget>>

\* A result without a pending call is reported as unmatched and dropped.
Take(k) ==
    /\ loop[k].pc = "receive" /\ toCore[k] # <<>>
    /\ toCore' = [toCore EXCEPT ![k] = Tail(@)]
    /\ LET m == Head(toCore[k])
       IN  loop' = IF future[m.call] = "none" THEN loop
                   ELSE [loop EXCEPT ![k] =
                           [pc |-> IF row[m.call] \in Final THEN "tell"
                                   ELSE "store",
                            call |-> m.call, status |-> m.status]]
    /\ UNCHANGED <<scene, device, broker, link, agent, toAgent, budget>>

\* Mutant: what is not a failure counts as completed.
StoreUnlessFailed(k) ==
    /\ loop[k].pc = "store"
    /\ row' = [row EXCEPT ![loop[k].call] =
                 IF loop[k].status = "failed" THEN "failed" ELSE "completed"]
    /\ Enter(k, "tell")
    /\ UNCHANGED <<scene, device, execute, cancel, future, overtaken, link,
                   agent, wire, budget>>

Store(k) ==
    /\ loop[k].pc = "store"
    /\ row' = [row EXCEPT ![loop[k].call] = loop[k].status]
    /\ Enter(k, "tell")
    /\ UNCHANGED <<scene, device, execute, cancel, future, overtaken, link,
                   agent, wire, budget>>

Tell(k) ==
    /\ loop[k].pc = "tell"
    /\ future' = [future EXCEPT ![loop[k].call] = Resolved(@)]
    /\ loop' = [loop EXCEPT ![k] = [NoLoop EXCEPT !.pc = "receive"]]
    /\ UNCHANGED <<scene, device, row, execute, cancel, overtaken, link, agent,
                   wire, budget>>

\* Mutant: a heartbeat of a revoked device is welcome.
RefuseHeartbeatNever(k) == FALSE /\ UNCHANGED vars

\* A heartbeat is authenticated again.
RefuseHeartbeat(k) ==
    /\ loop[k].pc = "receive" /\ at = [on |-> k, welcomed |-> TRUE]
    /\ device # "active"
    /\ Enter(k, "closing")
    /\ UNCHANGED <<scene, device, broker, link, agent, wire, budget>>

\* The WebSocket is gone, and what had arrived is handled.
LoopEnds(k) ==
    /\ loop[k].pc = "receive" /\ at.on # k /\ toCore[k] = <<>>
    /\ Enter(k, "closing")
    /\ UNCHANGED <<scene, device, broker, link, agent, wire, budget>>

\* Mutant: the registration of a newer connection is removed too.
UnregisterAny(k) ==
    /\ loop[k].pc = "closing"
    /\ link' = NoConnection
    /\ toCore' = [toCore EXCEPT ![k] = <<>>]
    /\ Enter(k, "closed")
    /\ UNCHANGED <<scene, device, broker, agent, toAgent, budget>>

Unregister(k) ==
    /\ loop[k].pc = "closing"
    /\ link' = IF link = k THEN NoConnection ELSE link
    /\ toCore' = [toCore EXCEPT ![k] = <<>>]
    /\ Enter(k, "closed")
    /\ UNCHANGED <<scene, device, broker, agent, toAgent, budget>>

\* revoke_device commits, then the connection is closed.
Revoke ==
    /\ device = "active" /\ budget.revokes > 0
    /\ device' = "revoked"
    /\ UNCHANGED <<scene, broker, link, loop, agent, wire, budget>>

Disconnect ==
    /\ device = "revoked"
    /\ device' = "disconnected"
    /\ link' = NoConnection
    /\ Close(link)
    /\ UNCHANGED <<scene, broker, loop, agent, toCore, budget>>

-----------------------------------------------------------------------------
(* The Device Agent                                                        *)

Answer(c, status) ==
    toCore' = IF job[c].on = at.on
              THEN [toCore EXCEPT ![job[c].on] =
                      Append(@, [call |-> c, status |-> status])]
              ELSE toCore

\* Anything but a welcome at first is a protocol error.
AgentGreeted ==
    /\ at # Nowhere /\ ~at.welcomed /\ toAgent # <<>>
    /\ IF Head(toAgent).kind = "welcome"
       THEN at' = [at EXCEPT !.welcomed = TRUE] /\ toAgent' = Tail(toAgent)
       ELSE at' = Nowhere /\ toAgent' = <<>>
    /\ UNCHANGED <<scene, device, broker, link, loop, job, toCore, budget>>

AgentTakes(kind) == /\ at.welcomed /\ toAgent # <<>>
                    /\ Head(toAgent).kind = kind
                    /\ toAgent' = Tail(toAgent)

AgentAccepts ==
    /\ AgentTakes("request")
    /\ job' = [job EXCEPT ![Head(toAgent).call] =
                 [pc |-> "accepted", on |-> at.on, end |-> "none"]]
    /\ UNCHANGED <<scene, device, broker, link, loop, at, toCore, budget>>

\* A task that is cancelled before its first step never answers.
AgentCancels ==
    /\ AgentTakes("cancel")
    /\ LET c == Head(toAgent).call
       IN  /\ job' = IF job[c].pc \in {"accepted", "running"}
                     THEN [job EXCEPT ![c].pc = "over", ![c].end = "cancelled"]
                     ELSE job
           /\ IF job[c].pc = "running" THEN Answer(c, "cancelled")
              ELSE UNCHANGED toCore
    /\ UNCHANGED <<scene, device, broker, link, loop, at, budget>>

AgentStarts(c) ==
    /\ job[c].pc = "accepted"
    /\ job' = [job EXCEPT ![c].pc = "running"]
    /\ UNCHANGED <<scene, device, broker, link, loop, at, wire, budget>>

\* The result goes to the WebSocket the request came from, or nowhere.
AgentFinishes(c) ==
    /\ job[c].pc = "running"
    /\ \E status \in {"completed", "failed"} :
        /\ job' = [job EXCEPT ![c].pc = "over", ![c].end = status]
        /\ Answer(c, status)
    /\ UNCHANGED <<scene, device, broker, link, loop, at, toAgent, budget>>

\* Core has closed the WebSocket.
AgentLeaves ==
    /\ \/ AgentTakes("close")
       \/ /\ at # Nowhere /\ loop[at.on].pc = "closed"
          /\ toAgent' = <<>>
    /\ at' = Nowhere
    /\ UNCHANGED <<scene, device, broker, link, loop, job, toCore, budget>>

-----------------------------------------------------------------------------
(* Faults                                                                  *)

Fault == budget.faults > 0 /\ budget' = [budget EXCEPT !.faults = @ - 1]

\* A prefix of what travels to Core still arrives.
Cut(k) == \E n \in 0..Len(toCore[k]) :
              toCore' = [toCore EXCEPT ![k] = SubSeq(@, 1, n)]

Break ==
    /\ Fault /\ at # Nowhere
    /\ Cut(at.on)
    /\ at' = Nowhere /\ toAgent' = <<>>
    /\ UNCHANGED <<scene, device, broker, link, loop, job>>

AgentRestart ==
    /\ Fault
    /\ IF at # Nowhere THEN Cut(at.on) ELSE UNCHANGED toCore
    /\ at' = Nowhere /\ toAgent' = <<>>
    /\ job' = [c \in Calls |-> IF job[c].pc \in {"accepted", "running"}
                               THEN [job[c] EXCEPT !.pc = "over"] ELSE job[c]]
    /\ UNCHANGED <<scene, device, broker, link, loop>>

Returned == {"idle", "returned", "refused", "raised"}

\* Rows stay as they are; nobody takes them up again.
CoreRestart ==
    /\ Fault
    /\ execute' = [c \in Calls |-> IF execute[c].pc \in Returned
                                   THEN execute[c]
                                   ELSE [execute[c] EXCEPT !.pc = "lost"]]
    /\ cancel' = [c \in Calls |-> IF cancel[c] = "idle" THEN "idle" ELSE "done"]
    /\ future' = [c \in Calls |-> "none"]
    /\ link' = NoConnection
    /\ loop' = [k \in Connections |->
                  IF loop[k].pc = "none" THEN NoLoop
                  ELSE [NoLoop EXCEPT !.pc = "closed"]]
    /\ toCore' = [k \in Connections |-> <<>>]
    /\ UNCHANGED <<scene, device, row, overtaken, agent, toAgent>>

-----------------------------------------------------------------------------
CallStep(c) ==
    \/ Lookup(c) \/ Insert(c) \/ Await(c) \/ SendRequest(c) \/ MarkRunning(c)
    \/ Woken(c) \/ Expire(c) \/ LoadEnd(c) \/ CommitEnd(c) \/ Return(c)

CancelStep(c) == CancelLoad(c) \/ CancelCommit(c) \/ CancelTell(c)

LoopStep(k) ==
    \/ Register(k) \/ Welcome(k) \/ Take(k) \/ Store(k) \/ Tell(k)
    \/ RefuseHeartbeat(k) \/ LoopEnds(k) \/ Unregister(k)

AgentStep == AgentGreeted \/ AgentAccepts \/ AgentCancels \/ AgentLeaves

Next ==
    \/ \E c \in Calls : CallStep(c) \/ CancelAsk(c) \/ CancelStep(c)
                        \/ AgentStarts(c) \/ AgentFinishes(c)
    \/ \E k \in Connections : Hello(k) \/ LoopStep(k)
    \/ Revoke \/ Disconnect \/ AgentStep
    \/ Break \/ AgentRestart \/ CoreRestart

Spec == Init /\ [][Next]_vars

\* Core's event loop runs what can run and its timers fire; an Agent with a
\* connection reads it and beats.  A job need not finish, nobody need connect.
FairSpec ==
    /\ Spec
    /\ \A c \in Calls : WF_vars(CallStep(c)) /\ WF_vars(CancelStep(c))
    /\ \A k \in Connections : WF_vars(LoopStep(k))
    /\ WF_vars(Disconnect)
    /\ WF_vars(AgentStep)

-----------------------------------------------------------------------------
CallPcs == Returned \cup {"checked", "inserted", "awaiting", "sent", "unsent",
                          "waiting", "expired", "expiring", "failing",
                          "ending", "lost"}
Statuses == {"none", "pending", "running"} \cup Final

\* Every variable has the shape the code gives it; a call that returned has
\* taken its future away.
TypeOK ==
    /\ scene \in Scenes
    /\ device \in {"active", "revoked", "disconnected"}
    /\ row \in [Calls -> Statuses]
    /\ execute \in [Calls -> [pc : CallPcs, late : BOOLEAN, saw : Statuses]]
    /\ cancel \in [Calls -> {"idle", "asked", "cancelling", "telling", "done"}]
    /\ future \in [Calls -> {"none", "pending", "set"}]
    /\ link \in Connections \cup {NoConnection}
    /\ \A k \in Connections :
        /\ loop[k].pc \in {"none", "hello", "welcome", "receive", "store",
                           "tell", "closing", "closed"}
        /\ loop[k].pc \in {"store", "tell"} =>
               loop[k].call \in Calls /\ loop[k].status \in Final
    /\ at \in [on : Connections \cup {NoConnection}, welcomed : BOOLEAN]
    /\ toAgent \in Seq([kind : {"welcome", "request", "cancel", "close"},
                        call : Calls \cup {NoRequest}])
    /\ toCore \in [Connections -> Seq([call : Calls, status : Final])]
    /\ job \in [Calls -> [pc : {"none", "accepted", "running", "over"},
                          on : Connections \cup {NoConnection},
                          end : {"none"} \cup Final]]
    /\ overtaken \subseteq Calls
    /\ \A c \in Calls : execute[c].pc \in Returned => future[c] = "none"

\* Calls with one idempotency key make the Agent work once, although each of
\* them may have found no row.
OneRunPerKey == Cardinality({c \in scene.keyed : job[c].pc # "none"}) <= 1

\* A row says what happened: completed and failed when the Agent said so, or
\* failed because the Agent was never asked; cancelled and timed_out only when
\* somebody asked or the time was up.
EndsAreTrue ==
    \A c \in Calls :
        /\ row[c] = "completed" => job[c].end = "completed"
        /\ row[c] = "failed" => job[c].end = "failed" \/ job[c].pc = "none"
        /\ row[c] = "cancelled" => cancel[c] # "idle" \/ execute[c].late
        /\ row[c] = "timed_out" => execute[c].late

\* An Agent that was welcomed can be reached, or is told to connect again,
\* whichever handler of an older connection registers or unregisters late.
WelcomedIsReachable ==
    (at.welcomed /\ device = "active" /\ loop[at.on].pc # "closed")
    => \/ link = at.on
       \/ \E i \in DOMAIN toAgent : toAgent[i].kind = "close"

\* Every request ends, unless its result was overtaken by _mark_running or
\* Core was restarted under it.
RequestEnds ==
    \A c \in Calls :
        row[c] = "pending" ~> \/ row[c] \in Final
                              \/ c \in overtaken
                              \/ execute[c].pc = "lost"

\* A revoked device is disconnected for good, even when its connection was
\* registered after the revocation had looked for one.
RevokedLeaves == device = "revoked" ~> [](link = NoConnection /\ at = Nowhere)
=============================================================================
