----------------------- MODULE DeviceRequests_proofs -----------------------
(***************************************************************************)
(* Theorems of DeviceRequests: any number of requests, keys, connections,  *)
(* cancellations, revocations and faults.                                  *)
(***************************************************************************)
EXTENDS DeviceRequests, FiniteSetTheorems, TLAPS

-----------------------------------------------------------------------------
(* The inductive invariant.                                                *)

Kinds == {"welcome", "request", "cancel", "close"}
LoopPcs == {"none", "hello", "welcome", "receive", "store", "tell", "closing",
            "closed"}
MessageType == [kind : Kinds, call : Calls \cup {NoRequest}]
ResultType == [call : Calls, status : Final]
CallType == [pc : CallPcs, late : BOOLEAN, saw : Statuses]
LoopType == [pc : LoopPcs, call : Calls \cup {NoRequest},
             status : {"none"} \cup Final]
PlaceType == [on : Connections \cup {NoConnection}, welcomed : BOOLEAN]
JobType == [pc : {"none", "accepted", "running", "over"},
            on : Connections \cup {NoConnection}, end : {"none"} \cup Final]

Typed ==
    /\ scene \in Scenes
    /\ device \in {"active", "revoked", "disconnected"}
    /\ row \in [Calls -> Statuses]
    /\ execute \in [Calls -> CallType]
    /\ cancel \in [Calls -> {"idle", "asked", "cancelling", "telling", "done"}]
    /\ future \in [Calls -> {"none", "pending", "set"}]
    /\ link \in Connections \cup {NoConnection}
    /\ loop \in [Connections -> LoopType]
    /\ at \in PlaceType
    /\ toAgent \in Seq(MessageType)
    /\ toCore \in [Connections -> Seq(ResultType)]
    /\ job \in [Calls -> JobType]
    /\ overtaken \subseteq Calls

\* A call that has not sent its request, or failed to.
Before == {"idle", "checked", "inserted", "awaiting", "refused", "raised",
           "unsent", "failing"}

\* A call that has created its row and has not read its end.
Posting == {"inserted", "awaiting", "sent", "unsent", "waiting", "expired",
            "expiring", "failing"}

\* Someone has asked for the end of a request.
Unwanted(c) == cancel[c] # "idle" \/ execute[c].late

\* A request under way is the only one of its call, and has a row; a message
\* of cancellation was asked for; the messages die with their connection.
Posted ==
    /\ at = Nowhere => toAgent = <<>>
    /\ \A i \in 1..Len(toAgent) :
        /\ toAgent[i].kind \in {"request", "cancel"} => toAgent[i].call \in Calls
        /\ toAgent[i].kind = "request" =>
            /\ job[toAgent[i].call].pc = "none"
            /\ execute[toAgent[i].call].pc \notin Before
            /\ row[toAgent[i].call] # "none"
        /\ toAgent[i].kind = "cancel" => Unwanted(toAgent[i].call)
    /\ \A i, j \in 1..Len(toAgent) :
        /\ toAgent[i].kind = "request" /\ toAgent[j].kind = "request"
        /\ toAgent[i].call = toAgent[j].call
        => i = j

\* A job was asked for by a row, and has an end only when it is over; a call
\* or a cancellation under way has a row.
Worked ==
    \A c \in Calls :
        /\ job[c].pc # "none" => row[c] # "none" /\ execute[c].pc \notin Before
        /\ job[c].pc # "over" => job[c].end = "none"
        /\ job[c].end \in {"none", "completed", "failed", "cancelled"}
        /\ job[c].end = "cancelled" => Unwanted(c)
        /\ execute[c].pc \in Posting => row[c] # "none"
        /\ cancel[c] # "idle" => row[c] # "none"
        /\ execute[c].pc \in {"expired", "expiring"} => execute[c].late

\* A call that is not under way has no future.
Awaited ==
    \A c \in Calls : execute[c].pc \in Returned \cup {"checked", "inserted"} =>
                        future[c] = "none"

\* A result that travels, or is being stored, is the end of its job.
Carried ==
    /\ \A k \in Connections : \A i \in 1..Len(toCore[k]) :
            job[toCore[k][i].call].end = toCore[k][i].status
    /\ \A k \in Connections : loop[k].pc \in {"store", "tell"} =>
            /\ loop[k].call \in Calls /\ loop[k].status \in Final
            /\ job[loop[k].call].end = loop[k].status

\* A row that failed without a job never gets one.
Ended ==
    \A c \in Calls :
        /\ row[c] = "completed" => job[c].end = "completed"
        /\ row[c] = "failed" =>
            \/ job[c].end = "failed"
            \/ /\ job[c].pc = "none"
               /\ execute[c].pc \notin {"inserted", "awaiting"}
               /\ \A i \in 1..Len(toAgent) :
                    ~(toAgent[i].kind = "request" /\ toAgent[i].call = c)
        /\ row[c] = "cancelled" => Unwanted(c)
        /\ row[c] = "timed_out" => execute[c].late

\* One row for the key.
Keyed == \A c, d \in scene.keyed : row[c] # "none" /\ row[d] # "none" => c = d

\* A close is the last message of a connection that Core has left; an Agent
\* that is welcomed, or about to be, is the one Core sends to.
Reached ==
    /\ link # NoConnection => loop[link].pc \notin {"none", "hello"}
    /\ at # Nowhere => at.on \in Connections /\ loop[at.on].pc # "none"
    /\ \A i \in 1..Len(toAgent) : toAgent[i].kind = "close" =>
            /\ i = Len(toAgent) /\ link # at.on
            /\ loop[at.on].pc # "hello"
    /\ /\ device = "active" /\ at # Nowhere /\ loop[at.on].pc # "closed"
       /\ at.welcomed \/ \E i \in 1..Len(toAgent) : toAgent[i].kind = "welcome"
       => \/ link = at.on
          \/ \E i \in 1..Len(toAgent) : toAgent[i].kind = "close"

DeviceInv == /\ Typed /\ Posted /\ Worked /\ Awaited /\ Carried /\ Ended
             /\ Keyed /\ Reached

-----------------------------------------------------------------------------
(* Messages.                                                               *)

LEMMA AppendAt ==
    ASSUME NEW S, NEW s \in Seq(S), NEW m \in S
    PROVE  /\ Append(s, m) \in Seq(S)
           /\ Len(Append(s, m)) = Len(s) + 1
           /\ \A i \in 1..Len(s) : Append(s, m)[i] = s[i]
           /\ Append(s, m)[Len(s) + 1] = m
  OBVIOUS

LEMMA TailAt ==
    ASSUME NEW S, NEW s \in Seq(S), s # <<>>
    PROVE  /\ Tail(s) \in Seq(S) /\ Head(s) \in S /\ Head(s) = s[1]
           /\ Len(s) \in Nat /\ Len(s) >= 1 /\ Len(Tail(s)) = Len(s) - 1
           /\ \A i \in 1..Len(Tail(s)) : i + 1 \in 1..Len(s) /\ Tail(s)[i] = s[i + 1]
  OBVIOUS

\* What sending does to the wire and to the registration.
LEMMA Sending ==
    ASSUME Typed, NEW m \in MessageType, NEW sent \in BOOLEAN, Send(m, sent)
    PROVE  /\ link' \in Connections \cup {NoConnection}
           /\ toAgent' \in Seq(MessageType)
           /\ \/ /\ UNCHANGED toAgent
                 /\ link' = link \/ (link # at.on /\ link' = NoConnection)
              \/ /\ toAgent' = Append(toAgent, m)
                 /\ UNCHANGED link /\ link = at.on /\ link # NoConnection
                 /\ sent
<1>1. toAgent \in Seq(MessageType) /\ link \in Connections \cup {NoConnection}
  BY DEF Typed
<1>2. Append(toAgent, m) \in Seq(MessageType)
  BY <1>1
<1> QED BY <1>1, <1>2 DEF Send

LEMMA Messages ==
    /\ \A c \in Calls : \A kind \in {"request", "cancel"} :
            Message(kind, c) \in MessageType
    /\ Message("welcome", NoRequest) \in MessageType
    /\ Message("close", NoRequest) \in MessageType
  BY DEF Message, MessageType, Kinds

\* Closing a registration appends at most one message.
LEMMA Closes ==
    ASSUME Typed, NEW j, Close(j)
    PROVE  /\ toAgent' \in Seq(MessageType)
           /\ \/ UNCHANGED toAgent /\ (j = NoConnection \/ j # at.on)
              \/ /\ toAgent' = Append(toAgent, Message("close", NoRequest))
                 /\ j # NoConnection /\ j = at.on
  BY Messages DEF Typed, Close

\* A call or a loop is at a place of its own program.
LEMMA Places ==
    /\ {"checked", "refused", "raised", "inserted", "awaiting", "sent",
        "unsent", "waiting", "ending", "expired", "expiring", "failing",
        "returned", "lost", "idle"} \subseteq CallPcs
    /\ Final \subseteq Statuses /\ {"pending", "running"} \subseteq Statuses
    /\ NoConnection \notin Connections
  BY DEF CallPcs, Returned, Statuses, Final, NoConnection, Connections

LEMMA Moving ==
    ASSUME Typed, NEW c \in Calls, NEW p \in CallPcs, Step(c, p)
    PROVE  /\ execute' \in [Calls -> CallType]
           /\ execute'[c].pc = p /\ execute'[c].late = execute[c].late
           /\ \A d \in Calls \ {c} : execute'[d] = execute[d]
<1> DEFINE new == [execute[c] EXCEPT !.pc = p]
<1>1. execute' = [execute EXCEPT ![c] = new]
  BY DEF Step
<1>2. new \in CallType /\ new.pc = p /\ new.late = execute[c].late
  BY DEF Typed, CallType
<1> HIDE DEF new
<1> QED BY <1>1, <1>2 DEF Typed

LEMMA Returning ==
    ASSUME Typed, NEW c \in Calls, NEW x \in Statuses,
           execute' = [execute EXCEPT ![c].pc = "returned", ![c].saw = x]
    PROVE  /\ execute' \in [Calls -> CallType]
           /\ execute'[c].pc = "returned" /\ execute'[c].late = execute[c].late
           /\ \A d \in Calls \ {c} : execute'[d] = execute[d]
<1> DEFINE new == [execute[c] EXCEPT !.pc = "returned", !.saw = x]
<1>0. execute[c] \in CallType
  BY DEF Typed
<1>1. execute' = [execute EXCEPT ![c] = new]
  BY <1>0 DEF CallType
<1>2. new \in CallType /\ new.pc = "returned" /\ new.late = execute[c].late
  BY <1>0, Places DEF CallType
<1> HIDE DEF new
<1> QED BY <1>1, <1>2 DEF Typed

LEMMA Expiring ==
    ASSUME Typed, NEW c \in Calls, Expire(c)
    PROVE  /\ execute' \in [Calls -> CallType]
           /\ execute'[c].pc = "expired" /\ execute'[c].late
           /\ \A d \in Calls \ {c} : execute'[d] = execute[d]
<1> DEFINE new == [execute[c] EXCEPT !.pc = "expired", !.late = TRUE]
<1>1. execute' = [execute EXCEPT ![c] = new]
  BY DEF Typed, CallType, Expire
<1>2. new \in CallType /\ new.pc = "expired" /\ new.late
  BY DEF Typed, CallType, CallPcs
<1> HIDE DEF new
<1> QED BY <1>1, <1>2 DEF Typed

LEMMA Entering ==
    ASSUME Typed, NEW k \in Connections, NEW p \in LoopPcs, Enter(k, p)
    PROVE  /\ loop' \in [Connections -> LoopType]
           /\ loop'[k].pc = p
           /\ loop'[k].call = loop[k].call /\ loop'[k].status = loop[k].status
           /\ \A j \in Connections \ {k} : loop'[j] = loop[j]
<1> DEFINE new == [loop[k] EXCEPT !.pc = p]
<1>1. loop' = [loop EXCEPT ![k] = new]
  BY DEF Enter
<1>2. /\ new \in LoopType /\ new.pc = p
      /\ new.call = loop[k].call /\ new.status = loop[k].status
  BY DEF Typed, LoopType
<1> HIDE DEF new
<1> QED BY <1>1, <1>2 DEF Typed

\* A job that ends has the end that is given to it.
LEMMA Working ==
    ASSUME Typed, NEW c \in Calls, NEW p \in {"running", "over"},
           NEW e \in {"none"} \cup Final,
           \/ job' = [job EXCEPT ![c].pc = p, ![c].end = e]
           \/ job' = [job EXCEPT ![c].pc = p] /\ e = job[c].end
    PROVE  /\ job' \in [Calls -> JobType]
           /\ job'[c].pc = p /\ job'[c].end = e
           /\ \A d \in Calls \ {c} : job'[d] = job[d]
<1> DEFINE new == [job[c] EXCEPT !.pc = p, !.end = e]
<1>1. job[c] \in JobType
  BY DEF Typed
<1>2. new \in JobType /\ new.pc = p /\ new.end = e
  BY <1>1 DEF JobType
<1>3. CASE job' = [job EXCEPT ![c].pc = p, ![c].end = e]
  BY <1>3, <1>1, <1>2 DEF Typed, JobType
<1>4. CASE job' = [job EXCEPT ![c].pc = p] /\ e = job[c].end
  <2>1. new = [job[c] EXCEPT !.pc = p]
    BY <1>1, <1>4 DEF JobType
  <2> HIDE DEF new
  <2> QED BY <2>1, <1>4, <1>1, <1>2 DEF Typed
<1> QED BY <1>3, <1>4

\* A result is sent at most once more, on the connection of its request.
LEMMA Answering ==
    ASSUME Typed, NEW c \in Calls, NEW status \in Final, Answer(c, status)
    PROVE  /\ toCore' \in [Connections -> Seq(ResultType)]
           /\ \A k \in Connections :
                \/ toCore'[k] = toCore[k]
                \/ toCore'[k] = Append(toCore[k], [call |-> c, status |-> status])
<1>1. [call |-> c, status |-> status] \in ResultType
  BY DEF ResultType
<1>2. \A k \in Connections :
        Append(toCore[k], [call |-> c, status |-> status]) \in Seq(ResultType)
  BY <1>1 DEF Typed
<1> QED BY <1>2 DEF Answer, Typed

\* What is cut off a connection is its end.
LEMMA Cutting ==
    ASSUME Typed, NEW k, Cut(k)
    PROVE  /\ toCore' \in [Connections -> Seq(ResultType)]
           /\ \A j \in Connections :
                /\ Len(toCore'[j]) \in Nat /\ Len(toCore'[j]) <= Len(toCore[j])
                /\ \A i \in 1..Len(toCore'[j]) : toCore'[j][i] = toCore[j][i]
<1>1. PICK n \in 0..Len(toCore[k]) :
            toCore' = [toCore EXCEPT ![k] = SubSeq(toCore[k], 1, n)]
  BY DEF Cut
<1>2. CASE k \in Connections
  <2>1. toCore[k] \in Seq(ResultType)
    BY <1>2 DEF Typed
  <2>2. /\ SubSeq(toCore[k], 1, n) \in Seq(ResultType)
        /\ Len(SubSeq(toCore[k], 1, n)) = n /\ n <= Len(toCore[k])
        /\ \A i \in 1..n : SubSeq(toCore[k], 1, n)[i] = toCore[k][i]
    BY <2>1, <1>1
  <2> QED BY <1>1, <1>2, <2>2 DEF Typed
<1>3. CASE k \notin Connections
  <2>1. toCore' = toCore
    BY <1>1, <1>3 DEF Typed
  <2> QED BY <2>1 DEF Typed
<1> QED BY <1>2, <1>3

-----------------------------------------------------------------------------
(* Type correctness.                                                       *)

LEMMA TypedCall ==
    ASSUME DeviceInv, NEW c \in Calls, CallStep(c) \/ CancelAsk(c) \/ CancelStep(c)
    PROVE  Typed'
<1> USE Places, Messages DEF DeviceInv
<1>1. CASE Lookup(c)
  <2>1. execute' \in [Calls -> CallType]
    <3>1. ASSUME NEW d \in SameKey(c),
                 execute' = [execute EXCEPT ![c].pc = "returned", ![c].saw = row[d]]
          PROVE  execute' \in [Calls -> CallType]
      <4>1. d \in Calls
        BY <3>1, ConstantsAssumption DEF SameKey, Typed
      <4>2. row[d] \in Statuses
        BY <4>1 DEF Typed
      <4> QED BY <3>1, <4>2, Returning
    <3>2. CASE Step(c, IF device = "active" /\ link # NoConnection
                       THEN "checked" ELSE "refused")
      BY <3>2, Moving
    <3> QED BY <1>1, <3>1, <3>2 DEF Lookup
  <2> QED BY <1>1, <2>1 DEF Lookup, Typed, agent, wire
<1>2. CASE Insert(c)
  <2>1. execute' \in [Calls -> CallType]
    BY <1>2, Moving DEF Insert
  <2> QED BY <1>2, <2>1 DEF Insert, Typed, agent, wire
<1>3. CASE Await(c)
  <2>1. execute' \in [Calls -> CallType]
    BY <1>3, Moving DEF Await
  <2> QED BY <1>3, <2>1 DEF Await, Typed, agent, wire
<1>4. CASE SendRequest(c)
  <2>1. PICK sent \in BOOLEAN : /\ Send(Message("request", c), sent)
                                /\ Step(c, IF sent THEN "sent" ELSE "unsent")
    BY <1>4 DEF SendRequest
  <2>2. execute' \in [Calls -> CallType]
    BY <2>1, Moving
  <2>3. link' \in Connections \cup {NoConnection} /\ toAgent' \in Seq(MessageType)
    BY <2>1, Sending
  <2> QED BY <1>4, <2>2, <2>3 DEF SendRequest, Typed, agent
<1>5. CASE MarkRunning(c)
  <2>1. execute' \in [Calls -> CallType]
    BY <1>5, Moving DEF MarkRunning
  <2> QED BY <1>5, <2>1 DEF MarkRunning, Typed, agent, wire
<1>6. CASE Woken(c) \/ LoadEnd(c)
  <2>1. execute' \in [Calls -> CallType]
    BY <1>6, Moving DEF Woken, LoadEnd
  <2> QED BY <1>6, <2>1 DEF Woken, LoadEnd, Typed, agent, wire
<1>7. CASE Expire(c)
  <2>1. execute' \in [Calls -> CallType]
    BY <1>7, Expiring
  <2>2. link' \in Connections \cup {NoConnection} /\ toAgent' \in Seq(MessageType)
    BY <1>7, Sending DEF Expire
  <2> QED BY <1>7, <2>1, <2>2 DEF Expire, Typed, agent
<1>8. CASE CommitEnd(c)
  <2>1. execute' \in [Calls -> CallType]
    BY <1>8, Moving DEF CommitEnd
  <2>2. row' \in [Calls -> Statuses]
    BY <1>8 DEF CommitEnd, Typed, Statuses, Final
  <2> QED BY <1>8, <2>1, <2>2 DEF CommitEnd, Typed, agent, wire
<1>9. CASE Return(c)
  <2>1. execute' \in [Calls -> CallType]
    BY <1>9, Returning DEF Return, Typed
  <2> QED BY <1>9, <2>1 DEF Return, Typed, agent, wire
<1>10. CASE CancelAsk(c)
  <2>1. link' \in Connections \cup {NoConnection} /\ toAgent' \in Seq(MessageType)
    BY <1>10, Sending DEF CancelAsk
  <2> QED BY <1>10, <2>1 DEF CancelAsk, Typed, agent
<1>11. CASE CancelLoad(c)
  BY <1>11 DEF CancelLoad, Typed, agent, wire
<1>12. CASE CancelCommit(c)
  BY <1>12 DEF CancelCommit, Typed, agent, wire, Final
<1>13. CASE CancelTell(c)
  BY <1>13 DEF CancelTell, Typed, agent, wire, Resolved
<1> QED BY <1>1, <1>2, <1>3, <1>4, <1>5, <1>6, <1>7, <1>8, <1>9, <1>10, <1>11,
           <1>12, <1>13 DEF CallStep, CancelStep

LEMMA TypedLoop ==
    ASSUME DeviceInv, NEW k \in Connections, Hello(k) \/ LoopStep(k)
    PROVE  Typed'
<1> USE Places, Messages DEF DeviceInv
<1>1. CASE Hello(k)
  <2>1. loop' \in [Connections -> LoopType]
    BY <1>1, Entering DEF Hello, LoopPcs
  <2>2. at' \in PlaceType
    BY <1>1 DEF Hello, PlaceType
  <2> QED BY <1>1, <2>1, <2>2 DEF Hello, Typed, broker, wire
<1>2. CASE Register(k)
  <2>1. loop' \in [Connections -> LoopType]
    BY <1>2, Entering DEF Register, LoopPcs
  <2>2. toAgent' \in Seq(MessageType)
    BY <1>2, Closes DEF Register
  <2> QED BY <1>2, <2>1, <2>2 DEF Register, Typed, broker, agent
<1>3. CASE Welcome(k)
  <2>1. PICK sent \in BOOLEAN :
            /\ Send(Message("welcome", NoRequest), sent)
            /\ Enter(k, IF sent THEN "receive" ELSE "closing")
    BY <1>3 DEF Welcome
  <2>2. loop' \in [Connections -> LoopType]
    BY <2>1, Entering DEF LoopPcs
  <2>3. link' \in Connections \cup {NoConnection} /\ toAgent' \in Seq(MessageType)
    BY <2>1, Sending
  <2> QED BY <1>3, <2>2, <2>3 DEF Welcome, Typed, broker, agent
<1>4. CASE Take(k)
  <2>1. toCore[k] \in Seq(ResultType) /\ toCore[k] # <<>>
    BY <1>4 DEF Take, Typed
  <2>2. Tail(toCore[k]) \in Seq(ResultType) /\ Head(toCore[k]) \in ResultType
    BY <2>1, TailAt
  <2>3. toCore' \in [Connections -> Seq(ResultType)]
    BY <1>4, <2>2 DEF Take, Typed
  <2> DEFINE m == Head(toCore[k])
             new == [pc |-> IF row[m.call] \in Final THEN "tell" ELSE "store",
                     call |-> m.call, status |-> m.status]
  <2>4. new \in LoopType
    BY <2>2 DEF LoopType, LoopPcs, ResultType
  <2>5. loop' = loop \/ loop' = [loop EXCEPT ![k] = new]
    BY <1>4 DEF Take
  <2> HIDE DEF new
  <2>6. loop' \in [Connections -> LoopType]
    BY <2>4, <2>5 DEF Typed
  <2> QED BY <1>4, <2>3, <2>6 DEF Take, Typed, broker, agent
<1>5. CASE Store(k)
  <2>1. loop' \in [Connections -> LoopType]
    BY <1>5, Entering DEF Store, LoopPcs
  <2>2. loop[k].call \in Calls /\ loop[k].status \in Final
    BY <1>5 DEF Store, Carried
  <2>3. row' \in [Calls -> Statuses]
    BY <1>5, <2>2 DEF Store, Typed
  <2> QED BY <1>5, <2>1, <2>3 DEF Store, Typed, agent, wire
<1>6. CASE Tell(k)
  <2>1. [NoLoop EXCEPT !.pc = "receive"] \in LoopType
    BY DEF NoLoop, LoopType, LoopPcs
  <2>2. loop' \in [Connections -> LoopType]
    BY <1>6, <2>1 DEF Tell, Typed
  <2>3. loop[k].call \in Calls
    BY <1>6 DEF Tell, Carried
  <2>4. future' \in [Calls -> {"none", "pending", "set"}]
    BY <1>6, <2>3 DEF Tell, Typed, Resolved
  <2> QED BY <1>6, <2>2, <2>4 DEF Tell, Typed, agent, wire
<1>7. CASE RefuseHeartbeat(k) \/ LoopEnds(k)
  <2>1. loop' \in [Connections -> LoopType]
    BY <1>7, Entering DEF RefuseHeartbeat, LoopEnds, LoopPcs
  <2> QED BY <1>7, <2>1 DEF RefuseHeartbeat, LoopEnds, Typed, broker, agent, wire
<1>8. CASE Unregister(k)
  <2>1. loop' \in [Connections -> LoopType]
    BY <1>8, Entering DEF Unregister, LoopPcs
  <2>2. toCore' \in [Connections -> Seq(ResultType)]
    BY <1>8 DEF Unregister, Typed
  <2> QED BY <1>8, <2>1, <2>2 DEF Unregister, Typed, broker, agent
<1> QED BY <1>1, <1>2, <1>3, <1>4, <1>5, <1>6, <1>7, <1>8 DEF LoopStep

\* The next message for the Agent.
LEMMA Taking ==
    ASSUME DeviceInv, NEW kind \in Kinds, AgentTakes(kind)
    PROVE  /\ toAgent' \in Seq(MessageType)
           /\ at # Nowhere
           /\ kind \in {"request", "cancel"} => Head(toAgent).call \in Calls
<1>1. toAgent \in Seq(MessageType) /\ toAgent # <<>> /\ toAgent' = Tail(toAgent)
  BY DEF DeviceInv, Typed, AgentTakes
<1>2. Tail(toAgent) \in Seq(MessageType) /\ Head(toAgent) = toAgent[1]
      /\ 1 \in 1..Len(toAgent)
  BY <1>1, TailAt
<1>3. at # Nowhere /\ Head(toAgent).kind = kind
  BY DEF AgentTakes, Nowhere
<1> QED BY <1>1, <1>2, <1>3 DEF DeviceInv, Posted

LEMMA TypedAgent ==
    ASSUME DeviceInv,
           \/ AgentStep
           \/ \E c \in Calls : AgentStarts(c) \/ AgentFinishes(c)
    PROVE  Typed'
<1> USE Places, Messages DEF DeviceInv
<1>1. CASE AgentGreeted
  <2>1. toAgent \in Seq(MessageType) /\ toAgent # <<>>
    BY <1>1 DEF AgentGreeted, Typed
  <2>2. Tail(toAgent) \in Seq(MessageType) /\ <<>> \in Seq(MessageType)
    BY <2>1, TailAt
  <2>3. toAgent' \in Seq(MessageType)
    BY <1>1, <2>2 DEF AgentGreeted
  <2>4. at \in PlaceType
    BY DEF Typed
  <2>5. [at EXCEPT !.welcomed = TRUE] \in PlaceType /\ Nowhere \in PlaceType
    BY <2>4 DEF PlaceType, Nowhere
  <2>6. at' \in PlaceType
    BY <1>1, <2>5 DEF AgentGreeted
  <2> QED BY <1>1, <2>3, <2>6 DEF AgentGreeted, Typed, broker
<1>2. CASE AgentAccepts
  <2>1. toAgent' \in Seq(MessageType) /\ Head(toAgent).call \in Calls
    BY <1>2, Taking DEF AgentAccepts, Kinds
  <2>2. [pc |-> "accepted", on |-> at.on, end |-> "none"] \in JobType
    BY DEF Typed, PlaceType, JobType
  <2>3. job' \in [Calls -> JobType]
    BY <1>2, <2>2 DEF AgentAccepts, Typed
  <2> QED BY <1>2, <2>1, <2>3 DEF AgentAccepts, Typed, broker
<1>3. CASE AgentCancels
  <2> DEFINE c == Head(toAgent).call
  <2>1. toAgent' \in Seq(MessageType) /\ c \in Calls
    BY <1>3, Taking DEF AgentCancels, Kinds
  <2>2. job' \in [Calls -> JobType]
    <3>1. \/ job' = [job EXCEPT ![c].pc = "over", ![c].end = "cancelled"]
          \/ job' = job
      BY <1>3 DEF AgentCancels
    <3>2. "cancelled" \in {"none"} \cup Final
      BY DEF Final
    <3> HIDE DEF c
    <3> QED BY <3>1, <3>2, <2>1, Working DEF Typed
  <2>3. toCore' \in [Connections -> Seq(ResultType)]
    <3>1. Answer(c, "cancelled") \/ UNCHANGED toCore
      BY <1>3 DEF AgentCancels
    <3>2. "cancelled" \in Final
      BY DEF Final
    <3> HIDE DEF c
    <3> QED BY <3>1, <3>2, <2>1, Answering DEF Typed
  <2> QED BY <1>3, <2>1, <2>2, <2>3 DEF AgentCancels, Typed, broker
<1>4. CASE AgentLeaves
  <2>1. toAgent' \in Seq(MessageType)
    <3>1. AgentTakes("close") \/ toAgent' = <<>>
      BY <1>4 DEF AgentLeaves
    <3>2. "close" \in Kinds /\ <<>> \in Seq(MessageType)
      BY DEF Kinds
    <3>3. AgentTakes("close") => toAgent' \in Seq(MessageType)
      BY <3>2, Taking
    <3> QED BY <3>1, <3>2, <3>3
  <2>2. at' \in PlaceType
    BY <1>4 DEF AgentLeaves, PlaceType, Nowhere
  <2> QED BY <1>4, <2>1, <2>2 DEF AgentLeaves, Typed, broker
<1>5. ASSUME NEW c \in Calls, AgentStarts(c) PROVE Typed'
  <2>1. job[c].end \in {"none"} \cup Final
    BY DEF Typed, JobType
  <2>2. job' \in [Calls -> JobType]
    BY <1>5, <2>1, Working DEF AgentStarts
  <2> QED BY <1>5, <2>2 DEF AgentStarts, Typed, broker, wire
<1>6. ASSUME NEW c \in Calls, AgentFinishes(c) PROVE Typed'
  <2>0. PICK status \in Final :
            /\ job' = [job EXCEPT ![c].pc = "over", ![c].end = status]
            /\ Answer(c, status)
    BY <1>6 DEF AgentFinishes, Final
  <2>1. job' \in [Calls -> JobType]
    BY <2>0, Working
  <2>2. toCore' \in [Connections -> Seq(ResultType)]
    BY <2>0, Answering
  <2> QED BY <1>6, <2>1, <2>2 DEF AgentFinishes, Typed, broker
<1> QED BY <1>1, <1>2, <1>3, <1>4, <1>5, <1>6 DEF AgentStep

LEMMA TypedRest ==
    ASSUME DeviceInv,
           Revoke \/ Disconnect \/ Break \/ AgentRestart \/ CoreRestart
    PROVE  Typed'
<1> USE Places, Messages DEF DeviceInv
<1>1. CASE Revoke
  BY <1>1 DEF Revoke, Typed, broker, agent, wire
<1>2. CASE Disconnect
  <2>1. toAgent' \in Seq(MessageType)
    BY <1>2, Closes DEF Disconnect
  <2> QED BY <1>2, <2>1 DEF Disconnect, Typed, broker, agent
<1>3. CASE Break
  <2>1. toCore' \in [Connections -> Seq(ResultType)]
    BY <1>3, Cutting DEF Break
  <2> QED BY <1>3, <2>1 DEF Break, Typed, broker, PlaceType, Nowhere
<1>4. CASE AgentRestart
  <2>1. toCore' \in [Connections -> Seq(ResultType)]
    BY <1>4, Cutting DEF AgentRestart, Typed
  <2>2. \A c \in Calls : [job[c] EXCEPT !.pc = "over"] \in JobType
    BY DEF Typed, JobType
  <2>3. job' \in [Calls -> JobType]
    BY <1>4, <2>2 DEF AgentRestart, Typed
  <2> QED BY <1>4, <2>1, <2>3 DEF AgentRestart, Typed, broker, PlaceType, Nowhere
<1>5. CASE CoreRestart
  <2>1. \A c \in Calls : [execute[c] EXCEPT !.pc = "lost"] \in CallType
    BY DEF Typed, CallType
  <2>2. execute' \in [Calls -> CallType]
    BY <1>5, <2>1 DEF CoreRestart, Typed
  <2>3. NoLoop \in LoopType /\ [NoLoop EXCEPT !.pc = "closed"] \in LoopType
    BY DEF NoLoop, LoopType, LoopPcs
  <2>4. loop' \in [Connections -> LoopType]
    BY <1>5, <2>3 DEF CoreRestart
  <2>5. toCore' \in [Connections -> Seq(ResultType)]
    BY <1>5 DEF CoreRestart
  <2>6. /\ cancel' \in [Calls -> {"idle", "asked", "cancelling", "telling", "done"}]
        /\ future' \in [Calls -> {"none", "pending", "set"}]
    BY <1>5 DEF CoreRestart
  <2> QED BY <1>5, <2>2, <2>4, <2>5, <2>6 DEF CoreRestart, Typed, agent
<1> QED BY <1>1, <1>2, <1>3, <1>4, <1>5

LEMMA TypedStep ==
    ASSUME DeviceInv, [Next]_vars
    PROVE  Typed'
<1>1. CASE UNCHANGED vars
  BY <1>1 DEF DeviceInv, Typed, vars, broker, agent, wire
<1> QED BY <1>1, TypedCall, TypedLoop, TypedAgent, TypedRest DEF Next

-----------------------------------------------------------------------------
(* Who changes what.                                                       *)

LEMMA ExecuteFrame ==
    ASSUME [Next]_vars
    PROVE  UNCHANGED execute \/ CoreRestart \/ \E c \in Calls : CallStep(c)
<1> DEFINE Still == UNCHANGED execute
<1>1. ASSUME NEW c \in Calls, CancelStep(c) \/ CancelAsk(c)
      PROVE  Still
  BY <1>1 DEF broker, CancelStep, CancelLoad, CancelCommit, CancelTell, CancelAsk
<1>2. ASSUME NEW c \in Calls, AgentStarts(c) \/ AgentFinishes(c) PROVE Still
  BY <1>2 DEF broker, AgentStarts, AgentFinishes
<1>3. ASSUME NEW k \in Connections, Hello(k) \/ LoopStep(k)
      PROVE  Still
  BY <1>3 DEF broker, Hello, LoopStep, Register, Welcome, Take, Store, Tell,
              RefuseHeartbeat, LoopEnds, Unregister
<1>4. CASE AgentStep
  BY <1>4 DEF broker, AgentStep, AgentGreeted, AgentAccepts, AgentCancels,
              AgentLeaves
<1>5. CASE Revoke \/ Disconnect \/ Break \/ AgentRestart \/ UNCHANGED vars
  BY <1>5 DEF broker, Revoke, Disconnect, Break, AgentRestart, vars
<1> HIDE DEF Still
<1> QED BY <1>1, <1>2, <1>3, <1>4, <1>5 DEF Next, Still

LEMMA RowFrame ==
    ASSUME [Next]_vars
    PROVE  \/ UNCHANGED row
           \/ \E c \in Calls : \/ Insert(c) \/ MarkRunning(c) \/ CommitEnd(c)
                               \/ CancelCommit(c)
           \/ \E k \in Connections : Store(k)
<1> DEFINE Still == UNCHANGED row
<1>1. ASSUME NEW c \in Calls, CallStep(c) \/ CancelStep(c) \/ CancelAsk(c)
      PROVE  Still \/ Insert(c) \/ MarkRunning(c) \/ CommitEnd(c) \/ CancelCommit(c)
  BY <1>1 DEF broker, CallStep, Lookup, Await, SendRequest, Woken, Expire, LoadEnd,
              Return, CancelStep, CancelLoad, CancelTell, CancelAsk
<1>2. ASSUME NEW c \in Calls, AgentStarts(c) \/ AgentFinishes(c) PROVE Still
  BY <1>2 DEF broker, AgentStarts, AgentFinishes
<1>3. ASSUME NEW k \in Connections, Hello(k) \/ LoopStep(k)
      PROVE  Still \/ Store(k)
  BY <1>3 DEF broker, Hello, LoopStep, Register, Welcome, Take, Tell,
              RefuseHeartbeat, LoopEnds, Unregister
<1>4. CASE AgentStep
  BY <1>4 DEF broker, AgentStep, AgentGreeted, AgentAccepts, AgentCancels,
              AgentLeaves
<1>5. CASE Revoke \/ Disconnect \/ Break \/ AgentRestart \/ CoreRestart \/ UNCHANGED vars
  BY <1>5 DEF broker, Revoke, Disconnect, Break, AgentRestart, CoreRestart, vars
<1> HIDE DEF Still
<1> QED BY <1>1, <1>2, <1>3, <1>4, <1>5 DEF Next, Still

LEMMA CancelFrame ==
    ASSUME [Next]_vars
    PROVE  UNCHANGED cancel \/ CoreRestart
           \/ \E c \in Calls : CancelAsk(c) \/ CancelStep(c)
<1> DEFINE Still == UNCHANGED cancel
<1>1. ASSUME NEW c \in Calls, CallStep(c)
      PROVE  Still
  BY <1>1 DEF broker, CallStep, Lookup, Insert, Await, SendRequest, MarkRunning,
              Woken, Expire, LoadEnd, CommitEnd, Return
<1>2. ASSUME NEW c \in Calls, AgentStarts(c) \/ AgentFinishes(c) PROVE Still
  BY <1>2 DEF broker, AgentStarts, AgentFinishes
<1>3. ASSUME NEW k \in Connections, Hello(k) \/ LoopStep(k)
      PROVE  Still
  BY <1>3 DEF broker, Hello, LoopStep, Register, Welcome, Take, Store, Tell,
              RefuseHeartbeat, LoopEnds, Unregister
<1>4. CASE AgentStep
  BY <1>4 DEF broker, AgentStep, AgentGreeted, AgentAccepts, AgentCancels,
              AgentLeaves
<1>5. CASE Revoke \/ Disconnect \/ Break \/ AgentRestart \/ UNCHANGED vars
  BY <1>5 DEF broker, Revoke, Disconnect, Break, AgentRestart, vars
<1> HIDE DEF Still
<1> QED BY <1>1, <1>2, <1>3, <1>4, <1>5 DEF Next, Still

LEMMA FutureFrame ==
    ASSUME [Next]_vars
    PROVE  \/ UNCHANGED future \/ CoreRestart
           \/ \E c \in Calls : Await(c) \/ Return(c) \/ CancelTell(c)
           \/ \E k \in Connections : Tell(k)
<1> DEFINE Still == UNCHANGED future
<1>1. ASSUME NEW c \in Calls, CallStep(c) \/ CancelStep(c) \/ CancelAsk(c)
      PROVE  Still \/ Await(c) \/ Return(c) \/ CancelTell(c)
  BY <1>1 DEF broker, CallStep, Lookup, Insert, SendRequest, MarkRunning, Woken,
              Expire, LoadEnd, CommitEnd, CancelStep, CancelLoad,
              CancelCommit, CancelAsk
<1>2. ASSUME NEW c \in Calls, AgentStarts(c) \/ AgentFinishes(c) PROVE Still
  BY <1>2 DEF broker, AgentStarts, AgentFinishes
<1>3. ASSUME NEW k \in Connections, Hello(k) \/ LoopStep(k)
      PROVE  Still \/ Tell(k)
  BY <1>3 DEF broker, Hello, LoopStep, Register, Welcome, Take, Store,
              RefuseHeartbeat, LoopEnds, Unregister
<1>4. CASE AgentStep
  BY <1>4 DEF broker, AgentStep, AgentGreeted, AgentAccepts, AgentCancels,
              AgentLeaves
<1>5. CASE Revoke \/ Disconnect \/ Break \/ AgentRestart \/ UNCHANGED vars
  BY <1>5 DEF broker, Revoke, Disconnect, Break, AgentRestart, vars
<1> HIDE DEF Still
<1> QED BY <1>1, <1>2, <1>3, <1>4, <1>5 DEF Next, Still

LEMMA JobFrame ==
    ASSUME [Next]_vars
    PROVE  \/ UNCHANGED job \/ AgentAccepts \/ AgentCancels \/ AgentRestart
           \/ \E c \in Calls : AgentStarts(c) \/ AgentFinishes(c)
<1> DEFINE Still == UNCHANGED job
<1>1. ASSUME NEW c \in Calls, CallStep(c) \/ CancelStep(c) \/ CancelAsk(c)
      PROVE  Still
  BY <1>1 DEF agent, CallStep, Lookup, Insert, Await, SendRequest, MarkRunning,
              Woken, Expire, LoadEnd, CommitEnd, Return, CancelStep,
              CancelLoad, CancelCommit, CancelTell, CancelAsk
<1>2. ASSUME NEW k \in Connections, Hello(k) \/ LoopStep(k)
      PROVE  Still
  BY <1>2 DEF agent, Hello, LoopStep, Register, Welcome, Take, Store, Tell,
              RefuseHeartbeat, LoopEnds, Unregister
<1>3. CASE AgentStep /\ ~AgentAccepts /\ ~AgentCancels
  BY <1>3 DEF agent, AgentStep, AgentGreeted, AgentLeaves
<1>4. CASE Revoke \/ Disconnect \/ Break \/ CoreRestart \/ UNCHANGED vars
  BY <1>4 DEF agent, Revoke, Disconnect, Break, CoreRestart, vars
<1> HIDE DEF Still
<1> QED BY <1>1, <1>2, <1>3, <1>4 DEF Next, Still

\* Who touches the connection of the Agent, or what travels on it.
LEMMA WireFrame ==
    ASSUME [Next]_vars
    PROVE  \/ UNCHANGED <<at, toAgent>>
           \/ \E c \in Calls : SendRequest(c) \/ Expire(c) \/ CancelAsk(c)
           \/ \E k \in Connections : Hello(k) \/ Register(k) \/ Welcome(k)
           \/ Disconnect \/ AgentStep \/ Break \/ AgentRestart
<1> DEFINE Still == UNCHANGED <<at, toAgent>>
<1>1. ASSUME NEW c \in Calls, CallStep(c) \/ CancelStep(c)
      PROVE  Still \/ SendRequest(c) \/ Expire(c)
  BY <1>1 DEF agent, wire, CallStep, Lookup, Insert, Await, MarkRunning, Woken, LoadEnd,
              CommitEnd, Return, CancelStep, CancelLoad, CancelCommit,
              CancelTell
<1>2. ASSUME NEW c \in Calls, AgentStarts(c) \/ AgentFinishes(c) PROVE Still
  BY <1>2 DEF agent, wire, AgentStarts, AgentFinishes
<1>3. ASSUME NEW k \in Connections, LoopStep(k)
      PROVE  Still \/ Register(k) \/ Welcome(k)
  BY <1>3 DEF agent, wire, LoopStep, Take, Store, Tell, RefuseHeartbeat, LoopEnds,
              Unregister
<1>4. CASE Revoke \/ CoreRestart \/ UNCHANGED vars
  BY <1>4 DEF agent, wire, Revoke, CoreRestart, vars
<1> HIDE DEF Still
<1> QED BY <1>1, <1>2, <1>3, <1>4 DEF Next, Still

LEMMA ResultFrame ==
    ASSUME [Next]_vars
    PROVE  \/ UNCHANGED toCore \/ AgentCancels \/ Break \/ AgentRestart
           \/ CoreRestart
           \/ \E c \in Calls : AgentFinishes(c)
           \/ \E k \in Connections : Take(k) \/ Unregister(k)
<1> DEFINE Still == UNCHANGED toCore
<1>1. ASSUME NEW c \in Calls, CallStep(c) \/ CancelStep(c) \/ CancelAsk(c)
      PROVE  Still
  BY <1>1 DEF wire, CallStep, Lookup, Insert, Await, SendRequest, MarkRunning,
              Woken, Expire, LoadEnd, CommitEnd, Return, CancelStep,
              CancelLoad, CancelCommit, CancelTell, CancelAsk
<1>2. ASSUME NEW c \in Calls, AgentStarts(c) PROVE Still
  BY <1>2 DEF wire, AgentStarts
<1>3. ASSUME NEW k \in Connections, Hello(k) \/ LoopStep(k)
      PROVE  Still \/ Take(k) \/ Unregister(k)
  BY <1>3 DEF wire, Hello, LoopStep, Register, Welcome, Store, Tell,
              RefuseHeartbeat, LoopEnds
<1>4. CASE AgentStep /\ ~AgentCancels
  BY <1>4 DEF wire, AgentStep, AgentGreeted, AgentAccepts, AgentLeaves
<1>5. CASE Revoke \/ Disconnect \/ UNCHANGED vars
  BY <1>5 DEF wire, Revoke, Disconnect, vars
<1> HIDE DEF Still
<1> QED BY <1>1, <1>2, <1>3, <1>4, <1>5 DEF Next, Still

LEMMA LoopFrame ==
    ASSUME [Next]_vars
    PROVE  \/ UNCHANGED loop \/ CoreRestart
           \/ \E k \in Connections : Hello(k) \/ LoopStep(k)
<1> DEFINE Still == UNCHANGED loop
<1>1. ASSUME NEW c \in Calls, CallStep(c) \/ CancelStep(c) \/ CancelAsk(c)
      PROVE  Still
  BY <1>1 DEF CallStep, Lookup, Insert, Await, SendRequest, MarkRunning,
              Woken, Expire, LoadEnd, CommitEnd, Return, CancelStep,
              CancelLoad, CancelCommit, CancelTell, CancelAsk
<1>2. ASSUME NEW c \in Calls, AgentStarts(c) \/ AgentFinishes(c) PROVE Still
  BY <1>2 DEF AgentStarts, AgentFinishes
<1>3. CASE AgentStep
  BY <1>3 DEF AgentStep, AgentGreeted, AgentAccepts, AgentCancels,
              AgentLeaves
<1>4. CASE Revoke \/ Disconnect \/ Break \/ AgentRestart \/ UNCHANGED vars
  BY <1>4 DEF Revoke, Disconnect, Break, AgentRestart, vars
<1> HIDE DEF Still
<1> QED BY <1>1, <1>2, <1>3, <1>4 DEF Next, Still

LEMMA LinkFrame ==
    ASSUME [Next]_vars
    PROVE  \/ UNCHANGED <<link, device>> \/ CoreRestart \/ Disconnect \/ Revoke
           \/ \E c \in Calls : SendRequest(c) \/ Expire(c) \/ CancelAsk(c)
           \/ \E k \in Connections : Register(k) \/ Welcome(k) \/ Unregister(k)
<1> DEFINE Still == UNCHANGED <<link, device>>
<1>1. ASSUME NEW c \in Calls, CallStep(c) \/ CancelStep(c)
      PROVE  Still \/ SendRequest(c) \/ Expire(c)
  BY <1>1 DEF CallStep, Lookup, Insert, Await, MarkRunning, Woken, LoadEnd,
              CommitEnd, Return, CancelStep, CancelLoad, CancelCommit,
              CancelTell
<1>2. ASSUME NEW c \in Calls, AgentStarts(c) \/ AgentFinishes(c) PROVE Still
  BY <1>2 DEF AgentStarts, AgentFinishes
<1>3. ASSUME NEW k \in Connections, Hello(k) \/ LoopStep(k)
      PROVE  Still \/ Register(k) \/ Welcome(k) \/ Unregister(k)
  BY <1>3 DEF Hello, LoopStep, Take, Store, Tell, RefuseHeartbeat, LoopEnds
<1>4. CASE AgentStep
  BY <1>4 DEF AgentStep, AgentGreeted, AgentAccepts, AgentCancels,
              AgentLeaves
<1>5. CASE Break \/ AgentRestart \/ UNCHANGED vars
  BY <1>5 DEF Break, AgentRestart, vars
<1> HIDE DEF Still
<1> QED BY <1>1, <1>2, <1>3, <1>4, <1>5 DEF Next, Still

\* What one step may do to a call.
Moved(c) ==
    LET pc == execute[c].pc  next == execute'[c].pc
    IN  \/ execute'[c] = execute[c]
        \/ /\ execute'[c].late = execute[c].late
           /\ \/ pc = "idle" /\ next \in {"returned", "checked", "refused"}
              \/ pc = "checked" /\ next = "inserted" /\ row'[c] = "pending"
              \/ pc = "checked" /\ next = "raised"
              \/ pc = "inserted" /\ next = "awaiting"
              \/ pc = "awaiting" /\ next \in {"sent", "unsent"}
              \/ pc = "sent" /\ next = "waiting"
              \/ pc = "waiting" /\ next = "ending"
              \/ pc \in {"unsent", "expired"} /\ next = "ending"
              \/ pc \in {"unsent", "expired"} /\ next = "expiring" /\ execute[c].late
              \/ pc = "unsent" /\ next = "failing"
              \/ pc \in {"expiring", "failing"} /\ next = "ending"
              \/ pc = "ending" /\ next = "returned" /\ future'[c] = "none"
              \/ pc \notin Returned /\ next = "lost"
        \/ pc = "waiting" /\ next = "expired" /\ execute'[c].late

LEMMA CallMoves ==
    ASSUME DeviceInv, [Next]_vars, NEW c \in Calls
    PROVE  Moved(c)
<1> USE Places DEF DeviceInv
<1>1. ASSUME NEW d \in Calls, CallStep(d) PROVE Moved(c)
  <2>1. CASE Lookup(d)
    <3>1. /\ execute[d].pc = "idle"
          /\ \/ \E x \in SameKey(d) :
                    execute' = [execute EXCEPT ![d].pc = "returned", ![d].saw = row[x]]
             \/ Step(d, "checked") \/ Step(d, "refused")
      BY <2>1 DEF Lookup
    <3>2. ASSUME NEW x \in SameKey(d),
                 execute' = [execute EXCEPT ![d].pc = "returned", ![d].saw = row[x]]
          PROVE  Moved(c)
      <4>1. x \in Calls
        BY ConstantsAssumption DEF SameKey, Typed
      <4>2. row[x] \in Statuses
        BY <4>1 DEF Typed
      <4> QED BY <3>1, <3>2, <4>2, Returning DEF Moved
    <3>3. CASE Step(d, "checked") \/ Step(d, "refused")
      BY <3>1, <3>3, Moving DEF Moved
    <3> QED BY <3>1, <3>2, <3>3
  <2>2. CASE Insert(d)
    <3>1. execute[d].pc = "checked" /\ (\/ Step(d, "raised")
                                        \/ Step(d, "inserted") /\ row' = [row EXCEPT ![d] = "pending"])
      BY <2>2 DEF Insert
    <3>2. row \in [Calls -> Statuses]
      BY DEF Typed
    <3> QED BY <3>1, <3>2, Moving DEF Moved
  <2>3. CASE Await(d) \/ MarkRunning(d) \/ Woken(d)
    BY <2>3, Moving DEF Await, MarkRunning, Woken, Moved
  <2>4. CASE SendRequest(d)
    <3>1. execute[d].pc = "awaiting" /\ (Step(d, "sent") \/ Step(d, "unsent"))
      BY <2>4 DEF SendRequest
    <3> QED BY <3>1, Moving DEF Moved
  <2>5. CASE Expire(d)
    <3>1. execute[d].pc = "waiting"
      BY <2>5 DEF Expire
    <3> QED BY <2>5, <3>1, Expiring DEF Moved
  <2>6. CASE LoadEnd(d)
    <3>1. /\ execute[d].pc \in {"unsent", "expired"}
          /\ \/ Step(d, "ending")
             \/ Step(d, "expiring") /\ execute[d].late
             \/ Step(d, "failing") /\ ~execute[d].late
      BY <2>6 DEF LoadEnd
    <3>2. execute[d].pc = "expired" => execute[d].late
      BY DEF Worked
    <3> QED BY <3>1, <3>2, Moving DEF Moved
  <2>7. CASE CommitEnd(d)
    BY <2>7, Moving DEF CommitEnd, Moved
  <2>8. CASE Return(d)
    <3>1. /\ execute[d].pc = "ending" /\ future' = [future EXCEPT ![d] = "none"]
          /\ execute' = [execute EXCEPT ![d].pc = "returned", ![d].saw = row[d]]
          /\ row[d] \in Statuses /\ future \in [Calls -> {"none", "pending", "set"}]
      BY <2>8 DEF Return, Typed
    <3> QED BY <3>1, Returning DEF Moved
  <2> QED BY <1>1, <2>1, <2>2, <2>3, <2>4, <2>5, <2>6, <2>7, <2>8 DEF CallStep
<1>2. CASE CoreRestart
  <2>1. \/ execute'[c] = execute[c]
        \/ execute[c].pc \notin Returned /\ execute'[c] = [execute[c] EXCEPT !.pc = "lost"]
    BY <1>2 DEF CoreRestart
  <2>2. execute[c] \in CallType
    BY DEF Typed
  <2> QED BY <2>1, <2>2 DEF Moved, CallType
<1> QED BY <1>1, <1>2, ExecuteFrame DEF Moved

\* What one step may do to a row.
Written(c) ==
    \/ row'[c] = row[c]
    \/ execute[c].pc = "checked" /\ execute'[c].pc = "inserted"
       /\ row'[c] = "pending" /\ SameKey(c) = {}
    \/ execute[c].pc = "sent" /\ row'[c] = "running"
    \/ execute[c].pc \in {"expiring", "failing"} /\ execute'[c].pc = "ending"
       /\ row'[c] = IF execute[c].late THEN "timed_out" ELSE "failed"
    \/ cancel[c] = "cancelling" /\ row'[c] = "cancelled"
    \/ row'[c] = job[c].end /\ job[c].end \in Final

\* The calls that a step creates a row for: one at most.
Inserts(c) == execute[c].pc = "checked" /\ execute'[c].pc = "inserted"

LEMMA RowMoves ==
    ASSUME DeviceInv, [Next]_vars
    PROVE  \A c \in Calls :
                /\ Written(c)
                /\ Inserts(c) /\ row'[c] # row[c] =>
                        \A d \in Calls \ {c} : row'[d] = row[d]
<1> USE Places DEF DeviceInv
<1>0. row \in [Calls -> Statuses]
  BY DEF Typed
<1>1. ASSUME NEW d \in Calls, Insert(d)
      PROVE  \A c \in Calls : /\ Written(c)
                              /\ Inserts(c) /\ row'[c] # row[c] =>
                                    \A e \in Calls \ {c} : row'[e] = row[e]
  <2>1. CASE UNCHANGED row
    BY <2>1 DEF Written
  <2>2. CASE row' # row
    <3>1. /\ execute[d].pc = "checked" /\ SameKey(d) = {} /\ Step(d, "inserted")
          /\ row' = [row EXCEPT ![d] = "pending"]
      BY <1>1, <2>2 DEF Insert
    <3>2. execute'[d].pc = "inserted"
      BY <3>1, Moving
    <3> QED BY <1>0, <3>1, <3>2 DEF Written
  <2> QED BY <2>1, <2>2
<1>2. ASSUME NEW d \in Calls, MarkRunning(d) \/ CommitEnd(d) \/ CancelCommit(d)
      PROVE  /\ \A c \in Calls : Written(c)
             /\ \A c \in Calls : Inserts(c) => row'[c] = row[c]
  <2>1. CASE MarkRunning(d)
    <3>1. /\ execute[d].pc = "sent" /\ Step(d, "waiting")
          /\ row' = [row EXCEPT ![d] = "running"]
      BY <2>1 DEF MarkRunning
    <3> QED BY <1>0, <3>1, Moving DEF Written, Inserts
  <2>2. CASE CommitEnd(d)
    <3>1. /\ execute[d].pc \in {"expiring", "failing"} /\ Step(d, "ending")
          /\ row' = [row EXCEPT ![d] = IF execute[d].late THEN "timed_out"
                                       ELSE "failed"]
      BY <2>2 DEF CommitEnd
    <3> QED BY <1>0, <3>1, Moving DEF Written, Inserts
  <2>3. CASE CancelCommit(d)
    BY <1>0, <2>3 DEF CancelCommit, Written, Inserts
  <2> QED BY <1>2, <2>1, <2>2, <2>3
<1>3. ASSUME NEW k \in Connections, Store(k)
      PROVE  /\ \A c \in Calls : Written(c)
             /\ \A c \in Calls : Inserts(c) => row'[c] = row[c]
  <2>1. /\ row' = [row EXCEPT ![loop[k].call] = loop[k].status]
        /\ UNCHANGED execute
        /\ loop[k].call \in Calls /\ loop[k].status \in Final
        /\ job[loop[k].call].end = loop[k].status
    BY <1>3 DEF Store, Carried
  <2> QED BY <1>0, <2>1 DEF Written, Inserts
<1>4. CASE UNCHANGED row
  BY <1>4 DEF Written
<1> QED BY <1>1, <1>2, <1>3, <1>4, RowFrame

LEMMA CancelMoves ==
    ASSUME DeviceInv, [Next]_vars, NEW c \in Calls
    PROVE  /\ cancel[c] # "idle" => cancel'[c] # "idle"
           /\ cancel'[c] # "idle" => cancel[c] # "idle" \/ row[c] # "none"
<1>0. cancel \in [Calls -> {"idle", "asked", "cancelling", "telling", "done"}]
  BY DEF DeviceInv, Typed
<1>1. ASSUME NEW d \in Calls, CancelAsk(d) \/ CancelStep(d)
      PROVE  /\ cancel[c] # "idle" => cancel'[c] # "idle"
             /\ cancel'[c] # "idle" => cancel[c] # "idle" \/ row[c] # "none"
  BY <1>0, <1>1 DEF CancelAsk, CancelStep, CancelLoad, CancelCommit, CancelTell
<1>2. CASE CoreRestart
  BY <1>2 DEF CoreRestart
<1> QED BY <1>1, <1>2, CancelFrame

\* What nobody takes back: a row, a wish that a request ends, a request sent.
LEMMA Onward ==
    ASSUME DeviceInv, [Next]_vars, NEW c \in Calls
    PROVE  /\ row[c] # "none" => row'[c] # "none"
           /\ Unwanted(c) => Unwanted(c)'
           /\ execute[c].pc \notin Before => execute'[c].pc \notin Before
<1>1. Written(c) /\ Moved(c)
  BY RowMoves, CallMoves
<1> QED BY <1>1, CancelMoves DEF Written, Moved, Unwanted, Before, Final, Returned

LEMMA FutureMoves ==
    ASSUME DeviceInv, [Next]_vars, NEW c \in Calls
    PROVE  future[c] = "none" => \/ future'[c] = "none"
                                 \/ execute'[c].pc = "awaiting"
<1>0. future \in [Calls -> {"none", "pending", "set"}]
  BY DEF DeviceInv, Typed
<1>1. ASSUME NEW d \in Calls, Await(d) \/ Return(d) \/ CancelTell(d)
      PROVE  future[c] = "none" => \/ future'[c] = "none"
                                   \/ execute'[c].pc = "awaiting"
  <2>1. CASE Await(d)
    BY <1>0, <2>1, Moving, Places DEF Await, DeviceInv
  <2>2. CASE Return(d) \/ CancelTell(d)
    BY <1>0, <2>2 DEF Return, CancelTell, Resolved
  <2> QED BY <1>1, <2>1, <2>2
<1>2. ASSUME NEW k \in Connections, Tell(k)
      PROVE  future[c] = "none" => future'[c] = "none"
  BY <1>0, <1>2 DEF Tell, Resolved
<1>3. CASE CoreRestart
  BY <1>3 DEF CoreRestart
<1> QED BY <1>1, <1>2, <1>3, FutureFrame

\* What one step may do to a job.
Proceeds(c) ==
    \/ job'[c] = job[c]
    \/ /\ job[c].pc = "none" /\ job'[c].pc = "accepted" /\ job'[c].end = "none"
       /\ toAgent # <<>> /\ Head(toAgent) = Message("request", c)
       /\ toAgent' = Tail(toAgent)
    \/ /\ job[c].pc \in {"accepted", "running"} /\ job'[c].pc \in {"running", "over"}
       /\ job'[c].end = job[c].end
    \/ /\ job[c].pc \in {"accepted", "running"} /\ job'[c].pc = "over"
       /\ \/ job'[c].end \in {"completed", "failed"}
          \/ job'[c].end = "cancelled" /\ Unwanted(c)

LEMMA JobMoves ==
    ASSUME DeviceInv, [Next]_vars, NEW c \in Calls
    PROVE  Proceeds(c)
<1> USE DEF DeviceInv
<1>0. job \in [Calls -> JobType] /\ toAgent \in Seq(MessageType)
  BY DEF Typed
<1>1. CASE AgentAccepts
  <2> DEFINE h == Head(toAgent)
  <2>1. /\ toAgent # <<>> /\ h.kind = "request" /\ toAgent' = Tail(toAgent)
        /\ job' = [job EXCEPT ![h.call] = [pc |-> "accepted", on |-> at.on,
                                           end |-> "none"]]
    BY <1>1 DEF AgentAccepts, AgentTakes
  <2>2. h \in MessageType /\ h = toAgent[1] /\ 1 \in 1..Len(toAgent)
    BY <1>0, <2>1, TailAt
  <2>3. h.call \in Calls /\ job[h.call].pc = "none"
    BY <2>1, <2>2 DEF Posted
  <2>4. h = Message("request", h.call)
    BY <2>1, <2>2 DEF MessageType, Message
  <2> HIDE DEF h
  <2>5. CASE c = h.call
    BY <1>0, <2>1, <2>3, <2>4, <2>5 DEF Proceeds, h
  <2>6. CASE c # h.call
    BY <1>0, <2>1, <2>6 DEF Proceeds
  <2> QED BY <2>5, <2>6
<1>2. CASE AgentCancels
  <2> DEFINE h == Head(toAgent)
  <2>1. /\ toAgent # <<>> /\ h.kind = "cancel"
        /\ \/ job' = job
           \/ /\ job[h.call].pc \in {"accepted", "running"}
              /\ job' = [job EXCEPT ![h.call].pc = "over", ![h.call].end = "cancelled"]
    BY <1>2 DEF AgentCancels, AgentTakes
  <2>2. h \in MessageType /\ h = toAgent[1] /\ 1 \in 1..Len(toAgent)
    BY <1>0, <2>1, TailAt
  <2>3. h.call \in Calls /\ Unwanted(h.call)
    BY <2>1, <2>2 DEF Posted
  <2>4. "cancelled" \in {"none"} \cup Final
    BY DEF Final
  <2> HIDE DEF h
  <2>5. CASE job' = job
    BY <2>5 DEF Proceeds
  <2>6. CASE job' # job
    <3>1. /\ job'[h.call].pc = "over" /\ job'[h.call].end = "cancelled"
          /\ \A d \in Calls \ {h.call} : job'[d] = job[d]
      BY <2>1, <2>3, <2>4, <2>6, Working
    <3> QED BY <2>1, <2>3, <2>6, <3>1 DEF Proceeds
  <2> QED BY <2>5, <2>6
<1>3. CASE AgentRestart
  <2>1. \/ job'[c] = job[c]
        \/ job[c].pc \in {"accepted", "running"} /\ job'[c] = [job[c] EXCEPT !.pc = "over"]
    BY <1>3 DEF AgentRestart
  <2>2. job[c] \in JobType
    BY <1>0
  <2> QED BY <2>1, <2>2 DEF Proceeds, JobType
<1>4. ASSUME NEW d \in Calls, AgentStarts(d) PROVE Proceeds(c)
  <2>1. job[d].end \in {"none"} \cup Final /\ job[d].pc = "accepted"
    BY <1>0, <1>4 DEF JobType, AgentStarts
  <2>2. /\ job'[d].pc = "running" /\ job'[d].end = job[d].end
        /\ \A e \in Calls \ {d} : job'[e] = job[e]
    BY <1>4, <2>1, Working DEF AgentStarts
  <2> QED BY <2>1, <2>2 DEF Proceeds
<1>5. ASSUME NEW d \in Calls, AgentFinishes(d) PROVE Proceeds(c)
  <2>1. PICK status \in {"completed", "failed"} :
            job' = [job EXCEPT ![d].pc = "over", ![d].end = status]
    BY <1>5 DEF AgentFinishes
  <2>2. status \in {"none"} \cup Final
    BY DEF Final
  <2>3. /\ job'[d].pc = "over" /\ job'[d].end = status
        /\ \A e \in Calls \ {d} : job'[e] = job[e]
    BY <2>1, <2>2, Working
  <2> QED BY <1>5, <2>3 DEF Proceeds, AgentFinishes
<1> QED BY <1>1, <1>2, <1>3, <1>4, <1>5, JobFrame DEF Proceeds

\* What one step may do to what travels to the Agent.
Sent(m) ==
    /\ m \in MessageType /\ toAgent' = Append(toAgent, m)
    /\ at' = at /\ link = at.on /\ link # NoConnection
    /\ m.kind = "request" => /\ m.call \in Calls /\ execute[m.call].pc = "awaiting"
                             /\ execute'[m.call].pc = "sent"
    /\ m.kind = "cancel" => m.call \in Calls /\ Unwanted(m.call)'

Received ==
    /\ at # Nowhere /\ toAgent # <<>> /\ toAgent' = Tail(toAgent)
    /\ at'.on = at.on \/ (Head(toAgent).kind = "close" /\ at' = Nowhere)

LEMMA MailMoves ==
    ASSUME DeviceInv, [Next]_vars
    PROVE  \/ toAgent' = toAgent /\ (at' = at \/ at = Nowhere)
           \/ \E m \in MessageType : Sent(m)
           \/ Received
           \/ toAgent' = <<>>
<1> USE Messages, Places DEF DeviceInv
<1>1. ASSUME NEW c \in Calls, SendRequest(c) PROVE
            UNCHANGED <<toAgent, at>> \/ Sent(Message("request", c))
  <2>1. PICK sent \in BOOLEAN : /\ Send(Message("request", c), sent)
                                /\ Step(c, IF sent THEN "sent" ELSE "unsent")
    BY <1>1 DEF SendRequest
  <2>2. execute[c].pc = "awaiting" /\ at' = at
    BY <1>1 DEF SendRequest, agent
  <2>3. sent => execute'[c].pc = "sent"
    BY <2>1, Moving
  <2>4. Message("request", c).kind = "request" /\ Message("request", c).call = c
    BY DEF Message
  <2> QED BY <2>1, <2>2, <2>3, <2>4, Sending DEF Sent
<1>2. ASSUME NEW c \in Calls, Expire(c) \/ CancelAsk(c) PROVE
            UNCHANGED <<toAgent, at>> \/ Sent(Message("cancel", c))
  <2>1. PICK sent \in BOOLEAN : Send(Message("cancel", c), sent)
    BY <1>2 DEF Expire, CancelAsk
  <2>2. at' = at
    BY <1>2 DEF Expire, CancelAsk, agent
  <2>3. Unwanted(c)'
    BY <1>2, Expiring DEF Expire, CancelAsk, Unwanted, Typed
  <2>4. Message("cancel", c).kind = "cancel" /\ Message("cancel", c).call = c
    BY DEF Message
  <2> QED BY <2>1, <2>2, <2>3, <2>4, Sending DEF Sent
<1>3. ASSUME NEW k \in Connections, Welcome(k) PROVE
            UNCHANGED <<toAgent, at>> \/ Sent(Message("welcome", NoRequest))
  <2>1. PICK sent \in BOOLEAN : Send(Message("welcome", NoRequest), sent)
    BY <1>3 DEF Welcome
  <2>2. at' = at
    BY <1>3 DEF Welcome, agent
  <2>3. Message("welcome", NoRequest).kind = "welcome"
    BY DEF Message
  <2> QED BY <2>1, <2>2, <2>3, Sending DEF Sent
<1>4. ASSUME NEW k \in Connections, Register(k) PROVE
            UNCHANGED <<toAgent, at>> \/ Sent(Message("close", NoRequest))
  <2>1. Close(link) /\ at' = at
    BY <1>4 DEF Register, agent
  <2>2. Message("close", NoRequest).kind = "close"
    BY DEF Message
  <2> QED BY <2>1, <2>2, Closes DEF Sent
<1>5. CASE Disconnect
  <2>1. Close(link) /\ at' = at
    BY <1>5 DEF Disconnect, agent
  <2>2. Message("close", NoRequest).kind = "close"
    BY DEF Message
  <2> QED BY <2>1, <2>2, Closes DEF Sent
<1>6. ASSUME NEW k \in Connections, Hello(k) PROVE at = Nowhere /\ toAgent' = toAgent
  BY <1>6 DEF Hello, wire
<1>7. CASE AgentStep
  <2>1. CASE AgentGreeted
    <3>1. at \in PlaceType
      BY DEF Typed
    <3> QED BY <2>1, <3>1 DEF AgentGreeted, Received, PlaceType
  <2>2. ASSUME NEW kind \in Kinds, AgentTakes(kind)
        PROVE  at # Nowhere /\ toAgent # <<>> /\ toAgent' = Tail(toAgent)
               /\ Head(toAgent).kind = kind
    BY <2>2, Taking DEF AgentTakes
  <2>3. CASE AgentAccepts \/ AgentCancels
    BY <2>2, <2>3 DEF AgentAccepts, AgentCancels, Received, Kinds
  <2>4. CASE AgentLeaves
    BY <2>2, <2>4 DEF AgentLeaves, Received, Kinds
  <2> QED BY <1>7, <2>1, <2>3, <2>4 DEF AgentStep
<1>8. CASE Break \/ AgentRestart
  BY <1>8 DEF Break, AgentRestart
<1> QED BY <1>1, <1>2, <1>3, <1>4, <1>5, <1>6, <1>7, <1>8, WireFrame

-----------------------------------------------------------------------------
(* The parts of the invariant, one after the other.                        *)

LEMMA PostedStep ==
    ASSUME DeviceInv, [Next]_vars
    PROVE  Posted'
<1> USE DEF DeviceInv
<1>0. /\ toAgent \in Seq(MessageType) /\ toAgent' \in Seq(MessageType)
      /\ at \in PlaceType
  BY TypedStep DEF Typed
<1> DEFINE Fine(m) ==
        /\ m.kind \in {"request", "cancel"} => m.call \in Calls
        /\ m.kind = "request" => /\ job[m.call].pc = "none"
                                 /\ execute[m.call].pc \notin Before
                                 /\ row[m.call] # "none"
        /\ m.kind = "cancel" => Unwanted(m.call)
       FineThen(m) ==
        /\ m.kind \in {"request", "cancel"} => m.call \in Calls
        /\ m.kind = "request" => /\ job'[m.call].pc = "none"
                                 /\ execute'[m.call].pc \notin Before
                                 /\ row'[m.call] # "none"
        /\ m.kind = "cancel" => \/ cancel'[m.call] # "idle"
                                \/ execute'[m.call].late
<1>1. at' = Nowhere => toAgent' = <<>>
  <2>1. CASE toAgent' = toAgent /\ (at' = at \/ at = Nowhere)
    BY <2>1 DEF Posted
  <2>2. CASE \E m \in MessageType : Sent(m)
    BY <2>2 DEF Sent, Nowhere
  <2>3. CASE Received
    <3>1. CASE at'.on = at.on
      BY <2>3, <3>1, Places DEF Received, Reached, Nowhere
    <3>2. CASE Head(toAgent).kind = "close"
      <4>1. 1 \in 1..Len(toAgent) /\ toAgent[1].kind = "close"
        BY <1>0, <2>3, <3>2, TailAt DEF Received
      <4>2. Len(toAgent) = 1
        BY <4>1 DEF Reached
      <4> QED BY <1>0, <2>3, <4>2, TailAt DEF Received
    <3> QED BY <2>3, <3>1, <3>2 DEF Received
  <2> QED BY <2>1, <2>2, <2>3, MailMoves
\* A message that stays under way stays as it should be.
<1>2. ASSUME NEW i \in 1..Len(toAgent), toAgent' = Tail(toAgent) => i # 1
      PROVE  FineThen(toAgent[i])
  <2>1. PICK m \in MessageType : m = toAgent[i] /\ Fine(m)
    BY <1>0 DEF Posted
  <2>2. CASE m.kind = "request"
    <3>1. m.call \in Calls
      BY <2>1, <2>2
    <3>2. ~(job'[m.call].pc # "none")
      <4> SUFFICES ASSUME job'[m.call].pc # "none" PROVE FALSE
        OBVIOUS
      <4>1. /\ toAgent # <<>> /\ toAgent[1] = Message("request", m.call)
            /\ toAgent' = Tail(toAgent) /\ 1 \in 1..Len(toAgent)
        <5>1. Proceeds(m.call) /\ job[m.call].pc = "none"
          BY <2>1, <2>2, <3>1, JobMoves
        <5>2. /\ toAgent # <<>> /\ Head(toAgent) = Message("request", m.call)
              /\ toAgent' = Tail(toAgent)
          BY <5>1 DEF Proceeds
        <5> QED BY <1>0, <5>2, TailAt
      <4>2. toAgent[1].kind = "request" /\ toAgent[1].call = m.call
        BY <4>1 DEF Message
      <4> QED BY <1>2, <2>1, <2>2, <4>1, <4>2 DEF Posted
    <3> QED BY <2>1, <2>2, <3>1, <3>2, Onward
  <2>3. CASE m.kind = "cancel"
    <3>1. m.call \in Calls /\ Unwanted(m.call)
      BY <2>1, <2>3
    <3>2. cancel'[m.call] # "idle" \/ execute'[m.call].late
      BY <3>1, Onward DEF Unwanted
    <3> QED BY <2>1, <2>3, <3>1, <3>2
  <2>4. CASE m.kind \notin {"request", "cancel"}
    BY <2>1, <2>4
  <2> QED BY <2>1, <2>2, <2>3, <2>4
<1>3. ASSUME NEW m \in MessageType, Sent(m) PROVE FineThen(m)
  <2>1. CASE m.kind = "request"
    <3>1. m.call \in Calls /\ execute[m.call].pc = "awaiting"
          /\ execute'[m.call].pc = "sent"
      BY <1>3, <2>1 DEF Sent
    <3>2. job[m.call].pc = "none" /\ row[m.call] # "none"
      BY <3>1 DEF Worked, Before, Posting
    <3>3. toAgent' = Append(toAgent, m)
      BY <1>3 DEF Sent
    <3>4. toAgent # <<>> => toAgent' # Tail(toAgent)
      BY <1>0, <3>3, TailAt, AppendAt
    <3>5. job'[m.call].pc = "none"
      BY <3>1, <3>2, <3>4, JobMoves DEF Proceeds
    <3> QED BY <2>1, <3>1, <3>2, <3>5, Onward DEF Before
  <2>2. CASE m.kind = "cancel"
    BY <1>3, <2>2 DEF Sent, Unwanted
  <2> QED BY <2>1, <2>2
<1>4. CASE toAgent' = toAgent
  <2>1. toAgent' = Tail(toAgent) => toAgent = <<>>
    BY <1>0, <1>4, TailAt
  <2>2. \A i \in 1..Len(toAgent) : FineThen(toAgent[i])
    BY <1>0, <1>2, <2>1
  <2> QED BY <1>1, <1>4, <2>2 DEF Posted, Unwanted
<1>5. ASSUME NEW m \in MessageType, Sent(m) PROVE Posted'
  <2>1. /\ toAgent' = Append(toAgent, m) /\ Len(toAgent) \in Nat
        /\ Len(toAgent') = Len(toAgent) + 1
        /\ \A i \in 1..Len(toAgent) : toAgent'[i] = toAgent[i]
        /\ toAgent'[Len(toAgent) + 1] = m
    BY <1>0, <1>5, AppendAt DEF Sent
  <2>2. toAgent' = Tail(toAgent) => toAgent = <<>>
    BY <1>0, <2>1, TailAt
  <2>3. \A i \in 1..Len(toAgent') : FineThen(toAgent'[i])
    BY <1>0, <1>2, <1>3, <1>5, <2>1, <2>2
  <2>4. ASSUME NEW i \in 1..Len(toAgent), toAgent[i].kind = "request",
               m.kind = "request"
        PROVE  toAgent[i].call # m.call
    BY <1>5, <2>4 DEF Posted, Sent, Before
  <2>5. \A i, j \in 1..Len(toAgent') :
            /\ toAgent'[i].kind = "request" /\ toAgent'[j].kind = "request"
            /\ toAgent'[i].call = toAgent'[j].call
            => i = j
    BY <2>1, <2>4 DEF Posted
  <2> QED BY <1>1, <2>3, <2>5 DEF Posted, Unwanted
<1>6. CASE Received
  <2>1. /\ Len(toAgent) \in Nat /\ Len(toAgent') = Len(toAgent) - 1
        /\ toAgent' = Tail(toAgent)
        /\ \A i \in 1..Len(toAgent') :
                i + 1 \in 1..Len(toAgent) /\ toAgent'[i] = toAgent[i + 1]
    BY <1>0, <1>6, TailAt DEF Received
  <2>2. \A i \in 1..Len(toAgent') : FineThen(toAgent'[i])
    BY <1>2, <2>1
  <2>3. \A i, j \in 1..Len(toAgent') :
            /\ toAgent'[i].kind = "request" /\ toAgent'[j].kind = "request"
            /\ toAgent'[i].call = toAgent'[j].call
            => i = j
    BY <2>1 DEF Posted
  <2> QED BY <1>1, <2>2, <2>3 DEF Posted, Unwanted
<1>7. CASE toAgent' = <<>>
  BY <1>7 DEF Posted
<1> QED BY <1>4, <1>5, <1>6, <1>7, MailMoves

LEMMA WorkedStep ==
    ASSUME DeviceInv, [Next]_vars
    PROVE  Worked'
<1> SUFFICES ASSUME NEW c \in Calls
             PROVE  /\ job'[c].pc # "none" => /\ row'[c] # "none"
                                              /\ execute'[c].pc \notin Before
                    /\ job'[c].pc # "over" => job'[c].end = "none"
                    /\ job'[c].end \in {"none", "completed", "failed", "cancelled"}
                    /\ job'[c].end = "cancelled" => Unwanted(c)'
                    /\ execute'[c].pc \in Posting => row'[c] # "none"
                    /\ cancel'[c] # "idle" => row'[c] # "none"
                    /\ execute'[c].pc \in {"expired", "expiring"} => execute'[c].late
  BY DEF Worked, Unwanted
<1> USE DEF DeviceInv
<1>1. /\ Proceeds(c) /\ Moved(c)
      /\ row[c] # "none" => row'[c] # "none"
      /\ Unwanted(c) => Unwanted(c)'
      /\ execute[c].pc \notin Before => execute'[c].pc \notin Before
  BY JobMoves, CallMoves, Onward
<1>2. /\ job[c].pc # "none" => row[c] # "none" /\ execute[c].pc \notin Before
      /\ job[c].pc # "over" => job[c].end = "none"
      /\ job[c].end \in {"none", "completed", "failed", "cancelled"}
      /\ job[c].end = "cancelled" => Unwanted(c)
      /\ execute[c].pc \in Posting => row[c] # "none"
      /\ cancel[c] # "idle" => row[c] # "none"
      /\ execute[c].pc \in {"expired", "expiring"} => execute[c].late
  BY DEF Worked
<1>3. job'[c].pc # "none" => row'[c] # "none" /\ execute'[c].pc \notin Before
  <2>1. CASE job[c].pc # "none"
    BY <1>1, <1>2, <2>1
  <2>2. CASE job[c].pc = "none" /\ job'[c].pc # "none"
    <3>1. toAgent \in Seq(MessageType) /\ toAgent # <<>>
          /\ Head(toAgent) = Message("request", c)
      BY <1>1, <2>2 DEF Proceeds, Typed
    <3>2. /\ 1 \in 1..Len(toAgent)
          /\ toAgent[1].kind = "request" /\ toAgent[1].call = c
      BY <3>1, TailAt DEF Message
    <3> QED BY <1>1, <3>2 DEF Posted
  <2> QED BY <2>1, <2>2
<1>4. /\ job'[c].pc # "over" => job'[c].end = "none"
      /\ job'[c].end \in {"none", "completed", "failed", "cancelled"}
      /\ job'[c].end = "cancelled" => Unwanted(c)'
  BY <1>1, <1>2 DEF Proceeds
<1>5. /\ execute'[c].pc \in Posting => row'[c] # "none"
      /\ execute'[c].pc \in {"expired", "expiring"} => execute'[c].late
  BY <1>1, <1>2 DEF Moved, Posting
<1>6. cancel'[c] # "idle" => row'[c] # "none"
  BY <1>1, <1>2, CancelMoves
<1> QED BY <1>3, <1>4, <1>5, <1>6

LEMMA AwaitedStep ==
    ASSUME DeviceInv, [Next]_vars
    PROVE  Awaited'
<1> SUFFICES ASSUME NEW c \in Calls,
                    execute'[c].pc \in Returned \cup {"checked", "inserted"}
             PROVE  future'[c] = "none"
  BY DEF Awaited
<1>1. CASE execute[c].pc \in Returned \cup {"checked", "inserted"}
  <2>1. future[c] = "none" /\ execute'[c].pc # "awaiting"
    BY <1>1 DEF DeviceInv, Awaited, Returned
  <2> QED BY <2>1, FutureMoves
<1>2. CASE execute[c].pc \notin Returned \cup {"checked", "inserted"}
  BY <1>2, CallMoves DEF Moved, Returned
<1> QED BY <1>1, <1>2

\* The end of a job is final.
LEMMA Lasting ==
    ASSUME DeviceInv, [Next]_vars, NEW c \in Calls, job[c].end \in Final
    PROVE  job'[c].end = job[c].end
  BY JobMoves DEF DeviceInv, Worked, Proceeds, Final

LEMMA CarriedStep ==
    ASSUME DeviceInv, [Next]_vars
    PROVE  Carried'
<1> USE DEF DeviceInv
<1>0. /\ toCore \in [Connections -> Seq(ResultType)]
      /\ toCore' \in [Connections -> Seq(ResultType)]
      /\ loop \in [Connections -> LoopType]
      /\ \A k \in Connections : \A i \in 1..Len(toCore[k]) :
            /\ toCore[k][i] \in ResultType
            /\ job'[toCore[k][i].call].end = toCore[k][i].status
  <2>1. /\ toCore \in [Connections -> Seq(ResultType)]
        /\ toCore' \in [Connections -> Seq(ResultType)]
        /\ loop \in [Connections -> LoopType]
    BY TypedStep DEF Typed
  <2>2. ASSUME NEW k \in Connections, NEW i \in 1..Len(toCore[k])
        PROVE  /\ toCore[k][i] \in ResultType
               /\ job'[toCore[k][i].call].end = toCore[k][i].status
    <3>1. toCore[k][i] \in ResultType
      BY <2>1
    <3>2. PICK m \in ResultType : m = toCore[k][i]
      BY <3>1
    <3>3. m.call \in Calls /\ m.status \in Final /\ job[m.call].end = m.status
      BY <3>2 DEF Carried, ResultType
    <3>4. job'[m.call].end = m.status
      BY <3>3, Lasting
    <3> QED BY <3>2, <3>4
  <2> QED BY <2>1, <2>2
<1>1. ASSUME NEW k \in Connections, NEW i \in 1..Len(toCore'[k])
      PROVE  job'[toCore'[k][i].call].end = toCore'[k][i].status
  <2>1. ASSUME NEW c \in Calls, NEW status \in Final, Answer(c, status),
               job'[c].end = status
        PROVE  job'[toCore'[k][i].call].end = toCore'[k][i].status
    <3>1. CASE toCore'[k] = toCore[k]
      BY <1>0, <3>1
    <3>2. CASE toCore'[k] = Append(toCore[k], [call |-> c, status |-> status])
      <4>1. /\ [call |-> c, status |-> status] \in ResultType
            /\ toCore[k] \in Seq(ResultType)
        BY <1>0 DEF ResultType
      <4>2. \/ i \in 1..Len(toCore[k]) /\ toCore'[k][i] = toCore[k][i]
            \/ toCore'[k][i] = [call |-> c, status |-> status]
        BY <3>2, <4>1, AppendAt
      <4> QED BY <1>0, <2>1, <4>2
    <3> QED BY <2>1, <3>1, <3>2, Answering
  <2>2. CASE AgentCancels
    <3> DEFINE c == Head(toAgent).call
    <3>1. c \in Calls
      BY <2>2, Taking DEF AgentCancels, Kinds
    <3>2. \/ UNCHANGED toCore
          \/ /\ Answer(c, "cancelled")
             /\ job' = [job EXCEPT ![c].pc = "over", ![c].end = "cancelled"]
      BY <2>2 DEF AgentCancels
    <3>3. "cancelled" \in Final
      BY DEF Final
    <3> HIDE DEF c
    <3>4. CASE UNCHANGED toCore
      BY <1>0, <3>4
    <3>5. CASE job' = [job EXCEPT ![c].pc = "over", ![c].end = "cancelled"]
      <4>1. job'[c].end = "cancelled"
        BY <3>1, <3>3, <3>5, Working
      <4> QED BY <1>0, <2>1, <3>1, <3>2, <3>3, <4>1
    <3> QED BY <3>2, <3>4, <3>5
  <2>3. ASSUME NEW c \in Calls, AgentFinishes(c)
        PROVE  job'[toCore'[k][i].call].end = toCore'[k][i].status
    <3>1. PICK status \in {"completed", "failed"} :
            /\ job' = [job EXCEPT ![c].pc = "over", ![c].end = status]
            /\ Answer(c, status)
      BY <2>3 DEF AgentFinishes
    <3>2. status \in Final
      BY DEF Final
    <3>3. job'[c].end = status
      BY <3>1, <3>2, Working
    <3> QED BY <2>1, <3>1, <3>2, <3>3
  <2>4. CASE Break \/ AgentRestart
    <3>1. UNCHANGED toCore \/ Cut(at.on)
      BY <2>4 DEF Break, AgentRestart
    <3>2. CASE Cut(at.on)
      <4>1. i \in 1..Len(toCore[k]) /\ toCore'[k][i] = toCore[k][i]
        BY <1>0, <3>2, Cutting
      <4> QED BY <1>0, <4>1
    <3> QED BY <1>0, <3>1, <3>2
  <2>5. CASE CoreRestart
    <3>1. toCore'[k] = <<>>
      BY <2>5 DEF CoreRestart
    <3> QED BY <3>1
  <2>6. ASSUME NEW j \in Connections, Take(j)
        PROVE  job'[toCore'[k][i].call].end = toCore'[k][i].status
    <3>1. CASE k = j
      <4>1. toCore'[k] = Tail(toCore[k]) /\ toCore[k] # <<>>
            /\ toCore[k] \in Seq(ResultType)
        BY <1>0, <2>6, <3>1 DEF Take
      <4>2. i + 1 \in 1..Len(toCore[k]) /\ toCore'[k][i] = toCore[k][i + 1]
        BY <4>1, TailAt
      <4> QED BY <1>0, <4>2
    <3>2. CASE k # j
      <4>1. toCore'[k] = toCore[k]
        BY <1>0, <2>6, <3>2 DEF Take
      <4> QED BY <1>0, <4>1
    <3> QED BY <3>1, <3>2
  <2>7. ASSUME NEW j \in Connections, Unregister(j)
        PROVE  job'[toCore'[k][i].call].end = toCore'[k][i].status
    <3>1. toCore'[k] = toCore[k] \/ toCore'[k] = <<>>
      BY <1>0, <2>7 DEF Unregister
    <3> QED BY <1>0, <3>1
  <2> QED BY <1>0, <2>2, <2>3, <2>4, <2>5, <2>6, <2>7, ResultFrame
<1>2. ASSUME NEW k \in Connections, loop'[k].pc \in {"store", "tell"}
      PROVE  /\ loop'[k].call \in Calls /\ loop'[k].status \in Final
             /\ job'[loop'[k].call].end = loop'[k].status
  <2>1. CASE /\ loop[k].pc \in {"store", "tell"}
             /\ loop'[k].call = loop[k].call /\ loop'[k].status = loop[k].status
    BY <2>1, Lasting DEF Carried
  <2>2. ASSUME NEW j \in Connections, NEW p \in LoopPcs \ {"store", "tell"},
               Enter(j, p)
        PROVE  loop'[k] = loop[k]
    BY <1>2, <2>2, Entering
  <2>3. ASSUME NEW j \in Connections, Hello(j) PROVE loop'[k] = loop[k]
    BY <2>2, <2>3 DEF Hello, LoopPcs
  <2>4. ASSUME NEW j \in Connections, Register(j) \/ RefuseHeartbeat(j)
                                      \/ LoopEnds(j) \/ Unregister(j)
        PROVE  loop'[k] = loop[k]
    BY <2>2, <2>4 DEF Register, RefuseHeartbeat, LoopEnds, Unregister, LoopPcs
  <2>5. ASSUME NEW j \in Connections, Welcome(j) PROVE loop'[k] = loop[k]
    <3>1. Enter(j, "receive") \/ Enter(j, "closing")
      BY <2>5 DEF Welcome
    <3> QED BY <2>2, <3>1 DEF LoopPcs
  <2>6. ASSUME NEW j \in Connections, Take(j)
        PROVE  \/ loop'[k] = loop[k]
               \/ /\ loop'[k].call \in Calls /\ loop'[k].status \in Final
                  /\ job'[loop'[k].call].end = loop'[k].status
    <3>1. CASE k # j \/ loop' = loop
      BY <1>0, <2>6, <3>1 DEF Take
    <3>2. CASE k = j /\ loop' # loop
      <4>1. /\ toCore[k] # <<>> /\ toCore[k] \in Seq(ResultType)
            /\ loop'[k].call = Head(toCore[k]).call
            /\ loop'[k].status = Head(toCore[k]).status
        BY <1>0, <2>6, <3>2 DEF Take
      <4>2. Head(toCore[k]) = toCore[k][1] /\ 1 \in 1..Len(toCore[k])
        BY <4>1, TailAt
      <4> QED BY <1>0, <4>1, <4>2 DEF ResultType
    <3> QED BY <3>1, <3>2
  <2>7. ASSUME NEW j \in Connections, Store(j)
        PROVE  /\ loop[k].pc \in {"store", "tell"}
               /\ loop'[k].call = loop[k].call /\ loop'[k].status = loop[k].status
    BY <1>2, <2>7, Entering DEF Store, LoopPcs
  <2>8. ASSUME NEW j \in Connections, Tell(j) PROVE loop'[k] = loop[k]
    BY <1>0, <1>2, <2>8 DEF Tell, NoLoop
  <2>9. CASE CoreRestart
    BY <1>2, <2>9 DEF CoreRestart, NoLoop
  <2>10. CASE loop'[k] = loop[k]
    BY <1>2, <2>1, <2>10
  <2> QED BY <2>1, <2>3, <2>4, <2>5, <2>6, <2>7, <2>8, <2>9, <2>10, LoopFrame
          DEF LoopStep
<1> QED BY <1>1, <1>2 DEF Carried

\* A request for a call gets on its way only when the call sends it.
LEMMA NeverAsked ==
    ASSUME DeviceInv, [Next]_vars, NEW c \in Calls,
           execute[c].pc # "awaiting", job[c].pc = "none",
           \A i \in 1..Len(toAgent) :
                ~(toAgent[i].kind = "request" /\ toAgent[i].call = c)
    PROVE  /\ job'[c].pc = "none"
           /\ \A i \in 1..Len(toAgent') :
                ~(toAgent'[i].kind = "request" /\ toAgent'[i].call = c)
<1>0. toAgent \in Seq(MessageType)
  BY DEF DeviceInv, Typed
<1>1. job'[c].pc = "none"
  <2>1. CASE toAgent # <<>> /\ Head(toAgent) = Message("request", c)
    <3>1. 1 \in 1..Len(toAgent) /\ toAgent[1] = Message("request", c)
      BY <1>0, <2>1, TailAt
    <3> QED BY <3>1 DEF Message
  <2>2. CASE ~(toAgent # <<>> /\ Head(toAgent) = Message("request", c))
    BY <2>2, JobMoves DEF Proceeds
  <2> QED BY <2>1, <2>2
<1>2. ASSUME NEW i \in 1..Len(toAgent'), NEW m \in MessageType, Sent(m)
      PROVE  ~(toAgent'[i].kind = "request" /\ toAgent'[i].call = c)
  <2>1. \/ i \in 1..Len(toAgent) /\ toAgent'[i] = toAgent[i]
        \/ toAgent'[i] = m
    BY <1>0, <1>2, AppendAt DEF Sent
  <2> QED BY <1>2, <2>1 DEF Sent
<1>3. ASSUME NEW i \in 1..Len(toAgent'), Received
      PROVE  i + 1 \in 1..Len(toAgent) /\ toAgent'[i] = toAgent[i + 1]
  BY <1>0, <1>3, TailAt DEF Received
<1>4. ASSUME NEW i \in 1..Len(toAgent')
      PROVE  ~(toAgent'[i].kind = "request" /\ toAgent'[i].call = c)
  <2>1. CASE toAgent' = toAgent
    BY <2>1
  <2>2. CASE toAgent' = <<>>
    BY <2>2
  <2>3. CASE Received
    BY <1>3, <2>3
  <2> QED BY <1>2, <2>1, <2>2, <2>3, MailMoves
<1> QED BY <1>1, <1>4

LEMMA EndedStep ==
    ASSUME DeviceInv, [Next]_vars
    PROVE  Ended'
<1> SUFFICES ASSUME NEW c \in Calls
    PROVE  /\ row'[c] = "completed" => job'[c].end = "completed"
           /\ row'[c] = "failed" =>
                \/ job'[c].end = "failed"
                \/ /\ job'[c].pc = "none"
                   /\ execute'[c].pc \notin {"inserted", "awaiting"}
                   /\ \A i \in 1..Len(toAgent') :
                        ~(toAgent'[i].kind = "request" /\ toAgent'[i].call = c)
           /\ row'[c] = "cancelled" => Unwanted(c)'
           /\ row'[c] = "timed_out" => execute'[c].late
  BY DEF Ended, Unwanted
<1> USE DEF DeviceInv
<1>1. /\ Written(c) /\ Moved(c)
      /\ Unwanted(c) => Unwanted(c)'
      /\ job[c].end \in Final => job'[c].end = job[c].end
  BY RowMoves, CallMoves, Onward, Lasting
<1>2. /\ row[c] = "completed" => job[c].end = "completed"
      /\ row[c] = "cancelled" => Unwanted(c)
      /\ row[c] = "timed_out" => execute[c].late
      /\ job[c].end \in {"none", "completed", "failed", "cancelled"}
      /\ job[c].end = "cancelled" => Unwanted(c)
      /\ cancel[c] = "cancelling" => Unwanted(c)
      /\ execute[c].pc = "expiring" => execute[c].late
  BY DEF Ended, Worked, Unwanted
<1>3. row'[c] = "completed" => job'[c].end = "completed"
  BY <1>1, <1>2 DEF Written, Final
<1>4. row'[c] = "cancelled" => Unwanted(c)'
  BY <1>1, <1>2 DEF Written
<1>5. row'[c] = "timed_out" => execute'[c].late
  BY <1>1, <1>2 DEF Written, Moved
<1>6. ASSUME row'[c] = "failed", job'[c].end # "failed"
      PROVE  /\ job'[c].pc = "none"
             /\ execute'[c].pc \notin {"inserted", "awaiting"}
             /\ \A i \in 1..Len(toAgent') :
                    ~(toAgent'[i].kind = "request" /\ toAgent'[i].call = c)
  <2>1. CASE row[c] = "failed"
    <3>1. /\ job[c].pc = "none"
          /\ execute[c].pc \notin {"inserted", "awaiting"}
          /\ \A i \in 1..Len(toAgent) :
                ~(toAgent[i].kind = "request" /\ toAgent[i].call = c)
      BY <1>1, <1>6, <2>1 DEF Ended, Final
    <3>2. execute'[c].pc \notin {"inserted", "awaiting"}
      BY <1>1, <1>6, <3>1 DEF Moved
    <3> QED BY <3>1, <3>2, NeverAsked
  <2>2. CASE row[c] # "failed"
    <3>1. execute[c].pc = "failing" /\ execute'[c].pc = "ending"
      BY <1>1, <1>2, <1>6, <2>2 DEF Written, Final
    <3>2. /\ job[c].pc = "none"
          /\ \A i \in 1..Len(toAgent) :
                ~(toAgent[i].kind = "request" /\ toAgent[i].call = c)
      BY <3>1 DEF Worked, Posted, Before
    <3> QED BY <3>1, <3>2, NeverAsked
  <2> QED BY <2>1, <2>2
<1> QED BY <1>3, <1>4, <1>5, <1>6

LEMMA KeyedStep ==
    ASSUME DeviceInv, [Next]_vars
    PROVE  Keyed'
<1>1. UNCHANGED scene
  BY DEF Next, vars, broker, agent, wire, CallStep, Lookup, Insert, Await,
         SendRequest, MarkRunning, Woken, Expire, LoadEnd, CommitEnd, Return,
         CancelAsk, CancelStep, CancelLoad, CancelCommit, CancelTell, Hello,
         LoopStep, Register, Welcome, Take, Store, Tell, RefuseHeartbeat,
         LoopEnds, Unregister, Revoke, Disconnect, AgentStep, AgentGreeted,
         AgentAccepts, AgentCancels, AgentLeaves, AgentStarts, AgentFinishes,
         Break, AgentRestart, CoreRestart
<1>2. scene.keyed \subseteq Calls
  BY ConstantsAssumption DEF DeviceInv, Typed
\* A row that appears is the only one of its key.
<1>3. ASSUME NEW c \in scene.keyed, NEW d \in scene.keyed, c # d,
             row[c] = "none", row'[c] # "none"
      PROVE  row'[d] = "none"
  <2>1. /\ execute[c].pc = "checked" /\ execute'[c].pc = "inserted"
        /\ SameKey(c) = {}
    <3>1. Written(c)
      BY <1>2, RowMoves
    <3>2. /\ execute[c].pc \in Posting => row[c] # "none"
          /\ cancel[c] # "idle" => row[c] # "none"
          /\ job[c].pc # "none" => row[c] # "none"
          /\ job[c].pc # "over" => job[c].end = "none"
      BY <1>2 DEF DeviceInv, Worked
    <3> QED BY <1>3, <3>1, <3>2 DEF Written, Posting, Final
  <2>2. row[d] = "none"
    BY <2>1 DEF SameKey
  <2>3. row'[d] = row[d]
    BY <1>2, <1>3, <2>1, RowMoves DEF Inserts
  <2> QED BY <2>2, <2>3
<1> QED BY <1>1, <1>3 DEF DeviceInv, Keyed

-----------------------------------------------------------------------------
(* The connection of an Agent that was welcomed.                           *)

\* A loop goes through its stages in their order.
Advances(k) ==
    /\ loop[k].pc # "none" => loop'[k].pc # "none"
    /\ loop[k].pc \notin {"none", "hello"} => loop'[k].pc \notin {"none", "hello"}
    /\ loop[k].pc = "closed" => loop'[k].pc = "closed"

LEMMA LoopMoves ==
    ASSUME DeviceInv, [Next]_vars, NEW k \in Connections
    PROVE  /\ Advances(k)
           /\ loop'[k].pc = "hello" => loop[k].pc = "hello" \/ Hello(k)
<1> USE DEF DeviceInv
<1>0. loop \in [Connections -> LoopType]
  BY DEF Typed
<1>1. ASSUME NEW j \in Connections, Hello(j)
      PROVE  /\ Advances(k)
             /\ loop'[k].pc = "hello" => loop[k].pc = "hello" \/ Hello(k)
  BY <1>1, Entering DEF Hello, LoopPcs, Advances
<1>2. ASSUME NEW j \in Connections, LoopStep(j)
      PROVE  Advances(k) /\ (loop'[k].pc = "hello" => loop[k].pc = "hello")
  <2>1. CASE Register(j)
    BY <2>1, Entering DEF Register, LoopPcs, Advances
  <2>2. CASE Welcome(j)
    <3>1. loop[j].pc = "welcome" /\ (Enter(j, "receive") \/ Enter(j, "closing"))
      BY <2>2 DEF Welcome
    <3> QED BY <3>1, Entering DEF LoopPcs, Advances
  <2>3. CASE Take(j)
    BY <1>0, <2>3 DEF Take, Advances
  <2>4. CASE Store(j)
    BY <2>4, Entering DEF Store, LoopPcs, Advances
  <2>5. CASE Tell(j)
    BY <1>0, <2>5 DEF Tell, NoLoop, Advances
  <2>6. CASE RefuseHeartbeat(j) \/ LoopEnds(j)
    BY <2>6, Entering DEF RefuseHeartbeat, LoopEnds, LoopPcs, Advances
  <2>7. CASE Unregister(j)
    BY <2>7, Entering DEF Unregister, LoopPcs, Advances
  <2> QED BY <1>2, <2>1, <2>2, <2>3, <2>4, <2>5, <2>6, <2>7 DEF LoopStep
<1>3. CASE CoreRestart
  BY <1>3 DEF CoreRestart, NoLoop, Advances
<1>4. CASE UNCHANGED loop
  BY <1>4 DEF Advances
<1> QED BY <1>1, <1>2, <1>3, <1>4, LoopFrame

\* The parts of Reached.
Linked == link # NoConnection => loop[link].pc \notin {"none", "hello"}
Placed == at # Nowhere => at.on \in Connections /\ loop[at.on].pc # "none"
Closing ==
    \A i \in 1..Len(toAgent) : toAgent[i].kind = "close" =>
        i = Len(toAgent) /\ link # at.on /\ loop[at.on].pc # "hello"
Greeted ==
    /\ device = "active" /\ at # Nowhere /\ loop[at.on].pc # "closed"
    /\ at.welcomed \/ \E i \in 1..Len(toAgent) : toAgent[i].kind = "welcome"
    => \/ link = at.on
       \/ \E i \in 1..Len(toAgent) : toAgent[i].kind = "close"

LEMMA ReachedParts ==
    /\ Reached <=> Linked /\ Placed /\ Closing /\ Greeted
    /\ Reached' <=> Linked' /\ Placed' /\ Closing' /\ Greeted'
  BY DEF Reached, Linked, Placed, Closing, Greeted

\* Where the Agent is connected, nobody says hello a second time.
LEMMA NoSecondHello ==
    ASSUME DeviceInv, [Next]_vars, at # Nowhere, loop[at.on].pc # "hello"
    PROVE  loop'[at.on].pc # "hello" /\ loop'[at.on].pc # "none"
<1>1. at.on \in Connections /\ loop[at.on].pc # "none"
  BY DEF DeviceInv, Reached
<1> QED BY <1>1, LoopMoves DEF Hello, Advances

\* A step that leaves the connection and its messages alone.
LEMMA ReachedQuiet ==
    ASSUME DeviceInv, [Next]_vars, UNCHANGED <<link, device, at, toAgent>>
    PROVE  Reached'
<1> USE DEF DeviceInv
<1>0. /\ link \in Connections \cup {NoConnection}
      /\ toAgent \in Seq(MessageType)
      /\ \A k \in Connections : Advances(k)
  BY LoopMoves DEF Typed
<1>1. Linked'
  BY <1>0, ReachedParts DEF Linked, Advances
<1>2. Placed'
  BY <1>0, ReachedParts DEF Placed, Advances
<1>3. toAgent # <<>> => at # Nowhere
  BY DEF Posted
<1>4. Closing'
  <2> SUFFICES ASSUME NEW i \in 1..Len(toAgent), toAgent[i].kind = "close"
               PROVE  i = Len(toAgent) /\ link # at.on /\ loop'[at.on].pc # "hello"
    BY DEF Closing
  <2>1. i = Len(toAgent) /\ link # at.on /\ loop[at.on].pc # "hello"
    BY ReachedParts DEF Closing
  <2>2. at # Nowhere
    BY <1>0, <1>3
  <2> QED BY <2>1, <2>2, NoSecondHello
<1>5. Greeted'
  BY <1>0, ReachedParts DEF Greeted, Placed, Advances
<1> QED BY <1>1, <1>2, <1>4, <1>5, ReachedParts

\* A message is sent that is not a close.
LEMMA ReachedSend ==
    ASSUME DeviceInv, [Next]_vars, UNCHANGED <<device, at>>,
           NEW m \in MessageType, m.kind # "close",
           NEW sent \in BOOLEAN, Send(m, sent)
    PROVE  Reached'
<1> USE DEF DeviceInv
<1>0. /\ link \in Connections \cup {NoConnection}
      /\ toAgent \in Seq(MessageType)
      /\ \A k \in Connections : Advances(k)
  BY LoopMoves DEF Typed
<1>1. CASE UNCHANGED toAgent /\ link' = link
  BY <1>1, ReachedQuiet
<1>2. CASE UNCHANGED toAgent /\ link # at.on /\ link' = NoConnection
  <2>1. Linked'
    BY <1>2 DEF Linked
  <2>2. Placed'
    BY <1>0, ReachedParts DEF Placed, Advances
  <2>3. Closing'
    <3> SUFFICES ASSUME NEW i \in 1..Len(toAgent), toAgent[i].kind = "close"
                 PROVE  /\ i = Len(toAgent) /\ NoConnection # at.on
                        /\ loop'[at.on].pc # "hello"
      BY <1>2 DEF Closing
    <3>1. i = Len(toAgent) /\ loop[at.on].pc # "hello"
      BY ReachedParts DEF Closing
    <3>2. at # Nowhere
      BY <1>0 DEF Posted
    <3> QED BY <3>1, <3>2, NoSecondHello, ReachedParts, Places DEF Placed
  <2>4. Greeted'
    BY <1>0, <1>2, ReachedParts DEF Greeted, Placed, Advances
  <2> QED BY <2>1, <2>2, <2>3, <2>4, ReachedParts
<1>3. CASE /\ toAgent' = Append(toAgent, m)
           /\ UNCHANGED link /\ link = at.on /\ link # NoConnection
  <2>1. Linked'
    BY <1>0, <1>3, ReachedParts DEF Linked, Advances
  <2>2. Placed'
    BY <1>0, ReachedParts DEF Placed, Advances
  <2>3. \A i \in 1..Len(toAgent') : toAgent'[i].kind # "close"
    <3>1. \A i \in 1..Len(toAgent) : toAgent[i].kind # "close"
      BY <1>3, ReachedParts DEF Closing
    <3> QED BY <1>0, <1>3, <3>1, AppendAt
  <2> QED BY <1>3, <2>1, <2>2, <2>3, ReachedParts DEF Closing, Greeted
<1> QED BY <1>1, <1>2, <1>3, Sending

\* The Agent takes a message that is not a close.
LEMMA ReachedTake ==
    ASSUME DeviceInv, UNCHANGED <<device, link, loop>>,
           toAgent # <<>>, toAgent' = Tail(toAgent), Head(toAgent).kind # "close",
           at # Nowhere, at' # Nowhere, at'.on = at.on,
           at'.welcomed => at.welcomed \/ Head(toAgent).kind = "welcome"
    PROVE  Reached'
<1> USE DEF DeviceInv
<1>0. /\ toAgent \in Seq(MessageType)
      /\ Head(toAgent) = toAgent[1] /\ 1 \in 1..Len(toAgent)
      /\ Len(toAgent) \in Nat /\ Len(toAgent') = Len(toAgent) - 1
      /\ \A i \in 1..Len(toAgent') :
            i + 1 \in 1..Len(toAgent) /\ toAgent'[i] = toAgent[i + 1]
  BY TailAt DEF Typed
<1>1. Linked' /\ Placed'
  BY ReachedParts DEF Linked, Placed
<1>2. Closing'
  <2> SUFFICES ASSUME NEW i \in 1..Len(toAgent'), toAgent'[i].kind = "close"
               PROVE  /\ i = Len(toAgent') /\ link # at.on
                      /\ loop[at.on].pc # "hello"
    BY DEF Closing
  <2>1. i + 1 \in 1..Len(toAgent) /\ toAgent[i + 1].kind = "close"
    <3>1. i \in 1..Len(toAgent') /\ toAgent'[i].kind = "close"
      OBVIOUS
    <3> QED BY <1>0, <3>1
  <2>2. i + 1 = Len(toAgent) /\ link # at.on /\ loop[at.on].pc # "hello"
    BY <2>1, ReachedParts DEF Closing
  <2>3. i = Len(toAgent')
    <3>1. /\ Len(toAgent) \in Nat /\ Len(toAgent') = Len(toAgent) - 1
          /\ i \in 1..Len(toAgent')
      BY <1>0
    <3> QED BY <2>2, <3>1
  <2> QED BY <2>2, <2>3
<1>3. Greeted'
  <2> SUFFICES ASSUME device = "active", loop[at.on].pc # "closed",
                      at'.welcomed \/ \E i \in 1..Len(toAgent') :
                                          toAgent'[i].kind = "welcome"
               PROVE  \/ link = at.on
                      \/ \E i \in 1..Len(toAgent') : toAgent'[i].kind = "close"
    BY DEF Greeted
  <2>1. at.welcomed \/ \E i \in 1..Len(toAgent) : toAgent[i].kind = "welcome"
    BY <1>0
  <2>2. \/ link = at.on
        \/ \E i \in 1..Len(toAgent) : toAgent[i].kind = "close"
    BY <2>1, ReachedParts DEF Greeted
  <2>3. ASSUME NEW i \in 1..Len(toAgent), toAgent[i].kind = "close"
        PROVE  \E j \in 1..Len(toAgent') : toAgent'[j].kind = "close"
    <3>1. i # 1
      BY <1>0, <2>3
    <3>2. i - 1 \in 1..Len(toAgent') /\ toAgent'[i - 1] = toAgent[(i - 1) + 1]
      BY <1>0, <3>1
    <3>3. toAgent'[i - 1].kind = "close"
      BY <2>3, <3>2
    <3> QED BY <3>2, <3>3
  <2> QED BY <2>2, <2>3
<1> QED BY <1>1, <1>2, <1>3, ReachedParts

\* The Agent is nowhere.
LEMMA ReachedNowhere ==
    ASSUME DeviceInv, UNCHANGED <<link, loop>>, at' = Nowhere, toAgent' = <<>>
    PROVE  Reached'
<1>1. Linked'
  BY ReachedParts DEF DeviceInv, Linked
<1>2. Placed' /\ Greeted'
  BY DEF Placed, Greeted
<1>3. Closing'
  BY DEF Closing
<1> QED BY <1>1, <1>2, <1>3, ReachedParts

\* Core replaces or drops the registration it finds, and closes it.
LEMMA ReachedClose ==
    ASSUME DeviceInv, [Next]_vars, UNCHANGED at, Close(link), link' # link,
           link' # NoConnection =>
                /\ link' \in Connections /\ loop[link'].pc = "hello"
                /\ loop'[link'].pc \notin {"none", "hello"}
                /\ UNCHANGED device,
           link' = NoConnection => device' # "active" /\ UNCHANGED loop
    PROVE  Reached'
<1> USE DEF DeviceInv
<1>0. /\ link \in Connections \cup {NoConnection}
      /\ toAgent \in Seq(MessageType)
      /\ \A k \in Connections : Advances(k)
      /\ at # Nowhere => at.on \in Connections
  BY LoopMoves, ReachedParts DEF Typed, Placed
<1>1. Linked' /\ Placed'
  BY <1>0, ReachedParts DEF Linked, Placed, Advances
<1>2. CASE UNCHANGED toAgent /\ (link = NoConnection \/ link # at.on)
  <2>1. Closing'
    <3> SUFFICES ASSUME NEW i \in 1..Len(toAgent), toAgent[i].kind = "close"
                 PROVE  /\ i = Len(toAgent) /\ link' # at.on
                        /\ loop'[at.on].pc # "hello"
      BY <1>2 DEF Closing
    <3>1. i = Len(toAgent) /\ loop[at.on].pc # "hello"
      BY ReachedParts DEF Closing
    <3>2. at # Nowhere
      BY <1>0 DEF Posted
    <3> QED BY <1>0, <3>1, <3>2, NoSecondHello, Places
  <2>2. Greeted'
    <3>1. CASE link' = NoConnection
      BY <3>1 DEF Greeted
    <3>2. CASE link' # NoConnection
      BY <1>0, <1>2, <3>2, ReachedParts, Places DEF Greeted, Advances
    <3> QED BY <3>1, <3>2
  <2> QED BY <1>1, <2>1, <2>2, ReachedParts
<1>3. CASE /\ toAgent' = Append(toAgent, Message("close", NoRequest))
           /\ link # NoConnection /\ link = at.on
  <2>1. at # Nowhere /\ loop[at.on].pc # "hello"
    BY <1>3, ReachedParts DEF Linked, Nowhere
  <2>2. loop'[at.on].pc # "hello"
    BY <2>1, NoSecondHello
  <2>3. \A i \in 1..Len(toAgent) : toAgent[i].kind # "close"
    BY <1>3, ReachedParts DEF Closing
  <2>4. /\ Len(toAgent) \in Nat /\ Len(toAgent') = Len(toAgent) + 1
        /\ \A i \in 1..Len(toAgent) : toAgent'[i] = toAgent[i]
        /\ toAgent'[Len(toAgent) + 1].kind = "close"
    BY <1>0, <1>3, Messages, AppendAt DEF Message
  <2>5. Closing'
    BY <1>3, <2>2, <2>3, <2>4 DEF Closing
  <2>6. Len(toAgent') \in 1..Len(toAgent')
    BY <2>4
  <2>7. Greeted'
    BY <2>4, <2>6 DEF Greeted
  <2> QED BY <1>1, <2>5, <2>7, ReachedParts
<1> QED BY <1>2, <1>3, Closes

LEMMA ReachedStep ==
    ASSUME DeviceInv, [Next]_vars
    PROVE  Reached'
<1> USE Messages, Places DEF DeviceInv
<1>0. /\ link \in Connections \cup {NoConnection}
      /\ toAgent \in Seq(MessageType) /\ at \in PlaceType
      /\ loop \in [Connections -> LoopType]
      /\ \A k \in Connections : Advances(k)
  BY LoopMoves DEF Typed
<1>1. ASSUME NEW c \in Calls, SendRequest(c) \/ Expire(c) \/ CancelAsk(c)
      PROVE  Reached'
  <2>1. /\ UNCHANGED <<device, at>>
        /\ \E sent \in BOOLEAN : \/ Send(Message("request", c), sent)
                                 \/ Send(Message("cancel", c), sent)
    BY <1>1 DEF SendRequest, Expire, CancelAsk, agent
  <2>2. /\ Message("request", c).kind # "close"
        /\ Message("cancel", c).kind # "close"
    BY DEF Message
  <2> QED BY <2>1, <2>2, ReachedSend
<1>2. ASSUME NEW k \in Connections, Welcome(k) PROVE Reached'
  <2>1. /\ UNCHANGED <<device, at>>
        /\ \E sent \in BOOLEAN : Send(Message("welcome", NoRequest), sent)
    BY <1>2 DEF Welcome, agent
  <2>2. Message("welcome", NoRequest).kind # "close"
    BY DEF Message
  <2> QED BY <2>1, <2>2, ReachedSend
<1>3. ASSUME NEW k \in Connections, Register(k) PROVE Reached'
  <2>1. /\ UNCHANGED <<device, at>> /\ Close(link) /\ link' = k
        /\ loop[k].pc = "hello" /\ loop'[k].pc = "welcome"
    BY <1>3, Entering DEF Register, agent, LoopPcs
  <2>2. link # k
    BY <2>1, ReachedParts DEF Linked
  <2> QED BY <2>1, <2>2, ReachedClose
<1>4. CASE Disconnect
  <2>1. /\ UNCHANGED <<at, loop>> /\ Close(link) /\ link' = NoConnection
        /\ device' # "active"
    BY <1>4 DEF Disconnect, agent
  <2>2. CASE link # NoConnection
    BY <2>1, <2>2, ReachedClose
  <2>3. CASE link = NoConnection
    <3>1. UNCHANGED toAgent
      BY <2>1, <2>3 DEF Close
    <3>2. Linked' /\ Placed' /\ Closing' /\ Greeted'
      BY <2>1, <2>3, <3>1, ReachedParts
         DEF Linked, Placed, Closing, Greeted
    <3> QED BY <3>2, ReachedParts
  <2> QED BY <2>2, <2>3
<1>5. ASSUME NEW k \in Connections, Hello(k) PROVE Reached'
  <2>1. /\ at = Nowhere /\ at' = [on |-> k, welcomed |-> FALSE]
        /\ UNCHANGED <<device, link, toAgent>>
        /\ loop'[k].pc = "hello"
    BY <1>5, Entering DEF Hello, wire, LoopPcs
  <2>2. toAgent' = <<>> /\ at'.on = k /\ ~at'.welcomed
    BY <2>1 DEF Posted
  <2>3. Linked'
    BY <1>0, <2>1, ReachedParts DEF Linked, Advances
  <2> QED BY <2>1, <2>2, <2>3, ReachedParts DEF Placed, Closing, Greeted
<1>6. CASE AgentStep
  <2>1. CASE AgentGreeted
    <3>1. CASE Head(toAgent).kind = "welcome"
      <4>1. at' = [at EXCEPT !.welcomed = TRUE] /\ toAgent' = Tail(toAgent)
            /\ at # Nowhere /\ toAgent # <<>> /\ UNCHANGED <<device, link, loop>>
        BY <2>1, <3>1 DEF AgentGreeted
      <4>2. at'.on = at.on /\ at' # Nowhere
        BY <1>0, <4>1 DEF PlaceType, Nowhere
      <4> QED BY <3>1, <4>1, <4>2, ReachedTake
    <3>2. CASE Head(toAgent).kind # "welcome"
      BY <2>1, <3>2, ReachedNowhere DEF AgentGreeted
    <3> QED BY <3>1, <3>2
  <2>2. CASE AgentAccepts \/ AgentCancels
    <3>1. /\ toAgent # <<>> /\ toAgent' = Tail(toAgent)
          /\ Head(toAgent).kind \in {"request", "cancel"}
          /\ at.welcomed /\ UNCHANGED <<device, link, loop, at>>
      BY <2>2 DEF AgentAccepts, AgentCancels, AgentTakes
    <3>2. at # Nowhere
      BY <3>1 DEF Nowhere
    <3> QED BY <3>1, <3>2, ReachedTake
  <2>3. CASE AgentLeaves
    <3>1. at' = Nowhere /\ UNCHANGED <<link, loop>>
      BY <2>3 DEF AgentLeaves
    <3>2. toAgent' = <<>>
      BY <3>1, PostedStep DEF Posted
    <3> QED BY <3>1, <3>2, ReachedNowhere
  <2> QED BY <1>6, <2>1, <2>2, <2>3 DEF AgentStep
<1>7. CASE Break \/ AgentRestart
  BY <1>7, ReachedNowhere DEF Break, AgentRestart
<1>8. CASE CoreRestart
  <2>1. /\ link' = NoConnection /\ UNCHANGED <<at, toAgent, device>>
        /\ \A k \in Connections : loop[k].pc # "none" => loop'[k].pc = "closed"
    BY <1>8 DEF CoreRestart, agent, NoLoop
  <2>2. at # Nowhere => at.on \in Connections /\ loop'[at.on].pc = "closed"
    BY <2>1, ReachedParts DEF Placed
  <2>3. toAgent # <<>> => at # Nowhere
    BY DEF Posted
  <2>4. Closing'
    BY <1>0, <2>1, <2>2, <2>3, ReachedParts DEF Closing
  <2> QED BY <2>1, <2>2, <2>4, ReachedParts DEF Linked, Placed, Greeted
<1>9. CASE Revoke
  <2>1. UNCHANGED <<link, loop, at, toAgent>> /\ device' # "active"
    BY <1>9 DEF Revoke, agent, wire
  <2> QED BY <2>1, ReachedParts DEF Linked, Placed, Closing, Greeted
<1>10. ASSUME NEW k \in Connections, Unregister(k) PROVE Reached'
  <2>1. /\ UNCHANGED <<at, toAgent, device>> /\ loop'[k].pc = "closed"
        /\ link' = IF link = k THEN NoConnection ELSE link
    BY <1>10, Entering DEF Unregister, agent, LoopPcs
  <2>2. CASE link # k
    BY <2>1, <2>2, ReachedQuiet
  <2>3. CASE link = k
    <3>1. Linked' /\ Placed'
      BY <1>0, <2>1, <2>3, ReachedParts DEF Linked, Placed, Advances
    <3>2. Closing'
      <4> SUFFICES ASSUME NEW i \in 1..Len(toAgent), toAgent[i].kind = "close"
                   PROVE  /\ i = Len(toAgent) /\ NoConnection # at.on
                          /\ loop'[at.on].pc # "hello"
        BY <2>1, <2>3 DEF Closing
      <4>1. i = Len(toAgent) /\ loop[at.on].pc # "hello"
        BY ReachedParts DEF Closing
      <4>2. at # Nowhere
        BY <1>0 DEF Posted
      <4> QED BY <4>1, <4>2, NoSecondHello, ReachedParts DEF Placed
    <3>3. Greeted'
      BY <1>0, <2>1, <2>3, ReachedParts DEF Greeted, Placed, Advances
    <3> QED BY <3>1, <3>2, <3>3, ReachedParts
  <2> QED BY <2>2, <2>3
<1>11. CASE UNCHANGED <<link, device, at, toAgent>>
  BY <1>11, ReachedQuiet
<1> QED BY <1>1, <1>2, <1>3, <1>4, <1>5, <1>6, <1>7, <1>8, <1>9, <1>10, <1>11,
           WireFrame, LinkFrame

-----------------------------------------------------------------------------
(* The theorems.                                                           *)

LEMMA DeviceInit == Init => DeviceInv
<1> SUFFICES ASSUME Init PROVE DeviceInv
  OBVIOUS
<1>1. /\ scene \in Scenes /\ device = "active"
      /\ row = [c \in Calls |-> "none"]
      /\ execute = [c \in Calls |-> NoCall]
      /\ cancel = [c \in Calls |-> "idle"]
      /\ future = [c \in Calls |-> "none"]
      /\ link = NoConnection
      /\ loop = [k \in Connections |-> NoLoop]
      /\ at = Nowhere /\ toAgent = <<>>
      /\ toCore = [k \in Connections |-> <<>>]
      /\ job = [c \in Calls |-> NoJob]
      /\ overtaken = {}
  BY DEF Init
<1>2. /\ NoCall \in CallType /\ NoLoop \in LoopType /\ Nowhere \in PlaceType
      /\ NoJob \in JobType
  BY DEF NoCall, NoLoop, Nowhere, NoJob, CallType, LoopType, PlaceType, JobType,
         CallPcs, Returned, Statuses, LoopPcs
<1>3. Typed
  BY <1>1, <1>2 DEF Typed, Statuses
<1>4. Posted /\ Reached
  BY <1>1 DEF Posted, Reached
<1>5. Worked /\ Awaited
  BY <1>1 DEF Worked, Awaited, NoJob, NoCall, Posting
<1>6. Carried
  BY <1>1 DEF Carried, NoLoop
<1>7. Ended /\ Keyed
  <2>1. \A c \in Calls : row[c] = "none"
    BY <1>1
  <2>2. scene.keyed \subseteq Calls
    BY <1>1, ConstantsAssumption
  <2> QED BY <2>1, <2>2 DEF Ended, Keyed
<1> QED BY <1>3, <1>4, <1>5, <1>6, <1>7 DEF DeviceInv

\* The inductive invariant holds in every state of every behaviour.
THEOREM DeviceInvariant == Spec => []DeviceInv
<1>1. DeviceInv /\ [Next]_vars => DeviceInv'
  BY TypedStep, PostedStep, WorkedStep, AwaitedStep, CarriedStep, EndedStep,
     KeyedStep, ReachedStep DEF DeviceInv
<1> QED BY DeviceInit, <1>1, PTL DEF Spec

\* Every variable has the shape the code gives it, and a call of
\* DeviceCapabilityBroker.execute that returned, by whatever way, has left no
\* entry in _pending.
THEOREM TypeCorrect == Spec => []TypeOK
<1>1. DeviceInv => TypeOK
  <2> SUFFICES ASSUME DeviceInv PROVE TypeOK
    OBVIOUS
  <2>1. Typed /\ Carried /\ Awaited
    BY DEF DeviceInv
  <2>2. \A k \in Connections :
            /\ loop[k].pc \in LoopPcs
            /\ loop[k].pc \in {"store", "tell"} =>
                    loop[k].call \in Calls /\ loop[k].status \in Final
    BY <2>1 DEF Typed, LoopType, Carried
  <2>3. \A c \in Calls : execute[c].pc \in Returned => future[c] = "none"
    BY <2>1 DEF Awaited
  <2> QED BY <2>1, <2>2, <2>3 DEF TypeOK, Typed, CallType, LoopPcs, PlaceType,
             MessageType, Kinds, ResultType, JobType
<1> QED BY <1>1, DeviceInvariant, PTL

\* The terminal status of a row is what happened: completed only when the
\* Agent's job completed, failed when the job failed or the Agent was never
\* asked, cancelled and timed_out only when somebody asked or the time was up;
\* whatever _finalise, cancel, _mark_running, resolve_result, restarts and lost
\* connections do in between.
THEOREM EndsTrue == Spec => []EndsAreTrue
<1>1. DeviceInv => EndsAreTrue
  BY DEF DeviceInv, Ended, EndsAreTrue, Unwanted
<1> QED BY <1>1, DeviceInvariant, PTL

\* However many calls of execute share an idempotency key, and however they
\* interleave, the Agent starts work for one of them at most.
THEOREM OneRun == Spec => []OneRunPerKey
<1>1. DeviceInv => OneRunPerKey
  <2> SUFFICES ASSUME DeviceInv PROVE OneRunPerKey
    OBVIOUS
  <2> DEFINE S == {c \in scene.keyed : job[c].pc # "none"}
  <2>1. \A c, d \in S : c = d
    <3>1. scene.keyed \subseteq Calls
      BY ConstantsAssumption DEF DeviceInv, Typed
    <3>2. \A c \in S : row[c] # "none"
      BY <3>1 DEF DeviceInv, Worked
    <3> QED BY <3>2 DEF DeviceInv, Keyed
  <2>2. CASE S = {}
    BY <2>2, FS_EmptySet DEF OneRunPerKey
  <2>3. CASE S # {}
    <3>1. PICK c \in S : TRUE
      BY <2>3
    <3>2. S = {c}
      BY <2>1, <3>1
    <3>3. Cardinality(S) = 1
      BY <3>2, FS_Singleton
    <3> QED BY <3>3 DEF OneRunPerKey
  <2> QED BY <2>2, <2>3
<1> QED BY <1>1, DeviceInvariant, PTL

\* An Agent that was welcomed on a connection Core has not closed is the one
\* Core's registry sends to, or a close is on its way to it, whichever handler
\* of an older connection registers or unregisters late.
THEOREM WelcomedReachable == Spec => []WelcomedIsReachable
<1>1. DeviceInv => WelcomedIsReachable
  <2> SUFFICES ASSUME DeviceInv, at.welcomed, device = "active",
                      loop[at.on].pc # "closed"
               PROVE  \/ link = at.on
                      \/ \E i \in DOMAIN toAgent : toAgent[i].kind = "close"
    BY DEF WelcomedIsReachable
  <2>1. at # Nowhere /\ DOMAIN toAgent = 1..Len(toAgent)
    BY DEF Nowhere, DeviceInv, Typed
  <2> QED BY <2>1 DEF DeviceInv, Reached
<1> QED BY <1>1, DeviceInvariant, PTL
=============================================================================
