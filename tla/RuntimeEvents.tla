--------------------------- MODULE RuntimeEvents ---------------------------
(***************************************************************************)
(* The durable runtime events of Jace Core: producers that append a row    *)
(* and then fan it out (DurableRuntimeEventBus.publish), the stream of one *)
(* client (runtime_stream: subscribe, watermark, replay, live), and the    *)
(* client's persistent cursor with which it reconnects (runtime.ts).       *)
(*                                                                         *)
(* Between two awaits nothing interleaves: the locks of the bus are never  *)
(* held across an await, so publish() is two steps (the commit, and all    *)
(* that follows it), and subscribing and taking the watermark are one.     *)
(* A send and its receipt are one step: what is still under way when a     *)
(* WebSocket is lost was, for the client, never sent.                      *)
(***************************************************************************)
EXTENDS Integers, Sequences

CONSTANTS
    Producers,   \* coroutines that publish
    QueueSize,   \* of a subscriber, max(32, runtime_event_subscriber_queue)
    BatchLimit,  \* rows per replay query, runtime_event_replay_limit
    Serial,      \* the database numbers and commits rows in one order (SQLite)
    Listening,   \* there is something in the set that the client looks at
                 \* before it connects
    MaxEvents,   \* bounds: sequence numbers, ...
    MaxOutages,  \* ... events that could not be persisted, ...
    MaxDrops,    \* ... lost WebSockets, ...
    MaxRestarts  \* ... and restarts of Core

ASSUME ConstantsAssumption ==
    /\ QueueSize \in Nat \ {0} /\ BatchLimit \in Nat \ {0}
    /\ Serial \in BOOLEAN /\ Listening \in BOOLEAN
    /\ MaxEvents \in Nat /\ MaxOutages \in Nat
    /\ MaxDrops \in Nat /\ MaxRestarts \in Nat

VARIABLES
    numbered,   \* the last sequence the database has handed out
    written,    \* the rows ever committed, by sequence
    pruned,     \* retention has removed the rows up to here
    sequence,   \* _sequence, the durable sequence of the bus
    producer,   \* publish() in progress
    stream,     \* runtime_stream, the client's connection
    cursor,     \* latestDurableSequence of the client
    received,   \* history: the durable events the client was shown
    overflowed, \* history: events a full queue dropped
    budget      \* what the environment may still do

bus    == <<numbered, written, pruned, sequence, producer>>
client == <<cursor, received>>
vars   == <<bus, stream, client, overflowed, budget>>

Transient == 0   \* an event that was not persisted has no sequence

Ready  == [pc |-> "ready", n |-> 0]
Closed == [pc |-> "closed", after |-> 0, at |-> 0, watermark |-> 0,
           batch |-> <<>>, queue |-> <<>>]

Bigger(m, n)  == IF m < n THEN n ELSE m
Rows          == {n \in written : n > pruned}
Latest(s)     == IF s = {} THEN 0 ELSE CHOOSE n \in s : \A m \in s : m <= n
Elements(s)   == {s[i] : i \in 1..Len(s)}

Init ==
    /\ numbered = 0 /\ written = {} /\ pruned = 0 /\ sequence = 0
    /\ producer = [p \in Producers |-> Ready]
    /\ stream = Closed
    /\ cursor = 0 /\ received = <<>> /\ overflowed = {}
    /\ budget = [outages |-> MaxOutages, drops |-> MaxDrops,
                 restarts |-> MaxRestarts]

-----------------------------------------------------------------------------
(* publish()                                                               *)

\* append_runtime_event: the INSERT takes the next sequence.  SQLite holds its
\* write lock from here to the commit; PostgreSQL does not.
Insert(p) ==
    /\ producer[p].pc = "ready"
    /\ numbered < MaxEvents
    /\ Serial => \A q \in Producers : producer[q].pc # "inserted"
    /\ numbered' = numbered + 1
    /\ producer' = [producer EXCEPT ![p] = [pc |-> "inserted",
                                           n |-> numbered + 1]]
    /\ UNCHANGED <<written, pruned, sequence, stream, client, overflowed,
                   budget>>

Commit(p) ==
    /\ producer[p].pc = "inserted"
    /\ written' = written \cup {producer[p].n}
    /\ producer' = [producer EXCEPT ![p].pc = "written"]
    /\ UNCHANGED <<numbered, pruned, sequence, stream, client, overflowed,
                   budget>>

Subscribed == stream.pc \in {"replaying", "live"}

\* Into the queue of the subscriber; a full queue drops its oldest event.
FanOut(e) ==
    LET full == Len(stream.queue) = QueueSize
        room == IF full THEN Tail(stream.queue) ELSE stream.queue
    IN  IF Subscribed
        THEN /\ stream' = [stream EXCEPT !.queue = Append(room, e)]
             /\ overflowed' = IF full
                              THEN overflowed \cup {Head(stream.queue)}
                              ELSE overflowed
        ELSE UNCHANGED <<stream, overflowed>>

\* After the commit: raise the sequence of the bus and fan out.
Announce(p) ==
    /\ producer[p].pc = "written"
    /\ sequence' = Bigger(sequence, producer[p].n)
    /\ FanOut(producer[p].n)
    /\ producer' = [producer EXCEPT ![p] = Ready]
    /\ UNCHANGED <<numbered, written, pruned, client, budget>>

\* The row could not be written: the event is delivered as transient.
AnnounceTransient(p) ==
    /\ producer[p].pc \in {"ready", "inserted"}
    /\ budget.outages > 0
    /\ budget' = [budget EXCEPT !.outages = @ - 1]
    /\ FanOut(Transient)
    /\ producer' = [producer EXCEPT ![p] = Ready]
    /\ UNCHANGED <<numbered, written, pruned, sequence, client>>

-----------------------------------------------------------------------------
(* The client.                                                             *)

\* ensureRuntimeConnection: the URL carries the cursor of this moment.  A client
\* opens a stream when it likes, or never: the desktop's looks at a set that its
\* subscribers do not fill (Listening is FALSE there), others need not come back.
Connect ==
    /\ Listening
    /\ stream.pc = "closed"
    /\ stream' = [Closed EXCEPT !.pc = "opening", !.after = cursor]
    /\ UNCHANGED <<bus, client, overflowed, budget>>

\* The WebSocket is lost, or the window is closed; what is left is the cursor.
Drop ==
    /\ stream.pc # "closed"
    /\ budget.drops > 0
    /\ budget' = [budget EXCEPT !.drops = @ - 1]
    /\ stream' = Closed
    /\ UNCHANGED <<bus, client, overflowed>>

\* onmessage, emit: a durable event raises the cursor.
Show(n) ==
    /\ received' = Append(received, n)
    /\ cursor' = Bigger(cursor, n)

-----------------------------------------------------------------------------
(* runtime_stream                                                          *)

\* The queue is subscribed and the watermark taken without an await between.
Subscribe ==
    /\ stream.pc = "opening"
    /\ stream' = [stream EXCEPT !.pc = "replaying", !.at = stream.after,
                                !.watermark = sequence]
    /\ UNCHANGED <<bus, client, overflowed, budget>>

\* The rows the replay still has to send, and the pages of BatchLimit rows, in
\* ascending order, that a query for them returns.
Pending == {n \in Rows : n > stream.at /\ n <= stream.watermark}

Page(s) ==
    {b \in UNION {[1..k -> s] : k \in 1..BatchLimit} :
        /\ \A i, j \in DOMAIN b : i < j => b[i] < b[j]
        /\ \A n \in s \ Elements(b) : Len(b) = BatchLimit /\ b[Len(b)] < n}

\* Mutant: one query is taken for the whole replay.
ReplayOnce ==
    /\ stream.pc = "replaying" /\ stream.batch = <<>>
    /\ \/ /\ stream.at = stream.after
          /\ \E b \in Page(Pending) : stream' = [stream EXCEPT !.batch = b]
       \/ /\ stream.at # stream.after \/ Pending = {}
          /\ stream' = [stream EXCEPT !.pc = "live"]
    /\ UNCHANGED <<bus, client, overflowed, budget>>

\* One query of the replay loop; none is needed, or nothing is found: live.
Replay ==
    /\ stream.pc = "replaying" /\ stream.batch = <<>>
    /\ \/ \E b \in Page(Pending) : stream' = [stream EXCEPT !.batch = b]
       \/ Pending = {} /\ stream' = [stream EXCEPT !.pc = "live"]
    /\ UNCHANGED <<bus, client, overflowed, budget>>

SendReplayed ==
    /\ stream.pc = "replaying" /\ stream.batch # <<>>
    /\ Show(Head(stream.batch))
    /\ stream' = [stream EXCEPT
         !.batch = Tail(@),
         !.at = IF Len(stream.batch) = 1 THEN Head(stream.batch) ELSE @]
    /\ UNCHANGED <<bus, overflowed, budget>>

\* Mutant: live events are sent whatever the watermark covers.
NeverCovered(e) == FALSE

\* "Already delivered through replay."
Covered(e) == e # Transient /\ e <= stream.watermark

SendLive ==
    /\ stream.pc = "live" /\ stream.queue # <<>>
    /\ LET e == Head(stream.queue)
       IN  IF Covered(e) \/ e = Transient
           THEN UNCHANGED client
           ELSE Show(e)
    /\ stream' = [stream EXCEPT !.queue = Tail(@)]
    /\ UNCHANGED <<bus, overflowed, budget>>

-----------------------------------------------------------------------------
(* Core stops or dies and starts again.                                    *)

\* Mutant: initialize() does not look for the latest row.
NoSequence == 0

\* Mutant: it takes the sequence before the latest row's.
SequenceBefore == Latest({n \in written : n > pruned'}) - 1

\* initialize: rows past their retention are deleted, then the sequence is
\* that of the latest row left.
StoredSequence == Latest({n \in written : n > pruned'})

CoreRestart ==
    /\ budget.restarts > 0
    /\ budget' = [budget EXCEPT !.restarts = @ - 1]
    /\ \E k \in {pruned} \cup Rows : pruned' = k
    /\ sequence' = StoredSequence
    /\ producer' = [p \in Producers |-> Ready]
    /\ stream' = Closed
    /\ UNCHANGED <<numbered, written, client, overflowed>>

-----------------------------------------------------------------------------

Publish(p) == Commit(p) \/ Announce(p)

Serve == Subscribe \/ Replay \/ SendReplayed \/ SendLive

Next ==
    \/ \E p \in Producers : Insert(p) \/ Publish(p) \/ AnnounceTransient(p)
    \/ Connect \/ Drop \/ Serve \/ CoreRestart

Spec == Init /\ [][Next]_vars

\* What publish() has begun it ends and the stream's coroutine runs.  Nobody has
\* to publish, and no client has to connect, or to connect again.
Fairness ==
    /\ \A p \in Producers : WF_vars(Publish(p))
    /\ WF_vars(Serve)

FairSpec == Spec /\ Fairness

-----------------------------------------------------------------------------
(* What the ledger and the stream promise.                                 *)

ProducerType == [pc : {"ready", "inserted", "written"}, n : Nat]
StreamType == [pc : {"closed", "opening", "replaying", "live"}, after : Nat,
               at : Nat, watermark : Nat, batch : Seq(Nat), queue : Seq(Nat)]

\* Every variable has the shape the code gives it.
TypeOK ==
    /\ numbered \in Nat /\ written \subseteq Nat /\ pruned \in Nat
    /\ sequence \in Nat
    /\ producer \in [Producers -> ProducerType]
    /\ stream \in StreamType
    /\ cursor \in Nat /\ received \in Seq(Nat) /\ overflowed \subseteq Nat
    /\ budget \in [outages : Nat, drops : Nat, restarts : Nat]

\* Where a row still is on its way to the client of the open stream: in a
\* batch, ahead of the replay, in the queue past the watermark, or with a
\* producer that will announce it past the watermark.
OnItsWay(n) ==
    \/ n \in Elements(stream.batch)
    \/ stream.pc = "replaying" /\ n \in Pending
    \/ n > stream.watermark
       /\ \/ n \in Elements(stream.queue)
          \/ \E p \in Producers : producer[p] = [pc |-> "written", n |-> n]

\* Subscribe, watermark, replay, live: at the seam between the replay and the
\* queue no row is lost.  Every row after the cursor with which the client
\* connected has been shown, is on its way, or was dropped by a full queue.
NothingMissed ==
    Subscribed =>
        \A n \in Rows :
            n > stream.after =>
                \/ n \in Elements(received)
                \/ n \in overflowed
                \/ OnItsWay(n)

\* The abstract ledger is implemented: nothing uncommitted is shown, nothing
\* is shown twice, across replays, live delivery and reconnections.
Ledger == INSTANCE EventLog
ImplementsLog == Ledger!Spec

\* An open stream delivers: every committed row after the cursor with which the
\* client connected is shown in the end, unless a full queue dropped it,
\* retention removed it, or the stream was lost.
StreamDelivers ==
    \A n \in 1..MaxEvents :
        (n \in written /\ stream.pc # "closed" /\ n > stream.after) ~>
            \/ n \in Elements(received)
            \/ n \in overflowed
            \/ n <= pruned
            \/ stream.pc = "closed"
=============================================================================
