----------------------- MODULE RuntimeEvents_proofs -----------------------
(***************************************************************************)
(* Theorems of RuntimeEvents, for every set of producers, every queue and  *)
(* batch size, every order in which the database commits, and every bound  *)
(* on what the environment does.                                           *)
(***************************************************************************)
EXTENDS RuntimeEvents, NaturalsInduction, WellFoundedInduction, TLAPS

USE ConstantsAssumption

-----------------------------------------------------------------------------
(* The operators of the model.                                             *)

\* A bounded set of numbers that is not empty has a last element ...
LEMMA LastExists ==
    ASSUME NEW s \in SUBSET Nat, NEW k \in Nat, \A n \in s : n <= k, s # {}
    PROVE  \E n \in s : \A m \in s : m <= n
<1> DEFINE Bounds == {b \in Nat : \A n \in s : n <= b}
<1>2. s # {}
  OBVIOUS
<1>3. \E n \in s : \A m \in s : m <= n
  <2>1. PICK b \in Bounds : \A c \in Bounds : ~(<<c, b>> \in OpToRel(<, Nat))
    <3>1. Bounds \subseteq Nat /\ Bounds # {}
      OBVIOUS
    <3> HIDE DEF Bounds
    <3> QED BY <3>1, WFMin, NatLessThanWellFounded, Zenon
  <2>2. \A c \in Bounds : ~(c < b)
    BY <2>1 DEF OpToRel
  <2>3. b \in s
    <3> SUFFICES ASSUME b \notin s PROVE FALSE
      OBVIOUS
    <3>1. PICK n \in s : TRUE
      BY <1>2
    <3>2. \A m \in s : m <= b /\ m # b
      OBVIOUS
    <3>3. b - 1 \in Bounds
      BY <3>1, <3>2
    <3> QED BY <2>2, <3>3
  <2> QED BY <2>3
<1> QED BY <1>3

\* ... which Latest returns: it is a natural number in any case ...
LEMMA LatestIsNatural ==
    ASSUME NEW s \in SUBSET Nat, NEW k \in Nat, \A n \in s : n <= k
    PROVE  Latest(s) \in Nat
  BY LastExists DEF Latest

\* ... and it is the last of them.
LEMMA LatestIsLast ==
    ASSUME NEW s \in SUBSET Nat, NEW k \in Nat, \A n \in s : n <= k
    PROVE  Latest(s) <= k /\ \A n \in s : n <= Latest(s)
<1>1. CASE s = {}
  BY <1>1 DEF Latest
<1>2. CASE s # {}
  <2>1. \E n \in s : \A m \in s : m <= n
    BY <1>2, LastExists
  <2>2. Latest(s) = CHOOSE n \in s : \A m \in s : m <= n
    BY <1>2 DEF Latest
  <2>3. Latest(s) \in s /\ \A m \in s : m <= Latest(s)
    BY <2>1, <2>2
  <2> QED BY <2>3
<1> QED BY <1>1, <1>2

\* What a queue holds after its head has been taken or an element appended.
LEMMA QueueElements ==
    ASSUME NEW q \in Seq(Nat), NEW e \in Nat
    PROVE  /\ Elements(Append(q, e)) = Elements(q) \cup {e}
           /\ q # <<>> => /\ Tail(q) \in Seq(Nat)
                          /\ Head(q) \in Elements(q)
                          /\ Elements(q) = Elements(Tail(q)) \cup {Head(q)}
<1>1. Elements(Append(q, e)) = Elements(q) \cup {e}
  <2>1. Elements(q) \cup {e} \subseteq Elements(Append(q, e))
    <3>1. /\ Len(q) \in Nat /\ Len(Append(q, e)) = Len(q) + 1
          /\ Append(q, e)[Len(q) + 1] = e
          /\ \A i \in 1..Len(q) : Append(q, e)[i] = q[i]
      OBVIOUS
    <3>2. e \in Elements(Append(q, e))
      BY <3>1 DEF Elements
    <3>3. \A i \in 1..Len(q) : i \in 1..Len(Append(q, e))
      BY <3>1
    <3>4. Elements(q) \subseteq Elements(Append(q, e))
      BY <3>1, <3>3 DEF Elements
    <3> QED BY <3>2, <3>4
  <2>2. Elements(Append(q, e)) \subseteq Elements(q) \cup {e}
    BY DEF Elements
  <2> QED BY <2>1, <2>2
<1>2. ASSUME q # <<>>
      PROVE  /\ Tail(q) \in Seq(Nat)
             /\ Head(q) \in Elements(q)
             /\ Elements(q) = Elements(Tail(q)) \cup {Head(q)}
  <2>1. /\ Tail(q) \in Seq(Nat) /\ Len(q) \in Nat \ {0}
        /\ Len(Tail(q)) = Len(q) - 1
        /\ \A i \in 1..Len(q) - 1 : Tail(q)[i] = q[i + 1]
        /\ Head(q) = q[1]
    BY <1>2
  <2>2. Elements(Tail(q)) \subseteq Elements(q)
    BY <2>1 DEF Elements
  <2>3. Head(q) \in Elements(q)
    BY <2>1 DEF Elements
  <2>4. ASSUME NEW i \in 1..Len(q)
        PROVE  q[i] \in Elements(Tail(q)) \cup {Head(q)}
    <3>1. CASE i = 1
      BY <2>1, <3>1
    <3>2. CASE i # 1
      <4>1. i - 1 \in 1..Len(Tail(q)) /\ Tail(q)[i - 1] = q[i]
        BY <2>1, <3>2
      <4> QED BY <4>1 DEF Elements
    <3> QED BY <3>1, <3>2
  <2>5. Elements(q) \subseteq Elements(Tail(q)) \cup {Head(q)}
    BY <2>4 DEF Elements
  <2> QED BY <2>1, <2>2, <2>3, <2>5
<1> QED BY <1>1, <1>2

\* A page of a replay is a strictly increasing sequence of the rows asked for.
LEMMA PageRows ==
    ASSUME NEW s \in SUBSET Nat, NEW b \in Page(s)
    PROVE  /\ b \in Seq(Nat) /\ b # <<>>
           /\ Elements(b) \subseteq s
           /\ \A i, j \in 1..Len(b) : i < j => b[i] < b[j]
<1>1. PICK k \in 1..BatchLimit : b \in [1..k -> s]
  BY DEF Page
<1>2. b \in Seq(s) /\ Len(b) = k /\ DOMAIN b = 1..k
  BY <1>1
<1>3. \A i, j \in 1..Len(b) : i < j => b[i] < b[j]
  BY <1>2 DEF Page
<1>4. b \in Seq(Nat) /\ b # <<>>
  <2>1. b \in [1..k -> Nat] /\ k \in Nat
    <3>1. k \in Nat
      OBVIOUS
    <3>2. [1..k -> s] \subseteq [1..k -> Nat]
      OBVIOUS
    <3> QED BY <1>1, <3>1, <3>2
  <2>2. b # <<>>
    BY <1>2
  <2> QED BY <2>1, <2>2
<1>5. Elements(b) \subseteq s
  BY <1>1, <1>2, Zenon DEF Elements
<1> QED BY <1>3, <1>4, <1>5

-----------------------------------------------------------------------------
(* Type correctness.                                                       *)

\* Numbers are handed out once, to a producer that then writes its row or
\* gives it up; nobody else ever has it.
Numbering ==
    /\ written \subseteq 1..numbered
    /\ \A p \in Producers :
        producer[p].pc # "ready" =>
            /\ producer[p].n \in 1..numbered
            /\ producer[p].n \in written <=> producer[p].pc = "written"
            /\ \A q \in Producers \ {p} :
                producer[q].pc # "ready" => producer[q].n # producer[p].n

Typed == TypeOK /\ Numbering

\* Fan-out keeps the stream and the history of overflows well typed.
LEMMA FanOutType ==
    ASSUME TypeOK, NEW e \in Nat, FanOut(e)
    PROVE  stream' \in StreamType /\ overflowed' \subseteq Nat
<1>1. CASE Subscribed
  <2> DEFINE full == Len(stream.queue) = QueueSize
             room == IF full THEN Tail(stream.queue) ELSE stream.queue
  <2>1. stream.queue \in Seq(Nat)
    BY DEF TypeOK, StreamType
  <2>2. full => stream.queue # <<>>
    BY <2>1
  <2>3. room \in Seq(Nat) /\ (full => Head(stream.queue) \in Nat)
    BY <2>1, <2>2
  <2>4. /\ stream' = [stream EXCEPT !.queue = Append(room, e)]
        /\ overflowed' = IF full
                         THEN overflowed \cup {Head(stream.queue)}
                         ELSE overflowed
    BY <1>1 DEF FanOut
  <2>5. Append(room, e) \in Seq(Nat)
    BY <2>3
  <2> HIDE DEF full, room
  <2> QED BY <2>3, <2>4, <2>5 DEF TypeOK, StreamType
<1>2. CASE ~Subscribed
  BY <1>2 DEF FanOut, TypeOK
<1> QED BY <1>1, <1>2

\* The fields of the stream have their types, and so do the parts of the two
\* sequences.
LEMMA StreamFields ==
    ASSUME stream \in StreamType
    PROVE  /\ stream.after \in Nat /\ stream.at \in Nat
           /\ stream.watermark \in Nat
           /\ stream.batch \in Seq(Nat) /\ stream.queue \in Seq(Nat)
           /\ stream.batch # <<>> =>
                /\ Head(stream.batch) \in Nat
                /\ Tail(stream.batch) \in Seq(Nat)
           /\ stream.queue # <<>> =>
                /\ Head(stream.queue) \in Nat
                /\ Tail(stream.queue) \in Seq(Nat)
<1>1. /\ stream.after \in Nat /\ stream.at \in Nat
      /\ stream.watermark \in Nat
      /\ stream.batch \in Seq(Nat) /\ stream.queue \in Seq(Nat)
  BY DEF StreamType
<1> QED BY <1>1

\* What the client keeps of an event it is shown.
LEMMA ShowType ==
    ASSUME received \in Seq(Nat), cursor \in Nat, NEW n \in Nat, Show(n)
    PROVE  received' \in Seq(Nat) /\ cursor' \in Nat
  BY DEF Show, Bigger

\* What the environment may still do stays a natural number.
LEMMA BudgetType ==
    ASSUME budget \in [outages : Nat, drops : Nat, restarts : Nat],
           \/ budget.outages > 0 /\ budget' = [budget EXCEPT !.outages = @ - 1]
           \/ budget.drops > 0 /\ budget' = [budget EXCEPT !.drops = @ - 1]
           \/ budget.restarts > 0
              /\ budget' = [budget EXCEPT !.restarts = @ - 1]
    PROVE  budget' \in [outages : Nat, drops : Nat, restarts : Nat]
<1> DEFINE o == budget.outages - 1
           d == budget.drops - 1
           r == budget.restarts - 1
<1>1. /\ budget.outages > 0 => o \in Nat
      /\ budget.drops > 0 => d \in Nat
      /\ budget.restarts > 0 => r \in Nat
  OBVIOUS
<1>2. \/ budget.outages > 0 /\ budget' = [budget EXCEPT !.outages = o]
      \/ budget.drops > 0 /\ budget' = [budget EXCEPT !.drops = d]
      \/ budget.restarts > 0 /\ budget' = [budget EXCEPT !.restarts = r]
  OBVIOUS
<1> HIDE DEF o, d, r
<1> QED BY <1>1, <1>2

\* Steps of the stream alone leave the numbers as they are.
LEMMA NumberingKept ==
    ASSUME Numbering, UNCHANGED <<numbered, written, producer>>
    PROVE  Numbering'
  BY DEF Numbering

\* Types and numbers, along the steps of publish() and runtime_stream.
LEMMA TypedAlways == Spec => []Typed
<1>1. Init => Typed
  BY DEF Init, Typed, TypeOK, Numbering, Ready, Closed, ProducerType,
         StreamType
<1>2. Typed /\ [Next]_vars => Typed'
  <2> SUFFICES ASSUME Typed, [Next]_vars PROVE Typed'
    OBVIOUS
  <2> USE DEF Typed
  <2>1. ASSUME NEW p \in Producers, Insert(p) PROVE Typed'
    <3>1. TypeOK'
      BY <2>1 DEF Insert, TypeOK, ProducerType, StreamType, client
    <3>2. Numbering'
      BY <2>1 DEF Insert, TypeOK, ProducerType, Numbering
    <3> QED BY <3>1, <3>2
  <2>2. ASSUME NEW p \in Producers, Commit(p) PROVE Typed'
    <3>1. TypeOK'
      BY <2>2 DEF Commit, TypeOK, ProducerType, StreamType, client
    <3>2. Numbering'
      BY <2>2 DEF Commit, TypeOK, ProducerType, Numbering
    <3> QED BY <3>1, <3>2
  <2>3. ASSUME NEW p \in Producers, Announce(p) PROVE Typed'
    <3>1. producer[p].n \in Nat
      BY DEF TypeOK, ProducerType
    <3>2. stream' \in StreamType /\ overflowed' \subseteq Nat
      BY <2>3, <3>1, FanOutType DEF Announce
    <3>3. TypeOK'
      BY <2>3, <3>1, <3>2
      DEF Announce, TypeOK, ProducerType, Ready, Bigger, client
    <3>4. Numbering'
      BY <2>3 DEF Announce, TypeOK, ProducerType, Ready, Numbering
    <3> QED BY <3>3, <3>4
  <2>4. ASSUME NEW p \in Producers, AnnounceTransient(p) PROVE Typed'
    <3>1. stream' \in StreamType /\ overflowed' \subseteq Nat
      BY <2>4, FanOutType DEF AnnounceTransient, Transient
    <3>2. TypeOK'
      <4>1. producer' \in [Producers -> ProducerType]
        BY <2>4 DEF AnnounceTransient, TypeOK, ProducerType, Ready
      <4>2. budget' \in [outages : Nat, drops : Nat, restarts : Nat]
        BY <2>4, BudgetType DEF AnnounceTransient, TypeOK
      <4> QED BY <2>4, <3>1, <4>1, <4>2 DEF AnnounceTransient, TypeOK, client
    <3>3. Numbering'
      BY <2>4 DEF AnnounceTransient, TypeOK, ProducerType, Ready, Numbering
    <3> QED BY <3>2, <3>3
  <2>5. CASE Connect
    <3>1. stream' \in StreamType
      <4>1. stream' = [pc |-> "opening", after |-> cursor, at |-> 0,
                       watermark |-> 0, batch |-> <<>>, queue |-> <<>>]
        BY <2>5 DEF Connect, Closed
      <4> QED BY <4>1 DEF TypeOK, StreamType
    <3> QED BY <2>5, <3>1, NumberingKept DEF Connect, TypeOK, bus, client
  <2>6. CASE Drop
    <3>1. budget' \in [outages : Nat, drops : Nat, restarts : Nat]
      BY <2>6, BudgetType DEF Drop, TypeOK
    <3>2. stream' \in StreamType
      BY <2>6 DEF Drop, StreamType, Closed
    <3> QED BY <2>6, <3>1, <3>2, NumberingKept DEF Drop, TypeOK, bus, client
  <2>7. CASE Subscribe
    <3>1. stream' \in StreamType
      BY <2>7 DEF Subscribe, TypeOK, StreamType
    <3> QED BY <2>7, <3>1, NumberingKept DEF Subscribe, TypeOK, bus, client
  <2>8. CASE Replay
    <3>1. Pending \in SUBSET Nat
      BY DEF Pending, Rows, TypeOK
    <3>2. stream' \in StreamType
      <4>1. ASSUME NEW b \in Page(Pending),
                   stream' = [stream EXCEPT !.batch = b]
            PROVE  stream' \in StreamType
        <5>1. b \in Seq(Nat)
          BY <3>1, PageRows
        <5> QED BY <4>1, <5>1 DEF TypeOK, StreamType
      <4>2. CASE stream' = [stream EXCEPT !.pc = "live"]
        BY <4>2 DEF TypeOK, StreamType
      <4> QED BY <2>8, <4>1, <4>2 DEF Replay
    <3> QED BY <2>8, <3>2, NumberingKept DEF Replay, TypeOK, bus, client
  <2>9. CASE SendReplayed
    <3>1. /\ stream.batch \in Seq(Nat) /\ Head(stream.batch) \in Nat
          /\ Tail(stream.batch) \in Seq(Nat)
      BY <2>9, StreamFields DEF SendReplayed, TypeOK
    <3>2. received' \in Seq(Nat) /\ cursor' \in Nat
      BY <2>9, <3>1, ShowType DEF SendReplayed, TypeOK
    <3>3. stream' \in StreamType
      BY <2>9, <3>1 DEF SendReplayed, TypeOK, StreamType
    <3> QED BY <2>9, <3>2, <3>3, NumberingKept DEF SendReplayed, TypeOK, bus
  <2>10. CASE SendLive
    <3>1. Head(stream.queue) \in Nat /\ Tail(stream.queue) \in Seq(Nat)
      BY <2>10, StreamFields DEF SendLive, TypeOK
    <3>2. received' \in Seq(Nat) /\ cursor' \in Nat
      <4>1. UNCHANGED client \/ Show(Head(stream.queue))
        BY <2>10 DEF SendLive
      <4>2. UNCHANGED client => received' \in Seq(Nat) /\ cursor' \in Nat
        BY DEF client, TypeOK
      <4> QED BY <3>1, <4>1, <4>2, ShowType DEF TypeOK
    <3>3. stream' \in StreamType
      BY <2>10, <3>1 DEF SendLive, TypeOK, StreamType
    <3> QED BY <2>10, <3>2, <3>3, NumberingKept DEF SendLive, TypeOK, bus
  <2>11. CASE CoreRestart
    <3>1. StoredSequence \in Nat
      <4>1. {n \in written : n > pruned'} \in SUBSET Nat
        BY DEF TypeOK
      <4>2. \A n \in {m \in written : m > pruned'} : n <= numbered
        BY DEF TypeOK, Numbering
      <4> QED BY <4>1, <4>2, LatestIsNatural DEF StoredSequence, TypeOK
    <3>2. pruned' \in Nat
      BY <2>11 DEF CoreRestart, Rows, TypeOK
    <3>3. stream' \in StreamType
      BY <2>11 DEF CoreRestart, Closed, StreamType
    <3>4. producer' \in [Producers -> ProducerType]
      BY <2>11 DEF CoreRestart, ProducerType, Ready
    <3>5. budget' \in [outages : Nat, drops : Nat, restarts : Nat]
      BY <2>11, BudgetType DEF CoreRestart, TypeOK
    <3>6. TypeOK'
      BY <2>11, <3>1, <3>2, <3>3, <3>4, <3>5 DEF CoreRestart, TypeOK, client
    <3>7. Numbering'
      BY <2>11 DEF CoreRestart, Ready, Numbering
    <3> QED BY <3>6, <3>7
  <2>12. CASE UNCHANGED vars
    BY <2>12 DEF vars, bus, client, TypeOK, Numbering
  <2> QED BY <2>1, <2>2, <2>3, <2>4, <2>5, <2>6, <2>7, <2>8, <2>9, <2>10,
             <2>11, <2>12 DEF Next, Publish, Serve
<1> QED BY <1>1, <1>2, PTL DEF Spec

\* Every variable always has the type that DurableRuntimeEventBus.publish,
\* runtime_stream and the client give it.
THEOREM TypeCorrect == Spec => []TypeOK
<1>1. Typed => TypeOK
  BY DEF Typed
<1> QED BY <1>1, TypedAlways, PTL

-----------------------------------------------------------------------------
(* The stream implements the abstract ledger.                              *)

Busy(p) == producer[p].pc # "ready"

\* No durable event is twice in a queue.
Distinct(q) ==
    \A i, j \in 1..Len(q) : i < j => q[i] # q[j] \/ q[i] = Transient

Increasing(b) == \A i, j \in 1..Len(b) : i < j => b[i] < b[j]

\* The client has been shown rows only, and its cursor is past them.
ShownAreWritten ==
    \A n \in Elements(received) : n \in written /\ n <= cursor

\* A number that will still be announced has not been shown, unless the replay
\* has sent its row: then the watermark, and the sequence of the bus, cover it.
BusyNotShown ==
    \A p \in Producers :
        /\ Busy(p) /\ producer[p].n > sequence =>
               producer[p].n \notin Elements(received)
        /\ Subscribed /\ Busy(p) /\ producer[p].n > stream.watermark =>
               producer[p].n \notin Elements(received)

\* What the queue holds past the watermark the client has not seen, and nobody
\* will announce it again.
QueueIsNews ==
    /\ ~Subscribed => stream.queue = <<>>
    /\ Distinct(stream.queue)
    /\ \A e \in Elements(stream.queue) :
        e # Transient =>
            /\ e \in written
            /\ \A p \in Producers : Busy(p) => producer[p].n # e
            /\ e > stream.watermark => e \notin Elements(received)

\* What the replay holds lies between the cursor and the watermark.
BatchIsAhead ==
    /\ stream.pc = "opening" => stream.after = cursor
    /\ stream.pc = "replaying" /\ stream.batch = <<>> => stream.at = cursor
    /\ stream.pc # "replaying" => stream.batch = <<>>
    /\ Increasing(stream.batch)
    /\ \A n \in Elements(stream.batch) :
        n \in written /\ n > cursor /\ n <= stream.watermark

Delivery ==
    /\ Subscribed => stream.watermark <= sequence
    /\ ShownAreWritten /\ BusyNotShown /\ QueueIsNews /\ BatchIsAhead

\* A queue stays free of duplicates when its head leaves, and when an event
\* arrives that it does not hold.
LEMMA DistinctQueue ==
    ASSUME NEW q \in Seq(Nat), NEW e \in Nat, Distinct(q)
    PROVE  /\ e = Transient \/ e \notin Elements(q) => Distinct(Append(q, e))
           /\ q # <<>> => /\ Distinct(Tail(q))
                          /\ \/ Head(q) = Transient
                             \/ Head(q) \notin Elements(Tail(q))
<1>1. ASSUME e = Transient \/ e \notin Elements(q)
      PROVE  Distinct(Append(q, e))
  <2>1. /\ Len(q) \in Nat /\ Len(Append(q, e)) = Len(q) + 1
        /\ Append(q, e)[Len(q) + 1] = e
        /\ \A i \in 1..Len(q) : Append(q, e)[i] = q[i]
    OBVIOUS
  <2>2. \A i \in 1..Len(q) : q[i] # e \/ q[i] = Transient
    BY <1>1 DEF Elements
  <2>3. ASSUME NEW i \in 1..Len(q) + 1, NEW j \in 1..Len(q) + 1, i < j
        PROVE  Append(q, e)[i] # Append(q, e)[j] \/ Append(q, e)[i] = Transient
    <3>1. i \in 1..Len(q) /\ (j \in 1..Len(q) \/ j = Len(q) + 1)
      BY <2>1, <2>3
    <3> QED BY <2>1, <2>2, <2>3, <3>1 DEF Distinct
  <2> QED BY <2>1, <2>3 DEF Distinct
<1>2. ASSUME q # <<>>
      PROVE  /\ Distinct(Tail(q))
             /\ Head(q) = Transient \/ Head(q) \notin Elements(Tail(q))
  <2>1. /\ Len(q) \in Nat \ {0} /\ Len(Tail(q)) = Len(q) - 1
        /\ \A i \in 1..Len(q) - 1 : Tail(q)[i] = q[i + 1]
        /\ Head(q) = q[1]
    BY <1>2
  <2>2. \A i \in 1..Len(q) - 1 : i + 1 \in 1..Len(q) /\ 1 < i + 1
    BY <2>1
  <2>3. Distinct(Tail(q))
    BY <2>1, <2>2 DEF Distinct
  <2>4. \A i \in 1..Len(q) - 1 : q[1] # q[i + 1] \/ q[1] = Transient
    BY <2>1, <2>2 DEF Distinct
  <2> QED BY <2>1, <2>3, <2>4 DEF Elements
<1> QED BY <1>1, <1>2

\* What is left of an increasing batch lies above what was taken from it.
LEMMA IncreasingBatch ==
    ASSUME NEW b \in Seq(Nat), b # <<>>, Increasing(b)
    PROVE  /\ Increasing(Tail(b))
           /\ \A n \in Elements(Tail(b)) : Head(b) < n
           /\ Tail(b) = <<>> <=> Len(b) = 1
<1>1. /\ Len(b) \in Nat \ {0} /\ Len(Tail(b)) = Len(b) - 1
      /\ \A i \in 1..Len(b) - 1 : Tail(b)[i] = b[i + 1]
      /\ Head(b) = b[1] /\ Tail(b) \in Seq(Nat)
  OBVIOUS
<1>2. \A i \in 1..Len(b) - 1 : i + 1 \in 1..Len(b) /\ 1 < i + 1
  BY <1>1
<1>3. Increasing(Tail(b))
  BY <1>1, <1>2 DEF Increasing
<1>4. \A i \in 1..Len(b) - 1 : b[1] < b[i + 1]
  BY <1>1, <1>2 DEF Increasing
<1>5. \A n \in Elements(Tail(b)) : Head(b) < n
  BY <1>1, <1>4 DEF Elements
<1> QED BY <1>1, <1>3, <1>5, SMTT(30)

\* A number handed out or a row committed changes nothing for the client.
LEMMA WritingKeepsDelivery ==
    ASSUME Typed, Delivery, NEW p \in Producers, Insert(p) \/ Commit(p)
    PROVE  Delivery'
<1> USE DEF Typed
<1>1. /\ UNCHANGED <<stream, sequence, received, cursor>>
      /\ written \subseteq written'
  BY DEF Insert, Commit, client
<1>2. ShownAreWritten' /\ BatchIsAhead'
  BY <1>1 DEF Delivery, ShownAreWritten, BatchIsAhead
<1>3. CASE Insert(p)
  <2>1. /\ producer' = [producer EXCEPT ![p] = [pc |-> "inserted",
                                              n |-> numbered + 1]]
        /\ written' = written /\ numbered \in Nat
    BY <1>3 DEF Insert, TypeOK
  <2>2. /\ producer'[p].n = numbered + 1
        /\ \A q \in Producers \ {p} : producer'[q] = producer[q]
    BY <2>1 DEF TypeOK
  <2>3. numbered + 1 \notin written
    BY <2>1 DEF Numbering
  <2>4. BusyNotShown'
    BY <1>1, <2>2, <2>3
    DEF Delivery, BusyNotShown, ShownAreWritten, Busy, Subscribed
  <2>5. QueueIsNews'
    BY <1>1, <2>1, <2>2, <2>3
    DEF Delivery, QueueIsNews, Busy, Subscribed, Transient
  <2> QED BY <1>1, <1>2, <2>4, <2>5 DEF Delivery, Subscribed
<1>4. CASE Commit(p)
  <2>1. \A q \in Producers : /\ producer'[q].n = producer[q].n
                             /\ Busy(q)' <=> Busy(q)
    BY <1>4 DEF Commit, TypeOK, ProducerType, Busy
  <2>2. BusyNotShown'
    BY <1>1, <2>1 DEF Delivery, BusyNotShown, Subscribed
  <2>3. QueueIsNews'
    BY <1>1, <2>1 DEF Delivery, QueueIsNews, Subscribed
  <2> QED BY <1>1, <1>2, <2>2, <2>3 DEF Delivery, Subscribed
<1> QED BY <1>3, <1>4

\* Fanning an event out, when it is news to the queue and no producer holds
\* its number any more.
LEMMA FanOutKeepsDelivery ==
    ASSUME Typed, Delivery, NEW e \in Nat, FanOut(e),
           e # Transient =>
               /\ e \in written /\ e \notin Elements(stream.queue)
               /\ Subscribed /\ e > stream.watermark =>
                      e \notin Elements(received),
           \A q \in Producers : Busy(q)' => /\ Busy(q)
                                            /\ producer'[q] = producer[q]
                                            /\ e # producer[q].n,
           UNCHANGED <<written, received, cursor>>,
           sequence' \in Nat, sequence <= sequence'
    PROVE  Delivery'
<1> USE DEF Typed
<1> DEFINE full == Len(stream.queue) = QueueSize
           room == IF full THEN Tail(stream.queue) ELSE stream.queue
<1>1. /\ stream.queue \in Seq(Nat) /\ stream.watermark \in Nat
      /\ sequence \in Nat
  BY StreamFields DEF TypeOK
<1>2. /\ room \in Seq(Nat) /\ Distinct(room)
      /\ Elements(room) \subseteq Elements(stream.queue)
  <2>1. full => stream.queue # <<>>
    BY <1>1
  <2>2. ASSUME full
        PROVE  /\ Tail(stream.queue) \in Seq(Nat)
               /\ Distinct(Tail(stream.queue))
               /\ Elements(Tail(stream.queue)) \subseteq Elements(stream.queue)
    <3>1. stream.queue # <<>>
      BY <2>1, <2>2
    <3> QED BY <1>1, <3>1, QueueElements, DistinctQueue
            DEF Delivery, QueueIsNews
  <2> HIDE DEF full
  <2> QED BY <1>1, <2>2 DEF Delivery, QueueIsNews
<1>3. /\ stream'.pc = stream.pc /\ stream'.watermark = stream.watermark
      /\ stream'.after = stream.after /\ stream'.at = stream.at
      /\ stream'.batch = stream.batch
      /\ stream'.queue = IF Subscribed THEN Append(room, e) ELSE stream.queue
  BY DEF FanOut, TypeOK, StreamType
<1> HIDE DEF full, room
<1>4. Subscribed' = Subscribed
  BY <1>3 DEF Subscribed
<1>5. ShownAreWritten' /\ BatchIsAhead'
  BY <1>3 DEF Delivery, ShownAreWritten, BatchIsAhead
<1>6. BusyNotShown'
  <2>1. \A q \in Producers : producer[q].n \in Nat
    BY DEF TypeOK, ProducerType
  <2> QED BY <1>1, <1>3, <1>4, <2>1 DEF Delivery, BusyNotShown
<1>7. QueueIsNews'
  <2>1. CASE ~Subscribed
    BY <1>3, <1>4, <2>1 DEF Delivery, QueueIsNews, Distinct, Elements
  <2>2. CASE Subscribed
    <3>1. /\ stream'.queue = Append(room, e)
          /\ Elements(stream'.queue) = Elements(room) \cup {e}
          /\ Distinct(stream'.queue)
      BY <1>2, <1>3, <2>2, QueueElements, DistinctQueue
    <3> QED BY <1>2, <1>3, <1>4, <2>2, <3>1 DEF Delivery, QueueIsNews
  <2> QED BY <2>1, <2>2
<1> QED BY <1>1, <1>3, <1>4, <1>5, <1>6, <1>7 DEF Delivery

\* A stream that is opened, lost, or gone with Core holds nothing.
LEMMA OpeningKeepsDelivery ==
    ASSUME Typed, Delivery, Connect \/ Drop \/ CoreRestart
    PROVE  Delivery'
<1> USE DEF Typed
<1>1. /\ UNCHANGED <<written, received, cursor>>
      /\ stream'.pc \in {"closed", "opening"}
      /\ stream'.pc = "opening" => stream'.after = cursor
      /\ stream'.queue = <<>> /\ stream'.batch = <<>>
  <2>1. CASE Connect
    <3>1. stream' = [pc |-> "opening", after |-> cursor, at |-> 0,
                     watermark |-> 0, batch |-> <<>>, queue |-> <<>>]
      BY <2>1 DEF Connect, Closed
    <3>2. UNCHANGED <<written, received, cursor>>
      BY <2>1 DEF Connect, bus, client
    <3> QED BY <3>1, <3>2
  <2>2. CASE Drop \/ CoreRestart
    BY <2>2 DEF Drop, CoreRestart, Closed, bus, client
  <2> QED BY <2>1, <2>2
<1>2. /\ ~Subscribed'
      /\ Elements(stream'.queue) = {} /\ Elements(stream'.batch) = {}
      /\ Distinct(stream'.queue) /\ Increasing(stream'.batch)
  BY <1>1 DEF Subscribed, Elements, Distinct, Increasing
<1>3. ShownAreWritten' /\ BatchIsAhead' /\ QueueIsNews'
  BY <1>1, <1>2 DEF Delivery, ShownAreWritten, BatchIsAhead, QueueIsNews
<1>4. BusyNotShown'
  <2>1. CASE Connect \/ Drop
    BY <1>1, <1>2, <2>1
    DEF Connect, Drop, bus, Delivery, BusyNotShown, Busy
  <2>2. CASE CoreRestart
    BY <1>2, <2>2 DEF CoreRestart, Ready, BusyNotShown, Busy
  <2> QED BY <2>1, <2>2
<1> QED BY <1>2, <1>3, <1>4 DEF Delivery

\* Subscribing: the queue is empty and the watermark is the sequence.
LEMMA SubscribeKeepsDelivery ==
    ASSUME Typed, Delivery, Subscribe
    PROVE  Delivery'
<1> USE DEF Typed
<1>1. /\ UNCHANGED <<bus, client>> /\ stream.pc = "opening"
      /\ stream'.pc = "replaying" /\ stream'.at = stream.after
      /\ stream'.watermark = sequence
      /\ stream'.batch = stream.batch /\ stream'.queue = stream.queue
  BY DEF Subscribe, TypeOK, StreamType
<1>2. /\ sequence \in Nat /\ sequence' = sequence /\ cursor' = cursor
      /\ received' = received /\ written' = written /\ producer' = producer
  BY <1>1 DEF bus, client, TypeOK
<1>3. stream.queue = <<>> /\ stream.batch = <<>> /\ stream.after = cursor
  BY <1>1 DEF Delivery, QueueIsNews, BatchIsAhead, Subscribed
<1>4. /\ Elements(stream'.queue) = {} /\ Elements(stream'.batch) = {}
      /\ Distinct(stream'.queue) /\ Increasing(stream'.batch)
  BY <1>1, <1>3 DEF Elements, Distinct, Increasing
<1>5. ShownAreWritten' /\ BatchIsAhead' /\ QueueIsNews'
  BY <1>1, <1>2, <1>3, <1>4
  DEF Delivery, ShownAreWritten, BatchIsAhead, QueueIsNews
<1>6. BusyNotShown'
  BY <1>1, <1>2 DEF Delivery, BusyNotShown, Busy, Subscribed
<1> QED BY <1>1, <1>2, <1>5, <1>6 DEF Delivery

\* One query of the replay loop.
LEMMA ReplayKeepsDelivery ==
    ASSUME Typed, Delivery, Replay
    PROVE  Delivery'
<1> USE DEF Typed
<1>1. /\ UNCHANGED <<bus, client>> /\ stream.pc = "replaying"
      /\ stream.batch = <<>> /\ stream.at = cursor
      /\ stream'.watermark = stream.watermark /\ stream'.at = stream.at
      /\ stream'.queue = stream.queue
  BY DEF Replay, TypeOK, StreamType, Delivery, BatchIsAhead
<1>2. /\ sequence' = sequence /\ cursor' = cursor
      /\ received' = received /\ written' = written /\ producer' = producer
  BY <1>1 DEF bus, client
<1> DEFINE Fetched == /\ stream'.pc \in {"replaying", "live"}
                      /\ stream'.batch = <<>> <=> stream'.pc = "live"
                      /\ Increasing(stream'.batch)
                      /\ Elements(stream'.batch) \subseteq Pending
<1>3. Fetched
  <2>1. ASSUME NEW b \in Page(Pending),
               stream' = [stream EXCEPT !.batch = b]
        PROVE  Fetched
    <3>1. Pending \in SUBSET Nat
      BY DEF Pending, Rows, TypeOK
    <3>2. b # <<>> /\ Elements(b) \subseteq Pending /\ Increasing(b)
      BY <3>1, PageRows DEF Increasing
    <3> QED BY <1>1, <2>1, <3>2 DEF TypeOK, StreamType
  <2>2. ASSUME stream' = [stream EXCEPT !.pc = "live"]
        PROVE  Fetched
    <3>1. stream'.pc = "live" /\ stream'.batch = <<>>
      BY <1>1, <2>2 DEF TypeOK, StreamType
    <3>2. Increasing(<<>>) /\ Elements(<<>>) = {}
      BY DEF Increasing, Elements
    <3> QED BY <3>1, <3>2
  <2> QED BY <2>1, <2>2 DEF Replay
<1>4. Subscribed /\ Subscribed'
  BY <1>1, <1>3 DEF Subscribed
<1>5. \A n \in Pending : n \in written /\ n > cursor /\ n <= stream.watermark
  BY <1>1 DEF Pending, Rows
<1>6. ShownAreWritten' /\ BusyNotShown' /\ QueueIsNews'
  BY <1>1, <1>2, <1>4
  DEF Delivery, ShownAreWritten, BusyNotShown, QueueIsNews, Busy
<1>7. BatchIsAhead'
  BY <1>1, <1>2, <1>3, <1>5 DEF BatchIsAhead
<1> QED BY <1>1, <1>2, <1>4, <1>6, <1>7 DEF Delivery

\* Showing a row the client has not seen is a Deliver step of the ledger.
LEMMA ShowDelivers ==
    ASSUME received \in Seq(Nat), cursor \in Nat, NEW n \in Nat, Show(n),
           n \in written, n \notin Elements(received), written' = written
    PROVE  /\ Ledger!Deliver
           /\ Elements(received') = Elements(received) \cup {n}
           /\ cursor' \in Nat /\ cursor <= cursor' /\ n <= cursor'
           /\ n >= cursor => cursor' = n
<1>1. \A i \in 1..Len(received) : received[i] # n
  BY DEF Elements
<1>2. received' = Append(received, n)
  BY DEF Show
<1>3. Elements(received') = Elements(received) \cup {n}
  BY <1>2, QueueElements
<1>4. /\ cursor' \in Nat /\ cursor <= cursor' /\ n <= cursor'
      /\ n >= cursor => cursor' = n
  BY DEF Show, Bigger
<1> QED BY <1>1, <1>2, <1>3, <1>4 DEF Ledger!Deliver

\* The replay sends the next row of its batch.
LEMMA SendReplayedDelivers ==
    ASSUME Typed, Delivery, SendReplayed
    PROVE  Delivery' /\ Ledger!Deliver
<1> USE DEF Typed
<1> DEFINE b == stream.batch
           h == Head(stream.batch)
<1>1. /\ stream.pc = "replaying" /\ b \in Seq(Nat) /\ b # <<>>
      /\ h \in Nat /\ Tail(b) \in Seq(Nat)
      /\ UNCHANGED bus /\ Show(h)
  BY StreamFields DEF SendReplayed, TypeOK
<1>2. /\ Increasing(Tail(b)) /\ \A n \in Elements(Tail(b)) : h < n
      /\ Tail(b) = <<>> <=> Len(b) = 1
      /\ h \in Elements(b) /\ Elements(Tail(b)) \subseteq Elements(b)
  BY <1>1, IncreasingBatch, QueueElements DEF Delivery, BatchIsAhead
<1>3. h \in written /\ h > cursor /\ h <= stream.watermark
  BY <1>2 DEF Delivery, BatchIsAhead
<1>4. h \notin Elements(received)
  <2>1. \A n \in Elements(received) : n <= cursor
    BY DEF Delivery, ShownAreWritten
  <2> QED BY <1>1, <1>3, <2>1 DEF TypeOK
<1>5. /\ stream'.pc = "replaying" /\ stream'.watermark = stream.watermark
      /\ stream'.queue = stream.queue /\ stream'.batch = Tail(b)
      /\ Len(b) = 1 => stream'.at = h
  BY <1>1 DEF SendReplayed, TypeOK, StreamType
<1>6. /\ sequence' = sequence /\ written' = written /\ producer' = producer
      /\ Subscribed /\ Subscribed'
      /\ sequence \in Nat /\ cursor \in Nat /\ stream.watermark \in Nat
      /\ stream.watermark <= sequence
  BY <1>1, <1>5, StreamFields DEF bus, Subscribed, TypeOK, Delivery
<1>7. /\ Ledger!Deliver
      /\ Elements(received') = Elements(received) \cup {h}
      /\ cursor' = h
  BY <1>1, <1>3, <1>4, <1>6, ShowDelivers DEF TypeOK
<1> HIDE DEF b, h
<1>8. ShownAreWritten'
  <2>1. ASSUME NEW n \in Elements(received) PROVE n \in written /\ n <= h
    <3>1. n \in written /\ n <= cursor /\ n \in Nat
      BY DEF Delivery, ShownAreWritten, TypeOK
    <3> QED BY <1>1, <1>3, <1>6, <3>1
  <2> QED BY <1>1, <1>3, <1>6, <1>7, <2>1 DEF ShownAreWritten
<1>9. BusyNotShown'
  BY <1>1, <1>3, <1>5, <1>6, <1>7 DEF Delivery, BusyNotShown, Busy
<1>10. QueueIsNews'
  BY <1>1, <1>3, <1>5, <1>6, <1>7 DEF Delivery, QueueIsNews, Busy
<1>11. BatchIsAhead'
  BY <1>2, <1>5, <1>6, <1>7 DEF Delivery, BatchIsAhead, b
<1> QED BY <1>5, <1>6, <1>7, <1>8, <1>9, <1>10, <1>11 DEF Delivery

\* The live loop takes the next event of the queue: it is shown once, or is
\* covered by the watermark or transient, and nothing is shown.
LEMMA SendLiveDelivers ==
    ASSUME Typed, Delivery, SendLive
    PROVE  /\ Delivery'
           /\ Ledger!Deliver \/ UNCHANGED <<written, received>>
<1> USE DEF Typed
<1> DEFINE q == stream.queue
           e == Head(stream.queue)
<1>1. /\ stream.pc = "live" /\ q \in Seq(Nat) /\ q # <<>>
      /\ e \in Nat /\ Tail(q) \in Seq(Nat) /\ UNCHANGED bus
  BY StreamFields DEF SendLive, TypeOK
<1>2. /\ Distinct(Tail(q))
      /\ e = Transient \/ e \notin Elements(Tail(q))
      /\ e \in Elements(q) /\ Elements(Tail(q)) \subseteq Elements(q)
  BY <1>1, QueueElements, DistinctQueue DEF Delivery, QueueIsNews
<1>3. /\ stream'.pc = "live" /\ stream'.watermark = stream.watermark
      /\ stream'.queue = Tail(q) /\ stream'.batch = stream.batch
  BY <1>1 DEF SendLive, TypeOK, StreamType
<1>4. /\ sequence' = sequence /\ written' = written /\ producer' = producer
      /\ Subscribed /\ Subscribed'
      /\ sequence \in Nat /\ cursor \in Nat /\ stream.watermark \in Nat
      /\ stream.watermark <= sequence
      /\ stream.batch = <<>>
  BY <1>1, <1>3, StreamFields
  DEF bus, Subscribed, TypeOK, Delivery, BatchIsAhead
<1>5. BatchIsAhead'
  BY <1>1, <1>3, <1>4 DEF Delivery, BatchIsAhead, Elements
<1>6. CASE Covered(e) \/ e = Transient
  <2>1. received' = received /\ cursor' = cursor
    BY <1>6 DEF SendLive, client
  <2>2. ShownAreWritten' /\ BusyNotShown'
    BY <1>3, <1>4, <2>1 DEF Delivery, ShownAreWritten, BusyNotShown, Busy
  <2>3. QueueIsNews'
    BY <1>2, <1>3, <1>4, <2>1 DEF Delivery, QueueIsNews, Busy
  <2> QED BY <1>3, <1>4, <1>5, <2>1, <2>2, <2>3 DEF Delivery
<1>7. CASE ~(Covered(e) \/ e = Transient)
  <2>1. Show(e) /\ e # Transient /\ e > stream.watermark
    BY <1>1, <1>4, <1>7, SMTT(30) DEF SendLive, Covered
  <2>2. /\ e \in written /\ e \notin Elements(received)
        /\ \A p \in Producers : Busy(p) => producer[p].n # e
    BY <1>2, <2>1 DEF Delivery, QueueIsNews
  <2>3. /\ Ledger!Deliver
        /\ Elements(received') = Elements(received) \cup {e}
        /\ cursor' \in Nat /\ cursor <= cursor' /\ e <= cursor'
    BY <1>1, <1>4, <2>1, <2>2, ShowDelivers DEF TypeOK
  <2> HIDE DEF q, e
  <2>4. ShownAreWritten'
    <3>1. ASSUME NEW n \in Elements(received)
          PROVE  n \in written /\ n <= cursor'
      <4>1. n \in written /\ n <= cursor /\ n \in Nat
        BY DEF Delivery, ShownAreWritten, TypeOK
      <4> QED BY <1>4, <2>3, <4>1
    <3> QED BY <1>4, <2>2, <2>3, <3>1 DEF ShownAreWritten
  <2>5. BusyNotShown'
    BY <1>3, <1>4, <2>2, <2>3 DEF Delivery, BusyNotShown, Busy
  <2>6. QueueIsNews'
    BY <1>2, <1>3, <1>4, <2>1, <2>3 DEF Delivery, QueueIsNews, Busy, q
  <2> QED BY <1>3, <1>4, <1>5, <2>3, <2>4, <2>5, <2>6 DEF Delivery
<1> QED BY <1>6, <1>7

\* Nothing is on its way in the initial state.
LEMMA DeliveryInit ==
    ASSUME Init
    PROVE  Delivery /\ Ledger!Init
<1>1. /\ stream = Closed /\ received = <<>> /\ written = {}
      /\ \A p \in Producers : ~Busy(p)
  BY DEF Init, Ready, Busy
<1>2. /\ Elements(received) = {} /\ Elements(stream.queue) = {}
      /\ Elements(stream.batch) = {}
      /\ Distinct(stream.queue) /\ Increasing(stream.batch)
  BY <1>1 DEF Closed, Elements, Distinct, Increasing
<1> QED BY <1>1, <1>2
        DEF Closed, Subscribed, Delivery, ShownAreWritten, BusyNotShown,
            QueueIsNews, BatchIsAhead, Ledger!Init

\* Every step keeps the order of delivery, and is a step of the ledger.
LEMMA DeliveryStep ==
    ASSUME Typed, Delivery, [Next]_vars
    PROVE  Delivery' /\ [Ledger!Next]_<<written, received>>
<1>1. ASSUME NEW p \in Producers, Insert(p)
      PROVE  Delivery' /\ UNCHANGED <<written, received>>
  BY <1>1, WritingKeepsDelivery DEF Insert, client
<1>2. ASSUME NEW p \in Producers, Commit(p)
      PROVE  Delivery' /\ Ledger!Write
  <2>1. producer[p].n \notin written
    BY <1>2 DEF Commit, Typed, Numbering
  <2>2. written' = written \cup {producer[p].n} /\ received' = received
    BY <1>2 DEF Commit, client
  <2> QED BY <1>2, <2>1, <2>2, WritingKeepsDelivery DEF Ledger!Write
<1>3. ASSUME NEW p \in Producers, Announce(p) \/ AnnounceTransient(p)
      PROVE  Delivery' /\ UNCHANGED <<written, received>>
  <2>1. UNCHANGED <<written, received, cursor>>
    BY <1>3 DEF Announce, AnnounceTransient, client
  <2>2. \A q \in Producers : Busy(q)' => /\ q # p /\ Busy(q)
                                         /\ producer'[q] = producer[q]
    BY <1>3 DEF Announce, AnnounceTransient, Ready, Busy, Typed, TypeOK
  <2>3. \A q \in Producers : producer[q].n \in Nat
    BY DEF Typed, TypeOK, ProducerType
  <2>4. CASE Announce(p)
    <3>1. /\ Busy(p) /\ producer[p].n \in written
          /\ \A q \in Producers \ {p} :
                 Busy(q) => producer[q].n # producer[p].n
      BY <2>4 DEF Announce, Busy, Typed, Numbering
    <3>2. /\ producer[p].n # Transient =>
               producer[p].n \notin Elements(stream.queue)
          /\ Subscribed /\ producer[p].n > stream.watermark =>
               producer[p].n \notin Elements(received)
      BY <3>1 DEF Delivery, QueueIsNews, BusyNotShown
    <3>3. sequence' \in Nat /\ sequence <= sequence'
      BY <2>3, <2>4 DEF Announce, Bigger, Typed, TypeOK
    <3>4. FanOut(producer[p].n)
      BY <2>4 DEF Announce
    <3> QED BY <2>1, <2>2, <2>3, <3>1, <3>2, <3>3, <3>4,
               FanOutKeepsDelivery
  <2>5. CASE AnnounceTransient(p)
    <3>1. FanOut(Transient) /\ Transient \in Nat
      BY <2>5 DEF AnnounceTransient, Transient
    <3>2. sequence' \in Nat /\ sequence <= sequence'
      BY <2>5 DEF AnnounceTransient, Typed, TypeOK
    <3>3. \A q \in Producers : Busy(q) => producer[q].n # Transient
      BY DEF Busy, Typed, TypeOK, Numbering, Transient
    <3> QED BY <2>1, <2>2, <3>1, <3>2, <3>3, FanOutKeepsDelivery
  <2> QED BY <1>3, <2>4, <2>5
<1>4. CASE Connect \/ Drop \/ CoreRestart
  <2>1. UNCHANGED <<written, received>>
    BY <1>4 DEF Connect, Drop, CoreRestart, bus, client
  <2> QED BY <1>4, <2>1, OpeningKeepsDelivery
<1>5. CASE Subscribe \/ Replay
  <2>1. UNCHANGED <<written, received>>
    BY <1>5 DEF Subscribe, Replay, bus, client
  <2> QED BY <1>5, <2>1, SubscribeKeepsDelivery, ReplayKeepsDelivery
<1>6. CASE SendReplayed \/ SendLive
  BY <1>6, SendReplayedDelivers, SendLiveDelivers DEF Ledger!Next
<1>7. CASE UNCHANGED vars
  BY <1>7
  DEF vars, bus, client, Delivery, ShownAreWritten, BusyNotShown,
      QueueIsNews, BatchIsAhead, Busy, Subscribed
<1> QED BY <1>1, <1>2, <1>3, <1>4, <1>5, <1>6, <1>7
        DEF Next, Publish, Serve, Ledger!Next

\* Rows are delivered in order.
LEMMA DeliveryAlways == Spec => [](Typed /\ Delivery)
  BY DeliveryInit, DeliveryStep, TypedAlways, PTL DEF Spec

\* The stream implements the abstract ledger: rows are written once, and the
\* client is shown only rows that were committed (runtime_stream behind
\* DurableRuntimeEventBus.publish), each of them at most once, across replays,
\* live delivery, lost WebSockets and restarts of Core.
THEOREM StreamImplementsLog == Spec => ImplementsLog
<1>1. Init => Ledger!Init
  BY DeliveryInit
<1>2. Typed /\ Delivery /\ [Next]_vars => [Ledger!Next]_<<written, received>>
  BY DeliveryStep
<1> QED BY <1>1, <1>2, DeliveryAlways, PTL DEF Spec, ImplementsLog, Ledger!Spec

-----------------------------------------------------------------------------
(* At the seam between the replay and the queue no row is lost.            *)

\* The rows past the sequence of the bus will be announced by their producers.
Unannounced ==
    /\ sequence <= numbered
    /\ \A n \in Rows :
        n > sequence => \E p \in Producers : producer[p] = [pc |-> "written", n |-> n]

\* A database that numbers and commits in one order lets no row appear below
\* one that is committed or announced.
InOrder ==
    \A p \in Producers : producer[p].pc = "inserted" =>
        /\ sequence < producer[p].n
        /\ \A m \in written : m < producer[p].n
        /\ \A q \in Producers \ {p} : producer[q].pc # "inserted"

\* What the replay has not yet sent of the rows up to its last fetch is in the
\* batch.
Fetched ==
    stream.pc = "replaying" /\ stream.batch # <<>> =>
        \A n \in Pending :
            \/ n \in Elements(stream.batch) \cup Elements(received)
            \/ n > stream.batch[Len(stream.batch)]

Seam == Unannounced /\ InOrder /\ Fetched

\* The seam is kept by a step that changes nothing it is about.
LEMMA SeamKept ==
    ASSUME Seam,
           UNCHANGED <<numbered, written, pruned, sequence, producer, received,
                       stream>>
    PROVE  Seam'
<1>1. Unannounced'
  BY DEF Seam, Unannounced, Rows
<1>2. InOrder'
  BY DEF Seam, InOrder
<1>3. Fetched'
  BY DEF Seam, Fetched, Pending, Rows
<1> QED BY <1>1, <1>2, <1>3 DEF Seam

\* A step of the stream or of the client leaves the rows and their producers.
LEMMA ServeKeepsRows ==
    ASSUME Seam, UNCHANGED bus
    PROVE  Unannounced' /\ InOrder'
<1>1. UNCHANGED <<numbered, written, pruned, sequence, producer>>
  BY DEF bus
<1>2. Unannounced'
  BY <1>1 DEF Seam, Unannounced, Rows
<1>3. InOrder'
  BY <1>1 DEF Seam, InOrder
<1> QED BY <1>2, <1>3

\* Fan-out leaves everything of the stream but the queue, and what was in the
\* queue or arrives is in the queue, or was dropped.
LEMMA FanOutElements ==
    ASSUME Typed, NEW e \in Nat, FanOut(e)
    PROVE  /\ stream'.pc = stream.pc /\ stream'.at = stream.at
           /\ stream'.after = stream.after
           /\ stream'.watermark = stream.watermark
           /\ stream'.batch = stream.batch
           /\ overflowed \subseteq overflowed'
           /\ Subscribed => Elements(stream.queue) \cup {e}
                              \subseteq Elements(stream'.queue) \cup overflowed'
<1>1. CASE Subscribed
  <2> DEFINE q == stream.queue
             full == Len(q) = QueueSize
             room == IF full THEN Tail(q) ELSE q
  <2>1. q \in Seq(Nat) /\ (full => q # <<>>)
    BY DEF Typed, TypeOK, StreamType
  <2>2. /\ stream' = [stream EXCEPT !.queue = Append(room, e)]
        /\ overflowed' = IF full THEN overflowed \cup {Head(q)} ELSE overflowed
    BY <1>1 DEF FanOut
  <2>3. /\ room \in Seq(Nat)
        /\ Elements(q) \subseteq Elements(room) \cup overflowed'
        /\ overflowed \subseteq overflowed'
    BY <2>1, <2>2, QueueElements
  <2>4. Elements(Append(room, e)) = Elements(room) \cup {e}
    BY <2>3, QueueElements
  <2> HIDE DEF full, room
  <2>5. /\ stream'.queue = Append(room, e)
        /\ stream'.pc = stream.pc /\ stream'.at = stream.at
        /\ stream'.after = stream.after
        /\ stream'.watermark = stream.watermark
        /\ stream'.batch = stream.batch
    BY <2>2 DEF Typed, TypeOK, StreamType
  <2> QED BY <2>3, <2>4, <2>5
<1>2. CASE ~Subscribed
  BY <1>2 DEF FanOut
<1> QED BY <1>1, <1>2

\* publish() keeps the seam.
LEMMA InsertKeepsSeam ==
    ASSUME Typed, Seam, Serial, NEW p \in Producers, Insert(p)
    PROVE  Seam'
<1>1. /\ UNCHANGED <<written, pruned, sequence, received, stream>>
      /\ numbered \in Nat /\ numbered' = numbered + 1
      /\ producer' = [producer EXCEPT ![p] = [pc |-> "inserted",
                                             n |-> numbered + 1]]
      /\ \A q \in Producers : producer[q].pc # "inserted"
      /\ producer[p].pc = "ready"
  BY DEF Insert, Typed, TypeOK, client
<1>2. producer \in [Producers -> ProducerType] /\ sequence \in Nat
  BY DEF Typed, TypeOK
<1>3. Unannounced'
  <2>1. ASSUME NEW n \in Rows, n > sequence
        PROVE  \E q \in Producers : producer'[q] = [pc |-> "written", n |-> n]
    <3>1. PICK q \in Producers : producer[q] = [pc |-> "written", n |-> n]
      BY <2>1 DEF Seam, Unannounced
    <3>2. q # p
      BY <1>1, <3>1
    <3> QED BY <1>1, <1>2, <3>1, <3>2
  <2> QED BY <1>1, <1>2, <2>1 DEF Seam, Unannounced, Rows
<1>4. InOrder'
  <2>1. \A m \in written : m < numbered + 1
    BY DEF Typed, TypeOK, Numbering
  <2>2. sequence < numbered + 1
    BY <1>1, <1>2 DEF Seam, Unannounced
  <2> QED BY <1>1, <1>2, <2>1, <2>2 DEF InOrder
<1>5. Fetched'
  BY <1>1 DEF Seam, Fetched, Pending, Rows
<1> QED BY <1>3, <1>4, <1>5 DEF Seam

LEMMA CommitKeepsSeam ==
    ASSUME Typed, Delivery, Seam, NothingMissed, NEW p \in Producers, Commit(p)
    PROVE  Seam' /\ NothingMissed'
<1> DEFINE k == producer[p].n
<1>1. /\ UNCHANGED <<numbered, pruned, sequence, received, stream, overflowed>>
      /\ producer[p].pc = "inserted" /\ written' = written \cup {k}
      /\ k \in Nat /\ sequence \in Nat /\ sequence < k
  BY DEF Commit, client, Typed, TypeOK, ProducerType, Seam, InOrder
<1>2. /\ producer'[p] = [pc |-> "written", n |-> k]
      /\ \A q \in Producers \ {p} : producer'[q] = producer[q]
      /\ producer[p].n = k
  BY DEF Commit, Typed, TypeOK, ProducerType
<1>3. stream.watermark \in Nat /\ (Subscribed => stream.watermark < k)
  BY <1>1, StreamFields DEF Delivery, Typed, TypeOK
<1>4. Rows' \subseteq Rows \cup {k}
  BY <1>1 DEF Rows
<1> HIDE DEF k
<1>5. Unannounced'
  <2>1. ASSUME NEW n \in Rows', n > sequence
        PROVE  \E q \in Producers : producer'[q] = [pc |-> "written", n |-> n]
    <3>1. CASE n = k
      BY <1>2, <3>1
    <3>2. CASE n \in Rows
      <4>1. PICK q \in Producers : producer[q] = [pc |-> "written", n |-> n]
        BY <2>1, <3>2 DEF Seam, Unannounced
      <4>2. q # p
        BY <1>1, <4>1
      <4> QED BY <1>2, <4>1, <4>2
    <3> QED BY <1>4, <3>1, <3>2
  <2> QED BY <1>1, <2>1 DEF Seam, Unannounced
<1>6. InOrder'
  <2>1. ASSUME NEW q \in Producers, producer'[q].pc = "inserted" PROVE FALSE
    <3>1. q # p /\ producer[q].pc = "inserted"
      BY <1>2, <2>1
    <3> QED BY <1>1, <3>1 DEF Seam, InOrder
  <2> QED BY <2>1 DEF InOrder
<1>7. Subscribed => Pending' \subseteq Pending
  BY <1>1, <1>3, <1>4 DEF Pending
<1>8. Fetched'
  BY <1>1, <1>7 DEF Seam, Fetched, Subscribed
<1>9. NothingMissed'
  <2> SUFFICES ASSUME Subscribed, NEW n \in Rows', n > stream.after
               PROVE  n \in Elements(received) \/ n \in overflowed \/ OnItsWay(n)'
    BY <1>1 DEF NothingMissed, Subscribed
  <2>1. CASE n = k
    BY <1>1, <1>2, <1>3, <2>1 DEF OnItsWay
  <2>2. CASE n \in Rows
    <3>1. n \in Elements(received) \/ n \in overflowed \/ OnItsWay(n)
      BY <2>2 DEF NothingMissed
    <3>2. n \in Pending => n \in Pending'
      BY <1>1 DEF Pending, Rows
    <3>3. ASSUME NEW q \in Producers, producer[q] = [pc |-> "written", n |-> n]
          PROVE  producer'[q] = [pc |-> "written", n |-> n]
      BY <1>1, <1>2, <3>3
    <3> QED BY <1>1, <3>1, <3>2, <3>3 DEF OnItsWay
  <2> QED BY <1>4, <2>1, <2>2
<1> QED BY <1>5, <1>6, <1>8, <1>9 DEF Seam

LEMMA AnnounceKeepsSeam ==
    ASSUME Typed, Seam, NothingMissed,
           NEW p \in Producers, Announce(p) \/ AnnounceTransient(p)
    PROVE  Seam' /\ NothingMissed'
<1> DEFINE e == IF producer[p].pc = "written" THEN producer[p].n ELSE Transient
<1>1. /\ UNCHANGED <<numbered, written, pruned, received>>
      /\ producer' = [producer EXCEPT ![p] = Ready]
      /\ producer[p].n \in Nat /\ sequence \in Nat /\ numbered \in Nat
  BY DEF Announce, AnnounceTransient, client, Typed, TypeOK, ProducerType
<1>2. /\ producer'[p] = Ready
      /\ \A q \in Producers \ {p} : producer'[q] = producer[q]
  BY <1>1 DEF Typed, TypeOK
<1>3. /\ e \in Nat /\ FanOut(e)
      /\ sequence' \in Nat /\ sequence <= sequence' /\ e <= sequence'
      /\ sequence' \in {sequence, e}
  BY <1>1 DEF Announce, AnnounceTransient, Bigger, Transient
<1>4. \A n : producer[p] = [pc |-> "written", n |-> n] => n = e
  OBVIOUS
<1>5. e # Transient => e \in written /\ e <= numbered
  <2>1. producer[p].pc = "written" => producer[p].n \in written
    BY DEF Typed, Numbering
  <2> QED BY <1>1, <2>1 DEF Typed, Numbering
<1> HIDE DEF e
<1>6. Rows' = Rows
  BY <1>1 DEF Rows
<1>7. Unannounced'
  <2>1. sequence' <= numbered
    BY <1>1, <1>3, <1>5 DEF Seam, Unannounced, Transient
  <2>2. ASSUME NEW n \in Rows, n > sequence'
        PROVE  \E q \in Producers : producer'[q] = [pc |-> "written", n |-> n]
    <3>1. n \in Nat
      BY DEF Rows, Typed, TypeOK
    <3>2. PICK q \in Producers : producer[q] = [pc |-> "written", n |-> n]
      BY <1>1, <1>3, <2>2, <3>1 DEF Seam, Unannounced
    <3>3. q # p
      BY <1>3, <1>4, <2>2, <3>1, <3>2
    <3> QED BY <1>2, <3>2, <3>3
  <2> QED BY <1>1, <1>6, <2>1, <2>2 DEF Unannounced
<1>8. InOrder'
  <2> SUFFICES ASSUME NEW q \in Producers, producer'[q].pc = "inserted"
               PROVE  /\ sequence' < producer'[q].n
                      /\ \A m \in written : m < producer'[q].n
                      /\ \A r \in Producers \ {q} : producer'[r].pc # "inserted"
    BY <1>1 DEF InOrder
  <2>1. q # p /\ producer'[q] = producer[q]
    BY <1>2 DEF Ready
  <2>2. /\ sequence < producer[q].n
        /\ \A m \in written : m < producer[q].n
        /\ \A r \in Producers \ {q} : producer[r].pc # "inserted"
    BY <2>1 DEF Seam, InOrder
  <2>3. sequence' < producer[q].n
    <3>1. producer[q].n \in Nat
      BY DEF Typed, TypeOK, ProducerType
    <3> QED BY <1>1, <1>3, <1>5, <2>2, <3>1 DEF Transient
  <2>4. \A r \in Producers \ {q} : producer'[r].pc # "inserted"
    BY <1>2, <2>2 DEF Ready
  <2> QED BY <2>1, <2>2, <2>3, <2>4
<1>9. /\ stream'.pc = stream.pc /\ stream'.at = stream.at
      /\ stream'.after = stream.after
      /\ stream'.watermark = stream.watermark
      /\ stream'.batch = stream.batch
      /\ overflowed \subseteq overflowed'
      /\ Subscribed => Elements(stream.queue) \cup {e}
                          \subseteq Elements(stream'.queue) \cup overflowed'
  BY <1>3, FanOutElements
<1>10. Pending' = Pending
  BY <1>6, <1>9 DEF Pending
<1>11. Fetched'
  BY <1>1, <1>9, <1>10 DEF Seam, Fetched
<1>12. NothingMissed'
  <2> SUFFICES ASSUME Subscribed, NEW n \in Rows, n > stream.after
               PROVE  n \in Elements(received) \/ n \in overflowed' \/ OnItsWay(n)'
    BY <1>1, <1>6, <1>9 DEF NothingMissed, Subscribed
  <2>1. n \in Elements(received) \/ n \in overflowed \/ OnItsWay(n)
    BY DEF NothingMissed
  <2>2. CASE \/ n \in Elements(stream.batch)
             \/ stream.pc = "replaying" /\ n \in Pending
    BY <1>9, <1>10, <2>2 DEF OnItsWay
  <2>3. CASE n > stream.watermark /\ n \in Elements(stream.queue)
    BY <1>9, <2>3 DEF OnItsWay
  <2>4. ASSUME NEW q \in Producers, producer[q] = [pc |-> "written", n |-> n],
               n > stream.watermark
        PROVE  n \in overflowed' \/ OnItsWay(n)'
    <3>1. CASE q = p
      BY <1>4, <1>9, <2>4, <3>1 DEF OnItsWay
    <3>2. CASE q # p
      BY <1>2, <1>9, <2>4, <3>2 DEF OnItsWay
    <3> QED BY <3>1, <3>2
  <2> QED BY <1>9, <2>1, <2>2, <2>3, <2>4 DEF OnItsWay
<1> QED BY <1>7, <1>8, <1>11, <1>12 DEF Seam

\* A stream that is closed or only opened misses nothing yet.
LEMMA OpeningKeepsSeam ==
    ASSUME Typed, Seam, Connect \/ Drop \/ CoreRestart
    PROVE  Seam' /\ NothingMissed'
<1>1. stream'.pc \in {"closed", "opening"}
  <2>1. CASE Connect
    <3>1. stream' = [pc |-> "opening", after |-> cursor, at |-> 0,
                     watermark |-> 0, batch |-> <<>>, queue |-> <<>>]
      BY <2>1 DEF Connect, Closed
    <3> QED BY <3>1
  <2>2. CASE Drop \/ CoreRestart
    BY <2>2 DEF Drop, CoreRestart, Closed
  <2> QED BY <2>1, <2>2
<1>2. Fetched' /\ NothingMissed'
  BY <1>1 DEF Fetched, NothingMissed, Subscribed
<1>3. Unannounced' /\ InOrder'
  <2>1. CASE Connect \/ Drop
    BY <2>1, ServeKeepsRows DEF Connect, Drop
  <2>2. CASE CoreRestart
    <3>1. InOrder'
      BY <2>2 DEF CoreRestart, InOrder, Ready
    <3> DEFINE left == {n \in written : n > pruned'}
    <3>2. /\ sequence' = Latest(left) /\ numbered' = numbered
          /\ Rows' = left /\ numbered \in Nat
      BY <2>2 DEF CoreRestart, StoredSequence, Rows, Typed, TypeOK
    <3>3. left \in SUBSET Nat /\ \A n \in left : n <= numbered
      <4>1. written \in SUBSET Nat /\ \A n \in written : n <= numbered
        BY <3>2 DEF Typed, TypeOK, Numbering
      <4> QED BY <4>1
    <3> HIDE DEF left
    <3>4. /\ \A n \in left : n <= Latest(left)
          /\ Latest(left) <= numbered
      BY <3>2, <3>3, LatestIsLast
    <3>5. Latest(left) \in Nat
      BY <3>2, <3>3, LatestIsNatural
    <3> QED BY <3>1, <3>2, <3>3, <3>4, <3>5 DEF Unannounced
  <2> QED BY <2>1, <2>2
<1> QED BY <1>2, <1>3 DEF Seam

\* At the subscription every row past the cursor is the replay's or its
\* producer's.
LEMMA SubscribeKeepsSeam ==
    ASSUME Typed, Delivery, Seam, Subscribe
    PROVE  Seam' /\ NothingMissed'
<1>1. /\ UNCHANGED <<bus, client, overflowed>> /\ stream.pc = "opening"
      /\ stream'.pc = "replaying" /\ stream'.at = stream.after
      /\ stream'.after = stream.after
      /\ stream'.watermark = sequence
      /\ stream'.batch = stream.batch /\ sequence \in Nat
  BY DEF Subscribe, Typed, TypeOK, StreamType
<1>2. Unannounced' /\ InOrder'
  BY <1>1, ServeKeepsRows
<1>3. stream'.batch = <<>>
  BY <1>1 DEF Delivery, BatchIsAhead
<1>4. Fetched'
  BY <1>3 DEF Fetched
<1>5. NothingMissed'
  <2> SUFFICES ASSUME NEW n \in Rows, n > stream.after
               PROVE  OnItsWay(n)'
    BY <1>1 DEF NothingMissed, Rows, bus
  <2>1. n \in Nat
    BY DEF Rows, Typed, TypeOK
  <2>2. CASE n <= sequence
    <3>1. n \in Pending'
      BY <1>1, <2>2 DEF Pending, Rows, bus
    <3> QED BY <1>1, <3>1 DEF OnItsWay
  <2>3. CASE n > sequence
    <3>1. \E p \in Producers : producer'[p] = [pc |-> "written", n |-> n]
      BY <1>1, <2>3 DEF Seam, Unannounced, bus
    <3> QED BY <1>1, <2>3, <3>1 DEF OnItsWay
  <2> QED BY <1>1, <2>1, <2>2, <2>3
<1> QED BY <1>2, <1>4, <1>5 DEF Seam

\* A query of the replay loop fetches the first of the pending rows.
LEMMA ReplayKeepsSeam ==
    ASSUME Typed, Delivery, Seam, NothingMissed, Replay
    PROVE  Seam' /\ NothingMissed'
<1>1. /\ UNCHANGED <<bus, client, overflowed>> /\ stream.pc = "replaying"
      /\ stream.batch = <<>> /\ stream'.at = stream.at
      /\ stream'.after = stream.after
      /\ stream'.watermark = stream.watermark /\ stream'.queue = stream.queue
  BY DEF Replay, Typed, TypeOK, StreamType
<1>2. Unannounced' /\ InOrder'
  BY <1>1, ServeKeepsRows
<1>3. Pending' = Pending /\ Rows' = Rows
  BY <1>1 DEF Pending, Rows, bus
<1>4. CASE \E b \in Page(Pending) : stream' = [stream EXCEPT !.batch = b]
  <2>1. PICK b \in Page(Pending) : stream' = [stream EXCEPT !.batch = b]
    BY <1>4
  <2>2. stream'.pc = "replaying" /\ stream'.batch = b
    BY <1>1, <2>1 DEF Typed, TypeOK, StreamType
  <2>3. \A n \in Pending \ Elements(b) : b[Len(b)] < n
    BY Zenon DEF Page
  <2>4. \A n \in Pending \ Elements(b) : n > b[Len(b)]
    BY <2>3
  <2>5. Fetched'
    BY <1>3, <2>2, <2>4 DEF Fetched
  <2>6. NothingMissed'
    <3> SUFFICES ASSUME NEW n \in Rows, n > stream.after
                 PROVE  n \in Elements(received) \/ n \in overflowed
                        \/ OnItsWay(n)'
      BY <1>1, <1>3 DEF NothingMissed, client
    <3>1. n \in Elements(received) \/ n \in overflowed \/ OnItsWay(n)
      BY <1>1 DEF NothingMissed, Subscribed
    <3>2. Elements(<<>>) = {}
      BY DEF Elements
    <3> QED BY <1>1, <1>3, <2>2, <3>1, <3>2 DEF OnItsWay, bus
  <2> QED BY <1>2, <2>5, <2>6 DEF Seam
<1>5. CASE Pending = {} /\ stream' = [stream EXCEPT !.pc = "live"]
  <2>1. stream'.pc = "live" /\ stream'.batch = stream.batch
    BY <1>5 DEF Typed, TypeOK, StreamType
  <2>2. Fetched'
    BY <2>1 DEF Fetched
  <2>3. NothingMissed'
    <3> SUFFICES ASSUME NEW n \in Rows, n > stream.after
                 PROVE  n \in Elements(received) \/ n \in overflowed
                        \/ OnItsWay(n)'
      BY <1>1, <1>3 DEF NothingMissed, client
    <3>1. n \in Elements(received) \/ n \in overflowed \/ OnItsWay(n)
      BY <1>1 DEF NothingMissed, Subscribed
    <3> QED BY <1>1, <1>3, <1>5, <2>1, <3>1 DEF OnItsWay, bus
  <2> QED BY <1>2, <2>2, <2>3 DEF Seam
<1> QED BY <1>4, <1>5 DEF Replay

\* Where a batch ends when its head is taken from it.
LEMMA BatchEnds ==
    ASSUME NEW b \in Seq(Nat), b # <<>>
    PROVE  /\ Len(b) = 1 => b[Len(b)] = Head(b) /\ Elements(Tail(b)) = {}
           /\ Len(b) # 1 => Tail(b)[Len(Tail(b))] = b[Len(b)]
<1>1. /\ Len(b) \in Nat \ {0} /\ Len(Tail(b)) = Len(b) - 1
      /\ \A i \in 1..Len(b) - 1 : Tail(b)[i] = b[i + 1]
      /\ Head(b) = b[1] /\ Tail(b) \in Seq(Nat)
  <2>1. Len(b) \in Nat /\ Len(b) # 0
    OBVIOUS
  <2>2. Tail(b) \in Seq(Nat) /\ Len(Tail(b)) = Len(b) - 1
    OBVIOUS
  <2>3. \A i \in 1..Len(b) - 1 : Tail(b)[i] = b[i + 1]
    OBVIOUS
  <2>4. Head(b) = b[1]
    OBVIOUS
  <2> QED BY <2>1, <2>2, <2>3, <2>4
<1>2. ASSUME Len(b) = 1 PROVE b[Len(b)] = Head(b) /\ Elements(Tail(b)) = {}
  <2>1. b[Len(b)] = Head(b)
    BY <1>1, <1>2
  <2>2. Len(Tail(b)) = 0
    BY <1>1, <1>2
  <2>3. \A i \in 1..0 : FALSE
    OBVIOUS
  <2>4. Elements(Tail(b)) = {}
    BY <2>2, <2>3, Zenon DEF Elements
  <2> QED BY <2>1, <2>4
<1>3. ASSUME Len(b) # 1 PROVE Tail(b)[Len(Tail(b))] = b[Len(b)]
  <2>1. Len(b) - 1 \in 1..Len(b) - 1
    BY <1>1, <1>3
  <2>2. Tail(b)[Len(b) - 1] = b[Len(b) - 1 + 1]
    BY <1>1, <2>1
  <2>3. Len(b) - 1 + 1 = Len(b)
    BY <1>1
  <2> QED BY <1>1, <2>2, <2>3, Zenon
<1> QED BY <1>2, <1>3

\* The replay passes over nothing that it fetched and has not shown.
LEMMA SendReplayedKeepsSeam ==
    ASSUME Typed, Delivery, Seam, NothingMissed, SendReplayed
    PROVE  Seam' /\ NothingMissed'
<1> DEFINE b == stream.batch
           h == Head(stream.batch)
<1>1. /\ stream.pc = "replaying" /\ b \in Seq(Nat) /\ b # <<>>
      /\ h \in Nat /\ Tail(b) \in Seq(Nat)
      /\ UNCHANGED <<bus, overflowed>> /\ Show(h)
  BY StreamFields DEF SendReplayed, Typed, TypeOK
<1>2. /\ stream'.pc = "replaying" /\ stream'.watermark = stream.watermark
      /\ stream'.queue = stream.queue /\ stream'.batch = Tail(b)
      /\ stream'.after = stream.after
      /\ stream'.at = IF Len(b) = 1 THEN h ELSE stream.at
  BY <1>1 DEF SendReplayed, Typed, TypeOK, StreamType
<1>3. Unannounced' /\ InOrder'
  BY <1>1, ServeKeepsRows
<1>4. Elements(received') = Elements(received) \cup {h}
  BY <1>1, QueueElements DEF Show, Typed, TypeOK
<1>5. Elements(b) = Elements(Tail(b)) \cup {h}
  BY <1>1, QueueElements
<1>6. Rows' = Rows
  BY <1>1 DEF Rows, bus
<1>7. Len(b) \in Nat \ {0}
  BY <1>1
<1>8. CASE Len(b) = 1
  <2>1. b[Len(b)] = h
    BY <1>1, <1>8, BatchEnds
  <2>2. Elements(Tail(b)) = {}
    BY <1>1, <1>8, BatchEnds
  <2>3. Fetched'
    <3>1. Tail(b) = <<>>
      BY <1>1, <1>8, IncreasingBatch DEF Delivery, BatchIsAhead
    <3> QED BY <1>2, <3>1 DEF Fetched
  <2>4. ASSUME NEW n \in Pending
        PROVE  n \in Elements(received') \/ n \in Pending'
    <3>1. n \in Elements(received) \/ n = h \/ n > h
      BY <1>1, <1>5, <2>1, <2>2 DEF Seam, Fetched
    <3>2. n > h => n \in Pending'
      BY <1>2, <1>6, <1>8 DEF Pending
    <3> QED BY <1>4, <3>1, <3>2
  <2>5. NothingMissed'
    <3> SUFFICES ASSUME NEW n \in Rows, n > stream.after
                 PROVE  n \in Elements(received') \/ n \in overflowed
                        \/ OnItsWay(n)'
      BY <1>1, <1>2, <1>6 DEF NothingMissed
    <3>1. n \in Elements(received) \/ n \in overflowed \/ OnItsWay(n)
      BY <1>1 DEF NothingMissed, Subscribed
    <3> HIDE DEF b, h
    <3> QED BY <1>1, <1>2, <1>4, <1>5, <2>2, <2>4, <3>1 DEF OnItsWay, bus, b
  <2> QED BY <1>3, <2>3, <2>5 DEF Seam
<1>9. CASE Len(b) # 1
  <2>1. Pending' = Pending
    BY <1>2, <1>6, <1>9 DEF Pending
  <2>2. Tail(b)[Len(Tail(b))] = b[Len(b)]
    BY <1>1, <1>9, BatchEnds
  <2>3. Fetched'
    <3>1. \A n \in Pending : \/ n \in Elements(b) \cup Elements(received)
                             \/ n > b[Len(b)]
      BY <1>1 DEF Seam, Fetched
    <3> QED BY <1>2, <1>4, <1>5, <2>1, <2>2, <3>1 DEF Fetched
  <2>4. NothingMissed'
    <3> SUFFICES ASSUME NEW n \in Rows, n > stream.after
                 PROVE  n \in Elements(received') \/ n \in overflowed
                        \/ OnItsWay(n)'
      BY <1>1, <1>2, <1>6 DEF NothingMissed
    <3>1. n \in Elements(received) \/ n \in overflowed \/ OnItsWay(n)
      BY <1>1 DEF NothingMissed, Subscribed
    <3> HIDE DEF b, h
    <3> QED BY <1>1, <1>2, <1>4, <1>5, <2>1, <3>1 DEF OnItsWay, bus, b
  <2> QED BY <1>3, <2>3, <2>4 DEF Seam
<1> QED BY <1>8, <1>9

\* The live loop passes over nothing that the replay did not cover.
LEMMA SendLiveKeepsSeam ==
    ASSUME Typed, Delivery, Seam, NothingMissed, SendLive
    PROVE  Seam' /\ NothingMissed'
<1> DEFINE q == stream.queue
           e == Head(stream.queue)
<1>1. /\ stream.pc = "live" /\ q \in Seq(Nat) /\ q # <<>>
      /\ e \in Nat /\ Tail(q) \in Seq(Nat)
      /\ UNCHANGED <<bus, overflowed>>
  BY StreamFields DEF SendLive, Typed, TypeOK
<1>2. /\ stream'.pc = "live" /\ stream'.watermark = stream.watermark
      /\ stream'.queue = Tail(q) /\ stream'.batch = stream.batch
      /\ stream'.after = stream.after /\ stream'.at = stream.at
  BY <1>1 DEF SendLive, Typed, TypeOK, StreamType
<1>3. Unannounced' /\ InOrder' /\ Rows' = Rows
  BY <1>1, ServeKeepsRows DEF Rows, bus
<1>4. Elements(q) = Elements(Tail(q)) \cup {e}
  BY <1>1, QueueElements
<1>5. /\ Elements(received) \subseteq Elements(received')
      /\ e > stream.watermark => e \in Elements(received')
  <2>1. CASE Covered(e) \/ e = Transient
    <3>1. received' = received
      <4>1. UNCHANGED client
        BY <2>1, Zenon DEF SendLive
      <4> QED BY <4>1 DEF client
    <3>2. ~(e > stream.watermark)
      <4>1. stream.watermark \in Nat
        BY StreamFields DEF Typed, TypeOK
      <4>2. e = 0 \/ e <= stream.watermark
        BY <2>1, Zenon DEF Covered, Transient
      <4> QED BY <1>1, <4>1, <4>2
    <3> QED BY <3>1, <3>2
  <2>2. CASE ~(Covered(e) \/ e = Transient)
    <3>1. received' = Append(received, e)
      BY <2>2 DEF SendLive, Show
    <3> QED BY <1>1, <3>1, QueueElements DEF Typed, TypeOK
  <2> QED BY <2>1, <2>2
<1>6. Fetched'
  BY <1>2 DEF Fetched
<1>7. NothingMissed'
  <2> SUFFICES ASSUME NEW n \in Rows, n > stream.after
               PROVE  n \in Elements(received') \/ n \in overflowed
                      \/ OnItsWay(n)'
    BY <1>1, <1>2, <1>3 DEF NothingMissed
  <2>1. n \in Elements(received) \/ n \in overflowed \/ OnItsWay(n)
    BY <1>1 DEF NothingMissed, Subscribed
  <2> HIDE DEF q, e
  <2> QED BY <1>1, <1>2, <1>4, <1>5, <2>1 DEF OnItsWay, bus, q
<1> QED BY <1>3, <1>6, <1>7 DEF Seam

LEMMA SeamStep ==
    ASSUME Typed, Delivery, Seam, NothingMissed, Serial, [Next]_vars
    PROVE  Seam' /\ NothingMissed'
<1>1. ASSUME NEW p \in Producers, Insert(p) PROVE Seam' /\ NothingMissed'
  <2>1. Seam'
    BY <1>1, InsertKeepsSeam
  <2>2. /\ UNCHANGED <<written, pruned, received, stream, overflowed>>
        /\ \A q \in Producers : producer[q].pc = "written" =>
              producer'[q] = producer[q]
    BY <1>1 DEF Insert, Typed, TypeOK, client
  <2>3. /\ Rows' = Rows /\ Pending' = Pending
    BY <2>2 DEF Pending, Rows
  <2>4. \A n : OnItsWay(n) => OnItsWay(n)'
    BY <2>2, <2>3 DEF OnItsWay
  <2>5. NothingMissed'
    BY <2>2, <2>3, <2>4 DEF NothingMissed, Subscribed
  <2> QED BY <2>1, <2>5
<1>2. ASSUME NEW p \in Producers, Publish(p) \/ AnnounceTransient(p)
      PROVE  Seam' /\ NothingMissed'
  BY <1>2, CommitKeepsSeam, AnnounceKeepsSeam DEF Publish
<1>3. CASE Connect \/ Drop \/ CoreRestart
  BY <1>3, OpeningKeepsSeam
<1>4. CASE Serve
  BY <1>4, SubscribeKeepsSeam, ReplayKeepsSeam, SendReplayedKeepsSeam,
     SendLiveKeepsSeam DEF Serve
<1>5. CASE UNCHANGED vars
  <2>1. UNCHANGED <<numbered, written, pruned, sequence, producer, received,
                    stream, overflowed>>
    BY <1>5 DEF vars, bus, client
  <2> QED BY <2>1, SeamKept
          DEF NothingMissed, OnItsWay, Subscribed, Pending, Rows
<1> QED BY <1>1, <1>2, <1>3, <1>4, <1>5 DEF Next

\* With a database that numbers and commits in one order (SQLite) a stream never
\* misses a row after the cursor it was opened with, between the replay of
\* runtime_stream and its queue: it was shown, is on its way, or was dropped by a
\* full queue, for every number of producers, every queue and page size, and
\* however often the WebSocket is lost, Core restarted or retention run.
THEOREM NothingIsMissed ==
    ASSUME Serial
    PROVE  Spec => []NothingMissed
<1>1. Init => Seam /\ NothingMissed
  <2> SUFFICES ASSUME Init PROVE Seam /\ NothingMissed
    OBVIOUS
  <2>1. /\ stream.pc = "closed" /\ written = {} /\ sequence = 0 /\ numbered = 0
        /\ \A p \in Producers : producer[p].pc = "ready"
    BY DEF Init, Ready, Closed
  <2>2. Rows = {}
    BY <2>1 DEF Rows
  <2> QED BY <2>1, <2>2
          DEF Seam, Unannounced, InOrder, Fetched, NothingMissed, Subscribed
<1>2. Typed /\ Delivery /\ Seam /\ NothingMissed /\ [Next]_vars
        => (Seam /\ NothingMissed)'
  BY SeamStep
<1> QED BY <1>1, <1>2, DeliveryAlways, PTL DEF Spec
=============================================================================
