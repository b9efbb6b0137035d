----------------------- MODULE ProcessOutput_proofs ------------------------
(***************************************************************************)
(* The order of a process's output: Core stores its chunks in order and    *)
(* each once from one crossing to the next, however many loops are inside  *)
(* transactions at once.                                                   *)
(***************************************************************************)
EXTENDS ProcessRuntime_proofs

USE ConstantsAssumption

\* Output is numbered upwards, but for what was stored across a commit.
InOrder(r) ==
    \A i, j \in 1..Len(r.chunks) :
        i < j => \/ r.chunks[i] < r.chunks[j]
                 \/ \E k \in r.crossed : i < k /\ k <= j

\* The end of the output is not ahead of the last chunk that was accepted, as
\* long as Core takes more.
Bounded(r) == /\ Len(r.chunks) > 0 /\ Len(r.chunks) < Retained
              => r.chunks[Len(r.chunks)] <= r.last

Kept(r) == InOrder(r) /\ Bounded(r)

\* A chunk that is about to be written came after the last one when its handler
\* looked, and no stored output has gone since.
Behind(x) == x.kind = "output" => /\ x.arg > x.seen.last
                                  /\ Len(x.seen.chunks) <= Len(row[x.p].chunks)

Ordered ==
    /\ Typed
    /\ \A p \in Processes : Kept(row[p])
    /\ \A c \in Connections : Behind(loop[c].txn)

\* Behind a tail that the new number is beyond, it is the greatest so far, from
\* the last crossing on.
LEMMA AppendInOrder ==
    ASSUME NEW q \in Seq(Nat), NEW n \in Nat,
           NEW K \in SUBSET Nat, NEW L \in SUBSET Nat,
           \A i, j \in 1..Len(q) :
              i < j => q[i] < q[j] \/ \E k \in K : i < k /\ k <= j,
           K \subseteq L,
           \/ Len(q) + 1 \in L
           \/ Len(q) > 0 => q[Len(q)] < n
    PROVE  \A i, j \in 1..Len(Append(q, n)) :
              i < j => \/ Append(q, n)[i] < Append(q, n)[j]
                       \/ \E k \in L : i < k /\ k <= j
<1> DEFINE r == Append(q, n)
<1>1. /\ Len(q) \in Nat /\ Len(r) = Len(q) + 1
      /\ r[Len(q) + 1] = n
      /\ \A i \in 1..Len(q) : r[i] = q[i] /\ q[i] \in Nat
  OBVIOUS
<1> HIDE DEF r
<1>2. ASSUME NEW i \in 1..Len(r), NEW j \in 1..Len(r), i < j
      PROVE  r[i] < r[j] \/ \E k \in L : i < k /\ k <= j
  <2>1. i \in 1..Len(q)
    BY <1>1, <1>2
  <2>2. CASE j \in 1..Len(q)
    <3>1. q[i] < q[j] \/ \E k \in K : i < k /\ k <= j
      BY <1>2, <2>1, <2>2
    <3>2. r[i] = q[i] /\ r[j] = q[j]
      BY <1>1, <2>1, <2>2
    <3> QED BY <3>1, <3>2
  <2>3. CASE j = Len(q) + 1
    <3>1. CASE Len(q) + 1 \in L
      <4>1. i < Len(q) + 1 /\ Len(q) + 1 <= j
        BY <1>1, <2>1, <2>3
      <4> QED BY <3>1, <4>1
    <3>2. CASE Len(q) + 1 \notin L
      <4>1. Len(q) \in 1..Len(q) /\ q[Len(q)] < n
        BY <1>1, <2>1, <3>2
      <4>2. q[i] \in Nat /\ q[Len(q)] \in Nat
        BY <1>1, <2>1, <4>1
      <4>3. i = Len(q) \/ i < Len(q)
        BY <1>1, <2>1
      <4>4. q[i] <= q[Len(q)] \/ \E k \in K : i < k /\ k <= Len(q)
        <5>1. CASE i = Len(q)
          BY <4>2, <5>1
        <5>2. CASE i < Len(q)
          <6>1. q[i] < q[Len(q)] \/ \E k \in K : i < k /\ k <= Len(q)
            BY <2>1, <4>1, <5>2, Zenon
          <6> QED BY <4>2, <6>1
        <5> QED BY <4>3, <5>1, <5>2
      <4>5. r[i] = q[i] /\ r[j] = n
        BY <1>1, <2>1, <2>3
      <4>6. CASE q[i] <= q[Len(q)]
        BY <4>1, <4>2, <4>5, <4>6
      <4>7. CASE \E k \in K : i < k /\ k <= Len(q)
        <5>1. PICK k \in K : i < k /\ k <= Len(q)
          BY <4>7
        <5>2. k \in L /\ (k <= Len(q) => k <= j) /\ i < k
          <6>1. i \in Int /\ Len(q) \in Int /\ j = Len(q) + 1
            BY <1>1, <2>1, <2>3
          <6>2. k \in Int
            OBVIOUS
          <6> QED BY <5>1, <6>1, <6>2
        <5> QED BY <5>1, <5>2
      <4> QED BY <4>4, <4>6, <4>7
    <3> QED BY <3>1, <3>2
  <2> QED BY <1>1, <2>2, <2>3
<1> QED BY <1>2 DEF r

\* A commit keeps the order, and takes nothing away: a chunk that does not
\* cross another's commit finds the row as its handler saw it.
LEMMA CommittedOrder ==
    ASSUME NEW x \in TxnType, Live(x), NEW r \in RowType, Kept(r),
           x.kind = "output" => /\ x.arg > x.seen.last
                                /\ Len(x.seen.chunks) <= Len(r.chunks)
    PROVE  /\ Kept(Committed(x, r))
           /\ Len(r.chunks) <= Len(Committed(x, r).chunks)
<1> DEFINE s == Committed(x, r)
           q == r.chunks
<1>1. /\ q \in Seq(Nat \ {0}) /\ q \in Seq(Nat) /\ Len(q) \in Nat
      /\ x.arg \in Nat /\ r.last \in Nat /\ r.crossed \in SUBSET Nat
      /\ Retained \in Nat
  <2>1. r.chunks \in Seq(Nat \ {0}) /\ x.arg \in Nat /\ r.last \in Nat
        /\ r.crossed \in SUBSET Nat
    BY DEF RowType, TxnType
  <2>2. r.chunks \in Seq(Nat)
    BY <2>1
  <2> QED BY <2>1, <2>2
<1> HIDE DEF s
<1>2. CASE x.kind # "output"
  <2>1. s.chunks = q /\ s.last = r.last /\ s.crossed = r.crossed
    BY <1>2, CommittedRow DEF s
  <2> QED BY <1>1, <2>1 DEF s, Kept, InOrder, Bounded
<1>3. CASE x.kind = "output" /\ ~(Len(x.seen.chunks) < Retained)
  <2>1. s.chunks = q /\ s.crossed = r.crossed
    BY <1>3, CommittedRow DEF s
  <2>2. ~(Len(q) < Retained)
    <3>1. Len(x.seen.chunks) \in Nat
      BY DEF TxnType, RowType
    <3> QED BY <1>1, <1>3, <3>1
  <2> QED BY <1>1, <2>1, <2>2 DEF s, Kept, InOrder, Bounded
<1>4. CASE x.kind = "output" /\ Len(x.seen.chunks) < Retained
  <2> DEFINE K == r.crossed
             L == IF Crosses(x, r) THEN r.crossed \cup {Len(q) + 1} ELSE r.crossed
  <2>1. s.chunks = Append(q, x.arg) /\ s.crossed = L /\ s.last = x.arg
    BY <1>4, CommittedRow DEF s
  <2>2. K \in SUBSET Nat /\ L \in SUBSET Nat /\ K \subseteq L
    BY <1>1
  <2>3. \/ Len(q) + 1 \in L
        \/ Len(q) > 0 => q[Len(q)] < x.arg
    <3>1. CASE Crosses(x, r)
      BY <3>1
    <3>2. CASE ~Crosses(x, r)
      <4>1. x.seen.last = r.last /\ x.seen.chunks = q
        BY <3>2 DEF Crosses
      <4>2. Len(q) > 0 => q[Len(q)] <= r.last
        BY <1>4, <4>1 DEF Kept, Bounded
      <4>3. Len(q) > 0 => q[Len(q)] \in Nat
        BY <1>1
      <4> QED BY <1>1, <1>4, <4>1, <4>2, <4>3
    <3> QED BY <3>1, <3>2
  <2>4. \A i, j \in 1..Len(q) :
          i < j => q[i] < q[j] \/ \E k \in K : i < k /\ k <= j
    BY DEF Kept, InOrder
  <2> HIDE DEF L, K
  <2>5. InOrder(s)
    BY <1>1, <2>1, <2>2, <2>3, <2>4, AppendInOrder DEF InOrder
  <2>6. /\ Len(Append(q, x.arg)) = Len(q) + 1
        /\ Append(q, x.arg)[Len(q) + 1] = x.arg
    BY <1>1
  <2>7. Bounded(s)
    BY <1>1, <2>1, <2>6 DEF Bounded
  <2> QED BY <1>1, <2>1, <2>5, <2>6, <2>7 DEF s, Kept
<1> QED BY <1>2, <1>3, <1>4

\* The rows' output stays as it is, and every loop keeps its transaction, ends
\* it, or is in one that takes no output or judged it by the row as it stands.
LEMMA OrderKept ==
    ASSUME Ordered, Typed',
           \A p \in Processes : /\ row'[p].chunks = row[p].chunks
                                /\ row'[p].last = row[p].last
                                /\ row'[p].crossed = row[p].crossed,
           \A d \in Connections : \/ loop'[d].txn = loop[d].txn
                                  \/ loop'[d].txn.kind # "output"
                                  \/ Behind(loop'[d].txn)
    PROVE  Ordered'
<1>1. \A p \in Processes : Kept(row'[p])
  BY DEF Ordered, Kept, InOrder, Bounded
<1>2. LoopsOK'
  BY TypedParts, PTL
<1>3. \A d \in Connections :
        loop'[d].txn.kind = "output" => loop'[d].txn.p \in Processes
  BY <1>2, Blank DEF LoopsOK, Sane, Live
<1>4. \A d \in Connections : Behind(loop'[d].txn)
  BY DEF Ordered, Behind
<1>5. \A d \in Connections : loop'[d].txn.kind = "output" =>
        /\ loop'[d].txn.arg > loop'[d].txn.seen.last
        /\ Len(loop'[d].txn.seen.chunks) <= Len(row'[loop'[d].txn.p].chunks)
  BY <1>3, <1>4 DEF Behind
<1> QED BY <1>1, <1>5 DEF Ordered, Behind

\* Callers write the status alone.
LEMMA CallersOrder ==
    ASSUME Ordered, NEW p \in Processes,
           \/ StartCreate(p) \/ Start(p) \/ WaitRead(p) \/ Wait(p)
           \/ WaitTimeout(p) \/ StopBegin(p) \/ Stop(p)
           \/ Output(p) \/ Watchdog(p) \/ Exit(p)
    PROVE  Ordered'
<1> USE DEF core, agent, wire
<1>0. /\ Typed /\ RowOK /\ StartersOK /\ StoppersOK
      /\ row[p] \in RowType /\ Kept(row[p])
  BY TypedParts DEF Ordered, RowOK
<1>1. Typed'
  BY <1>0, StartTyped, WaitTyped, StopTyped, SubprocessTyped
<1>2. UNCHANGED loop
  BY DEF StartCreate, Start, StartRegister, StartSend, StartTimeout, StartFailLoad,
     StartFailCommit, StartRetract, StartReturn, WaitRead, Wait, WaitRegister,
     WaitRecheck, WaitReturn, WaitTimeout, StopBegin, Stop, StopLoad, StopCommit,
     StopSend, StopLoseLoad, StopResolve, Output, Watchdog, Exit
<1>3. \A q \in Processes : /\ row'[q].chunks = row[q].chunks
                           /\ row'[q].last = row[q].last
                           /\ row'[q].crossed = row[q].crossed
  <2>1. CASE UNCHANGED row
    BY <2>1
  <2>2. CASE StartCreate(p)
    BY <1>0, <2>2 DEF StartCreate, RowOK, RowType
  <2>3. ASSUME NEW x \in TxnType, Live(x), x.kind # "output",
               row' = [row EXCEPT ![p] = Committed(x, row[p])]
        PROVE  \A q \in Processes : /\ row'[q].chunks = row[q].chunks
                                    /\ row'[q].last = row[q].last
                                    /\ row'[q].crossed = row[q].crossed
    <3> DEFINE r == Committed(x, row[p])
    <3>1. /\ r.chunks = row[p].chunks /\ r.last = row[p].last
          /\ r.crossed = row[p].crossed
      BY <1>0, <2>3, CommittedRow
    <3> HIDE DEF r
    <3>2. row' = [row EXCEPT ![p] = r]
      BY <2>3 DEF r
    <3> QED BY <1>0, <3>1, <3>2 DEF RowOK
  <2>4. CASE StartFailCommit(p)
    <3> DEFINE x == starter[p].txn
    <3>1. x \in TxnType /\ Live(x) /\ x.kind # "output"
      BY <1>0, <2>4 DEF StartFailCommit, StartersOK, StarterType, Sane
    <3>2. row' = [row EXCEPT ![p] = Committed(x, row[p])]
      BY <2>4 DEF StartFailCommit
    <3> HIDE DEF x
    <3> QED BY <2>3, <3>1, <3>2
  <2>5. CASE StopCommit(p)
    <3> DEFINE x == stopper[p].txn
    <3>1. x \in TxnType /\ Live(x) /\ x.kind # "output"
      BY <1>0, <2>5 DEF StopCommit, StoppersOK, StopperType, Sane
    <3>2. row' = [row EXCEPT ![p] = Committed(x, row[p])]
      BY <2>5 DEF StopCommit
    <3> HIDE DEF x
    <3> QED BY <2>3, <3>1, <3>2
  <2> QED BY <2>1, <2>2, <2>4, <2>5 DEF Start, StartRegister, StartSend,
        StartTimeout, StartFailLoad, StartRetract, StartReturn, WaitRead, Wait,
        WaitRegister, WaitRecheck, WaitReturn, WaitTimeout, StopBegin, Stop,
        StopLoad, StopSend, StopLoseLoad, StopResolve, Output, Watchdog, Exit
<1> QED BY <1>1, <1>2, <1>3, OrderKept

\* Loops that come and go, and that end or begin a transaction on their own.
LEMMA LoopsOrder ==
    ASSUME Ordered, NEW c \in Connections,
           \/ Register(c) \/ Greet(c) \/ LoopEnd(c) \/ LoopResolve(c)
           \/ SnapshotBegin(c) \/ SnapshotItem(c) \/ SnapshotRequest(c)
           \/ SnapshotSweep(c) \/ SnapshotAbsent(c)
    PROVE  Ordered'
<1> USE DEF core, agent, wire
<1>0. Typed /\ loop \in [Connections -> LoopType] /\ loop[c] \in LoopType
  BY TypedParts DEF Ordered, LoopsOK
<1>1. /\ Typed'
      /\ \A q \in Processes : /\ row'[q].chunks = row[q].chunks
                              /\ row'[q].last = row[q].last
                              /\ row'[q].crossed = row[q].crossed
  <2>1. Typed'
    BY <1>0, ConnectionTyped, WriteTyped, SnapshotTyped
  <2>2. CASE UNCHANGED row
    BY <2>1, <2>2
  <2>3. CASE SnapshotBegin(c)
    <3>1. RowOK
      BY <1>0, TypedParts
    <3>2. row' = [p \in Processes |-> [row[p] EXCEPT !.revived = FALSE]]
      BY <2>3, Zenon DEF SnapshotBegin
    <3> QED BY <2>1, <3>1, <3>2, SettledRows
  <2> QED BY <2>2, <2>3 DEF Register, Greet, LoopEnd, LoopResolve, SnapshotItem,
        SnapshotRequest, SnapshotSweep, SnapshotAbsent
<1>2. NoLoop.txn = NoTxn
  BY Blank
<1>3. CASE \/ Register(c) \/ Greet(c) \/ LoopEnd(c) \/ LoopResolve(c)
           \/ SnapshotBegin(c) \/ SnapshotRequest(c) \/ SnapshotSweep(c)
  <2>1. \A d \in Connections : loop'[d].txn = loop[d].txn \/ loop'[d].txn = NoTxn
    <3>1. CASE LoopEnd(c)
      BY <1>0, <1>2, <3>1 DEF LoopEnd
    <3>2. CASE LoopResolve(c)
      BY <1>0, <3>2 DEF LoopResolve, LoopType
    <3>3. CASE Register(c) \/ Greet(c)
      <4>1. PICK pc : loop' = [loop EXCEPT ![c].pc = pc]
        BY <3>3 DEF Register, Greet
      <4> QED BY <1>0, <4>1 DEF LoopType
    <3>4. ASSUME NEW pc, NEW report, NEW todo,
                 loop' = [loop EXCEPT ![c].pc = pc, ![c].report = report,
                                      ![c].todo = todo]
          PROVE  \A d \in Connections : loop'[d].txn = loop[d].txn
      BY <1>0, <3>4 DEF LoopType
    <3>5. CASE SnapshotBegin(c)
      <4>1. loop' = [loop EXCEPT ![c].pc = "items",
                                 ![c].report = Head(toCore[c]).sessions,
                                 ![c].todo = Tracked(Head(toCore[c]).sessions)]
        BY <3>5, Zenon DEF SnapshotBegin
      <4> QED BY <3>4, <4>1
    <3>6. CASE SnapshotSweep(c)
      <4>1. loop' = [loop EXCEPT ![c].pc = "absent", ![c].report = NoReport,
                       ![c].todo = {p \in Processes \ Tracked(loop[c].report) :
                                      row[p].status \in ActiveStatus}]
        BY <3>6, Zenon DEF SnapshotSweep
      <4> QED BY <3>4, <4>1
    <3>7. CASE SnapshotRequest(c)
      <4>1. loop' = [loop EXCEPT ![c].pc = "items", ![c].item = NoProcess,
                                 ![c].after = 0]
        BY <3>7, Zenon DEF SnapshotRequest
      <4> QED BY <1>0, <4>1 DEF LoopType
    <3> QED BY <1>3, <3>1, <3>2, <3>3, <3>5, <3>6, <3>7
  <2> QED BY <1>1, <1>2, <2>1, Blank, OrderKept
<1>4. CASE SnapshotItem(c) \/ SnapshotAbsent(c)
  <2>1. /\ \A d \in Connections \ {c} : loop'[d].txn = loop[d].txn
        /\ loop'[c].txn.kind # "output"
    <3>1. CASE SnapshotItem(c)
      <4> DEFINE missed(p) ==
            IF loop[c].report[p].status \in Final /\ row[p].status \in ActiveStatus
            THEN Loaded("exited", p, 0, loop[c].report[p].status)
            ELSE IF loop[c].report[p].status = "running"
                    /\ row[p].status \in {"starting", "running"}
            THEN Loaded("started", p, 0, "none")
            ELSE NoTxn
      <4>1. PICK p \in loop[c].todo :
              loop' = [loop EXCEPT ![c].pc = "request", ![c].item = p,
                                   ![c].after = row[p].last,
                                   ![c].todo = @ \ {p}, ![c].txn = missed(p)]
        BY <3>1 DEF SnapshotItem
      <4> DEFINE x == missed(p)
                 rest == loop[c].todo \ {p}
                 after == row[p].last
      <4>2. x.kind # "output"
        BY Blank DEF Loaded
      <4>3. loop' = [loop EXCEPT ![c].pc = "request", ![c].item = p,
                       ![c].after = after, ![c].todo = rest, ![c].txn = x]
        BY <1>0, <4>1
      <4> HIDE DEF missed, x, rest, after
      <4>4. /\ \A d \in Connections \ {c} : loop'[d].txn = loop[d].txn
            /\ loop'[c].txn = x
        BY <1>0, <4>3 DEF LoopType
      <4> QED BY <4>2, <4>4
    <3>2. CASE SnapshotAbsent(c)
      <4>1. CASE loop' = [loop EXCEPT ![c].pc = "idle"]
        <5>1. loop[c].txn = NoTxn
          BY <3>2 DEF SnapshotAbsent
        <5>2. \A d \in Connections : loop'[d].txn = loop[d].txn
          BY <1>0, <4>1 DEF LoopType
        <5> QED BY <5>1, <5>2, Blank
      <4>2. CASE loop' # [loop EXCEPT ![c].pc = "idle"]
        <5>1. \E p \in loop[c].todo :
                loop' = [loop EXCEPT ![c].todo = @ \ {p},
                           ![c].txn = IF Applies("lost", p, 0)
                                      THEN Loaded("lost", p, 0, "none") ELSE NoTxn]
          BY <3>2, <4>2 DEF SnapshotAbsent
        <5>2. PICK p \in loop[c].todo :
                loop' = [loop EXCEPT ![c].todo = @ \ {p},
                           ![c].txn = IF Applies("lost", p, 0)
                                      THEN Loaded("lost", p, 0, "none") ELSE NoTxn]
          BY <5>1
        <5> DEFINE x == IF Applies("lost", p, 0)
                        THEN Loaded("lost", p, 0, "none") ELSE NoTxn
                   rest == loop[c].todo \ {p}
        <5>3. x.kind # "output"
          BY Blank DEF Loaded
        <5>4. loop' = [loop EXCEPT ![c].todo = rest, ![c].txn = x]
          BY <1>0, <5>2
        <5> HIDE DEF x, rest
        <5>5. /\ \A d \in Connections \ {c} : loop'[d].txn = loop[d].txn
              /\ loop'[c].txn = x
          BY <1>0, <5>4 DEF LoopType
        <5> QED BY <5>3, <5>5
      <4> QED BY <4>1, <4>2
    <3> QED BY <1>4, <3>1, <3>2
  <2> QED BY <1>1, <2>1, OrderKept
<1> QED BY <1>3, <1>4

\* A handler takes output only if it is ahead of the row it looks at.
LEMMA HandleOrder ==
    ASSUME Ordered, NEW c \in Connections, Handle(c)
    PROVE  Ordered'
<1> USE DEF core, agent, wire
<1> DEFINE m == Head(toCore[c])
           kind == IF m.kind = "error" THEN "failed" ELSE m.kind
           y == Loaded(kind, m.p, m.arg, m.end)
           z == [y EXCEPT !.phase = "written"]
<1>0. Typed /\ RowOK /\ loop \in [Connections -> LoopType]
  BY TypedParts DEF Ordered, LoopsOK
<1>1. Typed'
  BY <1>0, HandleTyped
<1>2. /\ UNCHANGED row
      /\ loop' = [loop EXCEPT ![c].txn =
                    IF Applies(kind, m.p, m.arg) THEN y
                    ELSE IF kind = "failed" THEN z ELSE NoTxn]
  BY Zenon DEF Handle
<1>3. /\ y.kind = kind /\ y.p = m.p /\ y.arg = m.arg /\ y.seen = row[m.p]
      /\ z.kind = kind
  BY DEF Loaded
<1>4. kind = "output" /\ Applies(kind, m.p, m.arg) => m.arg > row[m.p].last
  BY DEF Applies
<1> HIDE DEF m, kind, y, z
<1>5. /\ \A d \in Connections \ {c} : loop'[d].txn = loop[d].txn
      /\ loop'[c].txn = IF Applies(kind, m.p, m.arg) THEN y
                        ELSE IF kind = "failed" THEN z ELSE NoTxn
  BY <1>0, <1>2 DEF LoopType
<1>6. loop'[c].txn.kind # "output" \/ Behind(loop'[c].txn)
  <2>1. CASE Applies(kind, m.p, m.arg) /\ kind = "output"
    <3>1. loop'[c].txn = y /\ y.p \in Processes
      <4>1. loop'[c].txn = y
        BY <1>5, <2>1
      <4>2. LoopsOK'
        BY <1>1, TypedParts, PTL
      <4> QED BY <1>3, <2>1, <4>1, <4>2, Blank DEF LoopsOK, Sane, Live
    <3>2. Len(y.seen.chunks) \in Nat
      BY <1>0, <1>3, <3>1 DEF RowOK, RowType
    <3>3. Behind(y)
      BY <1>3, <1>4, <2>1, <3>1, <3>2 DEF Behind
    <3> QED BY <3>1, <3>3
  <2>2. CASE ~(Applies(kind, m.p, m.arg) /\ kind = "output")
    BY <1>3, <1>5, <2>2, Blank
  <2> QED BY <2>1, <2>2
<1> QED BY <1>1, <1>2, <1>5, <1>6, OrderKept

\* The row is written as the commit makes it, and the other loops' rows only
\* grow.
LEMMA CommitOrder ==
    ASSUME Ordered, NEW c \in Connections, LoopCommit(c)
    PROVE  Ordered'
<1> USE DEF core, agent, wire
<1> DEFINE x == loop[c].txn
           p == x.p
           r == Committed(x, row[p])
           z == [x EXCEPT !.phase = "written"]
<1>0. /\ Typed /\ RowOK /\ LoopsOK
      /\ loop \in [Connections -> LoopType] /\ loop[c] \in LoopType
  BY TypedParts DEF Ordered, LoopsOK
<1>1. Typed'
  BY <1>0, WriteTyped
<1>2. /\ x.phase # "none"
      /\ row' = [row EXCEPT ![p] = r]
      /\ loop' = [loop EXCEPT ![c].txn = IF x.kind = "output" THEN NoTxn ELSE z]
  BY DEF LoopCommit
<1>3. x \in TxnType /\ Live(x) /\ p \in Processes
  BY <1>0, <1>2, Blank DEF LoopsOK, LoopType, Sane, Live
<1>4. row[p] \in RowType /\ Kept(row[p]) /\ Behind(x)
  BY <1>0, <1>3 DEF RowOK, Ordered
<1>5. Kept(r) /\ Len(row[p].chunks) <= Len(r.chunks)
  BY <1>3, <1>4, CommittedOrder DEF Behind
<1>6. z.kind = x.kind
  BY <1>3 DEF TxnType
<1> HIDE DEF x, p, r, z
<1>7. /\ \A d \in Connections \ {c} : loop'[d].txn = loop[d].txn
      /\ loop'[c].txn = IF x.kind = "output" THEN NoTxn ELSE z
  BY <1>0, <1>2 DEF LoopType
<1>8. row'[p] = r /\ \A q \in Processes \ {p} : row'[q] = row[q]
  BY <1>0, <1>2, <1>3 DEF RowOK
<1>9. \A q \in Processes : Kept(row'[q])
  BY <1>5, <1>8 DEF Ordered
<1>10. \A q \in Processes : Len(row[q].chunks) <= Len(row'[q].chunks)
  <2>1. \A q \in Processes : Len(row[q].chunks) \in Nat
    BY <1>0 DEF RowOK, RowType
  <2> QED BY <1>5, <1>8, <2>1
<1>11. ASSUME NEW d \in Connections, loop'[d].txn.kind = "output"
       PROVE  /\ loop'[d].txn.arg > loop'[d].txn.seen.last
              /\ Len(loop'[d].txn.seen.chunks) <= Len(row'[loop'[d].txn.p].chunks)
  <2> DEFINE t == loop[d].txn
  <2>1. loop'[d].txn = t
    BY <1>6, <1>7, <1>11, Blank
  <2>2. t \in TxnType /\ t.p \in Processes /\ Behind(t)
    BY <1>0, <1>11, <2>1, Blank DEF LoopsOK, LoopType, Sane, Live, Ordered
  <2>3. t.arg > t.seen.last /\ Len(t.seen.chunks) <= Len(row[t.p].chunks)
    BY <1>11, <2>1, <2>2 DEF Behind
  <2> HIDE DEF t
  <2>4. /\ Len(t.seen.chunks) \in Nat /\ Len(row[t.p].chunks) \in Nat
        /\ Len(row'[t.p].chunks) \in Nat
    <3>1. t.seen \in RowType
      BY <2>2 DEF TxnType
    <3>2. RowOK'
      BY <1>1, TypedParts, PTL
    <3>3. row[t.p] \in RowType /\ row'[t.p] \in RowType
      BY <1>0, <2>2, <3>2 DEF RowOK
    <3>4. \A s \in RowType : Len(s.chunks) \in Nat
      BY DEF RowType
    <3> QED BY <3>1, <3>3, <3>4, Zenon
  <2>5. Len(row[t.p].chunks) <= Len(row'[t.p].chunks)
    BY <1>10, <2>2, Zenon
  <2>6. Len(t.seen.chunks) <= Len(row'[t.p].chunks)
    <3>1. \A i, j, k \in Nat : i <= j /\ j <= k => i <= k
      OBVIOUS
    <3> QED BY <2>3, <2>4, <2>5, <3>1, Zenon
  <2> QED BY <2>1, <2>3, <2>6
<1>12. \A d \in Connections : loop'[d].txn.kind = "output" =>
         /\ loop'[d].txn.arg > loop'[d].txn.seen.last
         /\ Len(loop'[d].txn.seen.chunks) <= Len(row'[loop'[d].txn.p].chunks)
  BY <1>11
<1> QED BY <1>1, <1>9, <1>12 DEF Ordered, Behind

\* The Agent's steps and the restarts leave output and transactions alone.
LEMMA AgentOrder ==
    ASSUME Ordered,
           Receiver \/ Connect \/ Drop \/ AgentRestart \/ CoreRestart
    PROVE  Ordered'
<1> USE DEF core, agent, wire
<1>0. Typed /\ loop \in [Connections -> LoopType]
  BY TypedParts DEF Ordered, LoopsOK
<1>1. Typed'
  BY <1>0, LinkTyped, CommandTyped, ReplayTyped, RestartTyped DEF Receiver
<1>2. UNCHANGED row
  BY DEF Receiver, Welcomed, AgentIgnore, AgentStart, AgentTerminate, AgentReplay,
     AgentReplayStep, Connect, Drop, AgentRestart, CoreRestart
<1>3. \A d \in Connections : loop'[d].txn = loop[d].txn \/ loop'[d].txn = NoTxn
  <2>1. CASE UNCHANGED loop
    BY <2>1
  <2>2. CASE Connect
    BY <1>0, <2>2 DEF Connect, LoopType
  <2>3. CASE CoreRestart
    BY <2>3, Blank DEF CoreRestart
  <2> QED BY <2>1, <2>2, <2>3 DEF Receiver, Welcomed, AgentIgnore, AgentStart,
        AgentTerminate, AgentReplay, AgentReplayStep, Drop, AgentRestart
<1> QED BY <1>1, <1>2, <1>3, Blank, OrderKept

LEMMA InitOrder == Init => Ordered
<1> SUFFICES ASSUME Init PROVE Ordered
  OBVIOUS
<1>1. Typed
  BY InitTyped
<1>2. /\ row = [p \in Processes |-> NewRow]
      /\ loop = [c \in Connections |-> NoLoop]
  BY DEF Init
<1>3. \A c \in Connections : Behind(loop[c].txn)
  BY <1>2, Blank DEF Behind
<1>4. NewRow.chunks = <<>> /\ Len(<<>>) = 0
  BY DEF NewRow
<1>5. Kept(NewRow)
  BY <1>4 DEF Kept, InOrder, Bounded
<1> QED BY <1>1, <1>2, <1>3, <1>5 DEF Ordered

LEMMA StepOrder ==
    ASSUME Ordered, [Next]_vars
    PROVE  Ordered'
<1>1. CASE UNCHANGED vars
  BY <1>1, StepTyped, OrderKept DEF Ordered, vars, core
<1>2. ASSUME NEW p \in Processes,
             \/ StartCreate(p) \/ Start(p) \/ WaitRead(p) \/ Wait(p)
             \/ WaitTimeout(p) \/ StopBegin(p) \/ Stop(p)
             \/ Output(p) \/ Watchdog(p) \/ Exit(p)
      PROVE  Ordered'
  BY <1>2, CallersOrder
<1>3. ASSUME NEW c \in Connections, Loop(c)
      PROVE  Ordered'
  BY <1>3, LoopsOrder, HandleOrder, CommitOrder DEF Loop
<1>4. CASE Receiver \/ Connect \/ Drop \/ AgentRestart \/ CoreRestart
  BY <1>4, AgentOrder
<1> QED BY <1>1, <1>2, <1>3, <1>4 DEF Next

\* Core keeps the chunks of a process in order and each of them once from one
\* crossing to the next, however live output, replayed output and old
\* connections mix and whoever else is inside a transaction: out of place is only
\* a chunk whose handler had loaded the row before another one stored output.
\* (_handle_output)
THEOREM OutputInOrder == Spec => []ChunksInOrder
<1>1. Ordered => ChunksInOrder
  BY DEF Ordered, Kept, InOrder, ChunksInOrder
<1>2. Ordered /\ [Next]_vars => Ordered'
  BY StepOrder
<1> QED BY <1>1, <1>2, InitOrder, PTL DEF Spec
=============================================================================
