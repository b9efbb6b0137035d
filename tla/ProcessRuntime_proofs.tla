----------------------- MODULE ProcessRuntime_proofs -----------------------
(***************************************************************************)
(* Theorems of ProcessRuntime, for every set of processes, connections and *)
(* timeouts, whatever the Agent and Core retain, and every bound on what   *)
(* the environment does.                                                   *)
(***************************************************************************)
EXTENDS ProcessRuntime, SequenceTheorems, TLAPS

USE ConstantsAssumption

\* The elements of a queue.
Elements(q) == {q[i] : i \in 1..Len(q)}

-----------------------------------------------------------------------------
(* Queues.                                                                 *)

\* What a queue holds after its head has been taken, or something is appended.
LEMMA QueueElements ==
    ASSUME NEW S, NEW q \in Seq(S)
    PROVE  /\ Elements(q) \subseteq S
           /\ \A e \in S : /\ Append(q, e) \in Seq(S)
                           /\ Elements(Append(q, e)) = Elements(q) \cup {e}
           /\ q # <<>> => /\ Tail(q) \in Seq(S) /\ Head(q) \in S
                          /\ Elements(q) = Elements(Tail(q)) \cup {Head(q)}
<1>1. Elements(q) \subseteq S
  BY DEF Elements
<1>2. ASSUME NEW e \in S
      PROVE  /\ Append(q, e) \in Seq(S)
             /\ Elements(Append(q, e)) = Elements(q) \cup {e}
  <2>1. /\ Len(q) \in Nat /\ Len(Append(q, e)) = Len(q) + 1
        /\ Append(q, e)[Len(q) + 1] = e
        /\ \A i \in 1..Len(q) : Append(q, e)[i] = q[i]
        /\ Append(q, e) \in Seq(S)
    OBVIOUS
  <2>2. e \in Elements(Append(q, e))
    BY <2>1 DEF Elements
  <2>3. \A i \in 1..Len(q) : i \in 1..Len(Append(q, e))
    BY <2>1
  <2>4. Elements(q) \subseteq Elements(Append(q, e))
    BY <2>1, <2>3 DEF Elements
  <2>5. Elements(Append(q, e)) \subseteq Elements(q) \cup {e}
    BY <2>1 DEF Elements
  <2> QED BY <2>1, <2>2, <2>4, <2>5
<1>3. ASSUME q # <<>>
      PROVE  /\ Tail(q) \in Seq(S) /\ Head(q) \in S
             /\ Elements(q) = Elements(Tail(q)) \cup {Head(q)}
  <2>1. /\ Tail(q) \in Seq(S) /\ Len(q) \in Nat \ {0}
        /\ Len(Tail(q)) = Len(q) - 1
        /\ \A i \in 1..Len(q) - 1 : Tail(q)[i] = q[i + 1]
        /\ Head(q) = q[1] /\ Head(q) \in S
    BY <1>3
  <2>2. Elements(Tail(q)) \subseteq Elements(q)
    BY <2>1 DEF Elements
  <2>3. Head(q) \in Elements(q)
    BY <2>1 DEF Elements
  <2>4. ASSUME NEW i \in 1..Len(q)
        PROVE  q[i] \in Elements(Tail(q)) \cup {Head(q)}
    <3>1. CASE i = 1
      BY <2>1, <3>1
    <3>2. CASE i # 1
      <4>1. i - 1 \in 1..Len(Tail(q)) /\ Tail(q)[i - 1] = q[i]
        BY <2>1, <3>2
      <4> QED BY <4>1 DEF Elements
    <3> QED BY <3>1, <3>2
  <2>5. Elements(q) \subseteq Elements(Tail(q)) \cup {Head(q)}
    BY <2>4 DEF Elements
  <2> QED BY <2>1, <2>2, <2>3, <2>5
<1> QED BY <1>1, <1>2, <1>3

\* The empty queue, and a queue of one message.
LEMMA ShortQueues ==
    ASSUME NEW S
    PROVE  /\ <<>> \in Seq(S) /\ Elements(<<>>) = {}
           /\ \A e \in S : <<e>> \in Seq(S) /\ Elements(<<e>>) = {e}
<1>1. <<>> \in Seq(S) /\ Elements(<<>>) = {}
  BY DEF Elements
<1>2. ASSUME NEW e \in S PROVE <<e>> \in Seq(S) /\ Elements(<<e>>) = {e}
  BY DEF Elements
<1> QED BY <1>1, <1>2

\* What two queues hold together.
LEMMA JoinedElements ==
    ASSUME NEW S, NEW q \in Seq(S), NEW r \in Seq(S)
    PROVE  /\ q \o r \in Seq(S)
           /\ Elements(q \o r) = Elements(q) \cup Elements(r)
<1>1. /\ q \o r \in Seq(S) /\ Len(q \o r) = Len(q) + Len(r)
      /\ Len(q) \in Nat /\ Len(r) \in Nat
      /\ \A i \in 1..Len(q) : (q \o r)[i] = q[i]
      /\ \A i \in 1..Len(r) : (q \o r)[Len(q) + i] = r[i]
      /\ \A i \in 1..Len(q) + Len(r) : i > Len(q) => (q \o r)[i] = r[i - Len(q)]
  BY ConcatProperties
<1>2. Elements(q) \subseteq Elements(q \o r)
  <2>1. \A i \in 1..Len(q) : i \in 1..Len(q \o r)
    BY <1>1
  <2> QED BY <1>1, <2>1 DEF Elements
<1>3. Elements(r) \subseteq Elements(q \o r)
  <2>1. \A i \in 1..Len(r) : Len(q) + i \in 1..Len(q \o r)
    BY <1>1
  <2> QED BY <1>1, <2>1 DEF Elements
<1>4. ASSUME NEW i \in 1..Len(q \o r)
      PROVE  (q \o r)[i] \in Elements(q) \cup Elements(r)
  <2>1. CASE i <= Len(q)
    BY <1>1, <2>1 DEF Elements
  <2>2. CASE i > Len(q)
    <3>1. i - Len(q) \in 1..Len(r) /\ (q \o r)[i] = r[i - Len(q)]
      BY <1>1, <2>2
    <3> QED BY <3>1 DEF Elements
  <2> QED BY <1>1, <2>1, <2>2
<1>5. Elements(q \o r) \subseteq Elements(q) \cup Elements(r)
  BY <1>4 DEF Elements
<1> QED BY <1>1, <1>2, <1>3, <1>5

-----------------------------------------------------------------------------
(* Type correctness.                                                       *)

\* A transaction that is under way is on the row of a process; the end it will
\* write is one, and the chunk it will add has a number.
Live(x) ==
    /\ x.p \in Processes /\ x.kind # "none" /\ x.phase # "none"
    /\ x.kind = "exited" => x.end \in Ended
    /\ x.kind = "output" => x.arg # 0

Sane(x) == x = NoTxn \/ Live(x)

Transactions ==
    /\ \A c \in Connections : Sane(loop[c].txn)
    /\ \A p \in Processes :
        /\ Sane(starter[p].txn) /\ starter[p].txn.kind \in {"none", "failed"}
        /\ Sane(stopper[p].txn) /\ stopper[p].txn.kind \in {"none", "cancel", "lost"}

\* A handler is at a process, a link leads to a connection, an end that is told
\* is one, and what is replayed is output.
Messages ==
    /\ \A c \in Connections : loop[c].pc = "request" => loop[c].item \in Processes
    /\ link = NoLink \/ link.at \in Connections
    /\ \A c \in Connections : \A m \in Elements(toCore[c]) :
        m.kind = "exited" => m.end \in Ended
    /\ \A m \in Elements(replay) : m.kind = "output"

Typed == TypeOK /\ Transactions /\ Messages

\* Each by the part of the state it is about.
RowOK == row \in [Processes -> RowType]

StartersOK ==
    /\ starter \in [Processes -> StarterType]
    /\ \A p \in Processes :
        /\ Sane(starter[p].txn)
        /\ starter[p].txn.kind \in {"none", "failed"}

StoppersOK ==
    /\ stopper \in [Processes -> StopperType]
    /\ \A p \in Processes :
        /\ Sane(stopper[p].txn)
        /\ stopper[p].txn.kind \in {"none", "cancel", "lost"}

WaitersOK == waiter \in [Processes -> WaiterType]

LoopsOK ==
    /\ loop \in [Connections -> LoopType]
    /\ \A c \in Connections :
        /\ Sane(loop[c].txn)
        /\ loop[c].pc = "request" => loop[c].item \in Processes

LinkOK ==
    /\ link \in [at : Connections \cup {NoConnection},
                 phase : {"none", "hello", "attached"}]
    /\ link = NoLink \/ link.at \in Connections
    /\ replay \in Seq(ToCoreType)
    /\ \A m \in Elements(replay) : m.kind = "output"

OutboundOK == /\ registered \in Connections \cup {NoConnection}
              /\ toAgent \in Seq(ToAgentType)

InboundOK ==
    /\ toCore \in [Connections -> Seq(ToCoreType)]
    /\ \A c \in Connections : \A m \in Elements(toCore[c]) :
        m.kind = "exited" => m.end \in Ended

AgentOK == /\ session \in [Processes -> SessionType]
           /\ outcome \in [Processes -> {"none"} \cup Ended]

BudgetOK == budget \in [output : Nat, waits : Nat, stops : Nat, faults : Nat,
                        trouble : Nat, timed : SUBSET Processes]

LEMMA TypedParts ==
    Typed <=> /\ RowOK /\ StartersOK /\ StoppersOK /\ WaitersOK /\ LoopsOK
              /\ LinkOK /\ OutboundOK /\ InboundOK /\ AgentOK /\ BudgetOK
<1>1. Typed => /\ RowOK /\ StartersOK /\ StoppersOK /\ WaitersOK /\ LoopsOK
               /\ LinkOK /\ OutboundOK /\ InboundOK /\ AgentOK /\ BudgetOK
  <2>1. Typed => /\ RowOK /\ WaitersOK /\ OutboundOK /\ AgentOK /\ BudgetOK
    BY DEF Typed, TypeOK, RowOK, WaitersOK, OutboundOK, AgentOK, BudgetOK
  <2>2. Typed => StartersOK /\ StoppersOK
    BY DEF Typed, TypeOK, Transactions, StartersOK, StoppersOK
  <2>3. Typed => LoopsOK
    BY DEF Typed, TypeOK, Transactions, Messages, LoopsOK
  <2>4. Typed => LinkOK /\ InboundOK
    BY DEF Typed, TypeOK, Messages, LinkOK, InboundOK
  <2> QED BY <2>1, <2>2, <2>3, <2>4
<1>2. ASSUME RowOK, StartersOK, StoppersOK, WaitersOK, LoopsOK,
             LinkOK, OutboundOK, InboundOK, AgentOK, BudgetOK
      PROVE  Typed
  <2>1. TypeOK
    BY <1>2 DEF TypeOK, RowOK, StartersOK, StoppersOK, WaitersOK, LoopsOK, LinkOK,
       OutboundOK, InboundOK, AgentOK, BudgetOK
  <2>2. Transactions
    <3>1. \A c \in Connections : Sane(loop[c].txn)
      BY <1>2 DEF LoopsOK
    <3>2. \A p \in Processes :
            /\ Sane(starter[p].txn)
            /\ starter[p].txn.kind \in {"none", "failed"}
      BY <1>2, Zenon DEF StartersOK
    <3>3. \A p \in Processes :
            /\ Sane(stopper[p].txn)
            /\ stopper[p].txn.kind \in {"none", "cancel", "lost"}
      BY <1>2, Zenon DEF StoppersOK
    <3> QED BY <3>1, <3>2, <3>3, Zenon DEF Transactions
  <2>3. Messages
    <3>1. \A c \in Connections : loop[c].pc = "request" => loop[c].item \in Processes
      BY <1>2 DEF LoopsOK
    <3>2. /\ link = NoLink \/ link.at \in Connections
          /\ \A m \in Elements(replay) : m.kind = "output"
      BY <1>2, Zenon DEF LinkOK
    <3>3. \A c \in Connections : \A m \in Elements(toCore[c]) :
            m.kind = "exited" => m.end \in Ended
      BY <1>2, Zenon DEF InboundOK
    <3> QED BY <3>1, <3>2, <3>3, Zenon DEF Messages
  <2> QED BY <2>1, <2>2, <2>3 DEF Typed
<1> QED BY <1>1, <1>2

\* The same after a step.
LEMMA TypedNext ==
    /\ RowOK' /\ StartersOK' /\ StoppersOK' /\ WaitersOK' /\ LoopsOK'
    /\ LinkOK' /\ OutboundOK' /\ InboundOK' /\ AgentOK' /\ BudgetOK'
    => Typed'
  BY TypedParts, PTL

\* A part that nothing is assigned to stays as it was.
LEMMA TypedFrame ==
    ASSUME Typed
    PROVE  /\ UNCHANGED row => RowOK'
           /\ UNCHANGED starter => StartersOK'
           /\ UNCHANGED stopper => StoppersOK'
           /\ UNCHANGED waiter => WaitersOK'
           /\ UNCHANGED loop => LoopsOK'
           /\ UNCHANGED <<link, replay>> => LinkOK'
           /\ UNCHANGED <<registered, toAgent>> => OutboundOK'
           /\ UNCHANGED toCore => InboundOK'
           /\ UNCHANGED <<session, outcome>> => AgentOK'
           /\ UNCHANGED budget => BudgetOK'
<1> USE TypedParts
<1>1. (UNCHANGED row => RowOK') /\ (UNCHANGED waiter => WaitersOK')
      /\ (UNCHANGED budget => BudgetOK')
  BY DEF RowOK, WaitersOK, BudgetOK
<1>2. UNCHANGED starter => StartersOK'
  BY DEF StartersOK
<1>3. UNCHANGED stopper => StoppersOK'
  BY DEF StoppersOK
<1>4. UNCHANGED loop => LoopsOK'
  BY DEF LoopsOK
<1>5. UNCHANGED <<link, replay>> => LinkOK'
  BY DEF LinkOK
<1>6. UNCHANGED <<registered, toAgent>> => OutboundOK'
  BY DEF OutboundOK
<1>7. UNCHANGED toCore => InboundOK'
  BY DEF InboundOK
<1>8. UNCHANGED <<session, outcome>> => AgentOK'
  BY DEF AgentOK
<1> QED BY <1>1, <1>2, <1>3, <1>4, <1>5, <1>6, <1>7, <1>8

\* The values a transaction, a row, a queue or a budget starts from.
LEMMA Blank ==
    /\ NewRow \in RowType /\ NoTxn \in TxnType /\ Sane(NoTxn)
    /\ NoTxn.kind = "none" /\ NoTxn.phase = "none"
    /\ NoSession \in SessionType /\ NoReport \in ReportType
    /\ NoLoop \in LoopType /\ NoLoop.txn = NoTxn /\ NoLoop.pc = "closed"
<1>1. <<>> \in Seq(Nat \ {0})
  OBVIOUS
<1>2. NewRow \in RowType
  BY <1>1 DEF NewRow, RowType, Statuses
<1>3. /\ NoTxn \in TxnType /\ Sane(NoTxn)
      /\ NoTxn.kind = "none" /\ NoTxn.phase = "none"
  BY <1>2 DEF NoTxn, TxnType, Sane
<1>4. NoSession \in SessionType /\ NoReport \in ReportType
  BY DEF NoSession, SessionType, NoReport, ReportType
<1>5. /\ NoLoop \in LoopType /\ NoLoop.txn = NoTxn /\ NoLoop.pc = "closed"
  BY <1>3, <1>4 DEF NoLoop, LoopType
<1> QED BY <1>2, <1>3, <1>4, <1>5

\* An end that Core missed.
LEMMA MissedEnd ==
    ASSUME RowOK, NEW p \in Processes, NEW s \in Ended
    PROVE  /\ Loaded("exited", p, 0, s) \in TxnType
           /\ Sane(Loaded("exited", p, 0, s))
<1> DEFINE x == Loaded("exited", p, 0, s)
<1>1. row[p] \in RowType
  BY DEF RowOK
<1>2. x = [kind |-> "exited", p |-> p, arg |-> 0, end |-> s, seen |-> row[p],
           phase |-> "loaded"]
  BY DEF Loaded
<1> HIDE DEF x
<1>3. x \in TxnType
  BY <1>1, <1>2 DEF TxnType
<1>4. Live(x)
  BY <1>2 DEF Live
<1> QED BY <1>3, <1>4 DEF Sane, x

\* What Core writes on its own has neither a number nor an end.
LEMMA OwnTransaction ==
    ASSUME RowOK, NEW p \in Processes,
           NEW kind \in {"started", "failed", "lost", "cancel"}
    PROVE  /\ Loaded(kind, p, 0, "none") \in TxnType
           /\ Sane(Loaded(kind, p, 0, "none"))
           /\ Loaded(kind, p, 0, "none").kind = kind
<1> DEFINE x == Loaded(kind, p, 0, "none")
<1>1. row[p] \in RowType
  BY DEF RowOK
<1>2. x = [kind |-> kind, p |-> p, arg |-> 0, end |-> "none", seen |-> row[p],
           phase |-> "loaded"]
  BY DEF Loaded
<1> HIDE DEF x
<1>3. x \in TxnType
  BY <1>1, <1>2 DEF TxnType
<1>4. Live(x) /\ x.kind = kind
  BY <1>2 DEF Live
<1> QED BY <1>3, <1>4 DEF Sane, x

\* What a commit does to a row, field by field: it stores output, or writes a
\* status.
LEMMA CommittedRow ==
    ASSUME NEW x \in TxnType, NEW r \in RowType
    PROVE  /\ x.kind = "output" =>
                /\ Committed(x, r).status = r.status
                /\ Committed(x, r).revived = r.revived
                /\ Committed(x, r).last = x.arg
                /\ Len(x.seen.chunks) < Retained =>
                     /\ Committed(x, r).chunks = Append(r.chunks, x.arg)
                     /\ Committed(x, r).crossed =
                          IF Crosses(x, r) THEN r.crossed \cup {Len(r.chunks) + 1}
                          ELSE r.crossed
                /\ ~(Len(x.seen.chunks) < Retained) =>
                     /\ Committed(x, r).chunks = r.chunks
                     /\ Committed(x, r).crossed = r.crossed
           /\ x.kind # "output" =>
                /\ Committed(x, r).last = r.last
                /\ Committed(x, r).chunks = r.chunks
                /\ Committed(x, r).crossed = r.crossed
                /\ Committed(x, r).status \in {r.status, NewStatus(x)}
           /\ DOMAIN Committed(x, r) = DOMAIN r
<1> DEFINE longer == Append(r.chunks, x.arg)
           more == r.crossed \cup {Len(r.chunks) + 1}
           back == r.revived \/ Revives(x, r)
           out(q, k) == [r EXCEPT !.last = x.arg, !.chunks = q, !.crossed = k]
           marked == [r EXCEPT !.status = NewStatus(x), !.revived = back]
<1>1. CASE x.kind = "output" /\ Len(x.seen.chunks) < Retained
  <2>1. Committed(x, r) = out(longer, IF Crosses(x, r) THEN more ELSE r.crossed)
    BY <1>1, Zenon DEF Committed
  <2> HIDE DEF longer, more
  <2>2. ASSUME NEW k
        PROVE  /\ out(longer, k).status = r.status
               /\ out(longer, k).revived = r.revived
               /\ out(longer, k).last = x.arg
               /\ out(longer, k).chunks = longer /\ out(longer, k).crossed = k
               /\ DOMAIN out(longer, k) = DOMAIN r
    BY DEF RowType
  <2> HIDE DEF out
  <2> QED BY <1>1, <2>1, <2>2 DEF longer, more
<1>2. CASE x.kind = "output" /\ ~(Len(x.seen.chunks) < Retained)
  <2>1. Committed(x, r) = out(r.chunks, r.crossed)
    BY <1>2, Zenon DEF Committed
  <2>2. /\ out(r.chunks, r.crossed).status = r.status
        /\ out(r.chunks, r.crossed).revived = r.revived
        /\ out(r.chunks, r.crossed).last = x.arg
        /\ out(r.chunks, r.crossed).chunks = r.chunks
        /\ out(r.chunks, r.crossed).crossed = r.crossed
        /\ DOMAIN out(r.chunks, r.crossed) = DOMAIN r
    BY DEF RowType
  <2> HIDE DEF out
  <2> QED BY <1>2, <2>1, <2>2
<1>3. CASE x.kind # "output"
  <2>1. Committed(x, r) = r \/ Committed(x, r) = marked
    BY <1>3, Zenon DEF Committed
  <2> HIDE DEF back
  <2>2. /\ marked.last = r.last /\ marked.chunks = r.chunks
        /\ marked.crossed = r.crossed /\ marked.status = NewStatus(x)
        /\ DOMAIN marked = DOMAIN r
    BY DEF RowType
  <2> HIDE DEF marked
  <2> QED BY <1>3, <2>1, <2>2
<1> QED BY <1>1, <1>2, <1>3

\* Nothing is written to the chunks, or one more.
LEMMA CommittedType ==
    ASSUME NEW x \in TxnType, Live(x), NEW r \in RowType
    PROVE  Committed(x, r) \in RowType
<1> DEFINE longer == Append(r.chunks, x.arg)
           more == IF Crosses(x, r) THEN r.crossed \cup {Len(r.chunks) + 1}
                   ELSE r.crossed
           back == r.revived \/ Revives(x, r)
           out(q, k) == [r EXCEPT !.last = x.arg, !.chunks = q, !.crossed = k]
           marked == [r EXCEPT !.status = NewStatus(x), !.revived = back]
<1>1. /\ r.chunks \in Seq(Nat \ {0}) /\ x.arg \in Nat /\ r.crossed \in SUBSET Nat
      /\ r.revived \in BOOLEAN
  BY DEF RowType, TxnType
<1>2. CASE x.kind = "output"
  <2>1. longer \in Seq(Nat \ {0})
    BY <1>1, <1>2 DEF Live
  <2>2. more \in SUBSET Nat
    <3>1. Len(r.chunks) \in Nat
      BY <1>1
    <3> QED BY <1>1, <3>1
  <2>3. ASSUME NEW q \in Seq(Nat \ {0}), NEW k \in SUBSET Nat
        PROVE  out(q, k) \in RowType
    BY <1>1 DEF RowType
  <2>4. Committed(x, r) \in {out(longer, more), out(r.chunks, r.crossed)}
    BY <1>2, Zenon DEF Committed
  <2> HIDE DEF longer, more, out
  <2> QED BY <1>1, <2>1, <2>2, <2>3, <2>4
<1>3. CASE x.kind # "output"
  <2>1. NewStatus(x) \in Statuses
    BY <1>3 DEF NewStatus, Live, TxnType, Statuses, Ended, Final, ActiveStatus
  <2>2. back \in BOOLEAN
    BY Zenon
  <2>3. Committed(x, r) \in {r, marked}
    BY <1>3, Zenon DEF Committed
  <2> HIDE DEF back
  <2>4. marked \in RowType
    BY <2>1, <2>2 DEF RowType
  <2> QED BY <2>3, <2>4
<1> QED BY <1>2, <1>3

\* Sending.
LEMMA SendType ==
    ASSUME OutboundOK, NEW m \in ToAgentType, NEW sent \in BOOLEAN, Send(m, sent)
    PROVE  OutboundOK'
<1>1. Append(toAgent, m) \in Seq(ToAgentType)
  BY DEF OutboundOK
<1> QED BY <1>1 DEF OutboundOK, Send

LEMMA MessageTypes ==
    /\ [kind |-> "welcome"] \in ToAgentType
    /\ \A p \in Processes : /\ [kind |-> "start", p |-> p] \in ToAgentType
                            /\ [kind |-> "terminate", p |-> p] \in ToAgentType
    /\ \A p \in Processes, n \in Nat :
        [kind |-> "replay", p |-> p, arg |-> n] \in ToAgentType
  BY DEF ToAgentType

\* A connection is lost, or what was on it is.
LEMMA LinkLostType ==
    ASSUME LinkLost
    PROVE  LinkOK' /\ toAgent' \in Seq(ToAgentType)
<1>1. /\ link' = [at |-> NoConnection, phase |-> "none"] /\ link' = NoLink
      /\ toAgent' = <<>> /\ replay' = <<>>
  BY DEF LinkLost, NoLink
<1> QED BY <1>1, ShortQueues DEF LinkOK

\* What the environment does costs it something.
LEMMA BudgetType ==
    ASSUME BudgetOK,
           \/ Fault
           \/ budget.waits > 0 /\ budget' = [budget EXCEPT !.waits = @ - 1]
           \/ /\ budget.stops > 0 /\ budget.trouble > 0
              /\ budget' = [budget EXCEPT !.stops = @ - 1, !.trouble = @ - 1]
    PROVE  BudgetOK'
<1> DEFINE w == budget.waits - 1
           s == budget.stops - 1
           f == budget.faults - 1
           t == budget.trouble - 1
<1>1. /\ budget.waits > 0 => w \in Nat
      /\ budget.stops > 0 => s \in Nat
      /\ budget.faults > 0 => f \in Nat
      /\ budget.trouble > 0 => t \in Nat
  BY DEF BudgetOK
<1>2. \/ /\ budget.faults > 0 /\ budget.trouble > 0
         /\ budget' = [budget EXCEPT !.faults = f, !.trouble = t]
      \/ budget.waits > 0 /\ budget' = [budget EXCEPT !.waits = w]
      \/ /\ budget.stops > 0 /\ budget.trouble > 0
         /\ budget' = [budget EXCEPT !.stops = s, !.trouble = t]
  BY DEF Fault
<1> HIDE DEF w, s, f, t
<1> QED BY <1>1, <1>2 DEF BudgetOK

\* Futures that are resolved.
LEMMA ResolvedType ==
    ASSUME NEW p \in Processes
    PROVE  /\ StartersOK /\ ResolveStart(p) => StartersOK'
           /\ WaitersOK /\ ResolveExit(p) => WaitersOK'
<1>1. \A f \in FutureType : Resolved(f) \in FutureType
  BY DEF FutureType, Resolved
<1>2. ASSUME StartersOK, ResolveStart(p) PROVE StartersOK'
  <2> DEFINE f == Resolved(starter[p].future)
  <2>1. starter[p] \in StarterType /\ f \in FutureType
    BY <1>1, <1>2 DEF StartersOK, StarterType
  <2>2. starter' = [starter EXCEPT ![p].future = f]
    BY <1>2 DEF ResolveStart
  <2> HIDE DEF f
  <2>3. starter' \in [Processes -> StarterType]
    BY <1>2, <2>1, <2>2 DEF StartersOK, StarterType
  <2>4. \A q \in Processes : starter'[q].txn = starter[q].txn
    BY <1>2, <2>1, <2>2 DEF StartersOK, StarterType
  <2> QED BY <1>2, <2>3, <2>4 DEF StartersOK
<1>3. ASSUME WaitersOK, ResolveExit(p) PROVE WaitersOK'
  <2> DEFINE f == Resolved(waiter[p].future)
  <2>1. waiter[p] \in WaiterType /\ f \in FutureType
    BY <1>1, <1>3 DEF WaitersOK, WaiterType
  <2>2. waiter' = [waiter EXCEPT ![p].future = f]
    BY <1>3 DEF ResolveExit
  <2> HIDE DEF f
  <2> QED BY <1>3, <2>1, <2>2 DEF WaitersOK, WaiterType
<1> QED BY <1>2, <1>3

-----------------------------------------------------------------------------
(* start_process, wait_for_exit and terminate_process keep the types.      *)

StarterPoints == {"none", "created", "registered", "waiting", "unsent",
                  "unacknowledged", "retract", "done", "gone"}
StopperPoints == {"none", "begun", "send", "lose", "resolve"}

\* One process's starter is replaced, or goes on.
LEMMA StarterUpdate ==
    ASSUME StartersOK, NEW p \in Processes
    PROVE  /\ \A new \in StarterType :
                /\ Sane(new.txn) /\ new.txn.kind \in {"none", "failed"}
                /\ starter' = [starter EXCEPT ![p] = new]
                => StartersOK'
           /\ \A pc \in StarterPoints :
                starter' = [starter EXCEPT ![p].pc = pc] => StartersOK'
           /\ Started \in StarterType /\ Started.txn = NoTxn
           /\ \A pc : AfterFailure(pc) \in StarterType
                      /\ AfterFailure(pc).txn = NoTxn
<1>1. ASSUME NEW new \in StarterType, Sane(new.txn),
             new.txn.kind \in {"none", "failed"},
             starter' = [starter EXCEPT ![p] = new]
      PROVE  StartersOK'
  <2>1. starter' \in [Processes -> StarterType]
    BY <1>1 DEF StartersOK
  <2>2. \A q \in Processes : starter'[q] = starter[q] \/ starter'[q] = new
    BY <1>1 DEF StartersOK
  <2> QED BY <1>1, <2>1, <2>2 DEF StartersOK
<1>2. ASSUME NEW pc \in StarterPoints, starter' = [starter EXCEPT ![p].pc = pc]
      PROVE  StartersOK'
  <2>1. starter' \in [Processes -> StarterType]
    BY <1>2 DEF StartersOK, StarterType, StarterPoints
  <2>2. \A q \in Processes : starter'[q].txn = starter[q].txn
    BY <1>2 DEF StartersOK, StarterType
  <2> QED BY <1>2, <2>1, <2>2 DEF StartersOK
<1>3. Started \in StarterType /\ Started.txn = NoTxn
  BY Blank DEF Started, StarterType, FutureType
<1>4. ASSUME NEW pc
      PROVE  AfterFailure(pc) \in StarterType /\ AfterFailure(pc).txn = NoTxn
  <2>1. AfterFailure(pc) \in
            {Started, [pc |-> "retract", future |-> "none", txn |-> NoTxn]}
    BY DEF AfterFailure, Started
  <2> QED BY <1>3, <2>1, Blank DEF StarterType, FutureType
<1> QED BY <1>1, <1>2, <1>3, <1>4

LEMMA StopperUpdate ==
    ASSUME StoppersOK, NEW p \in Processes, NEW new \in StopperType,
           Sane(new.txn), new.txn.kind \in {"none", "cancel", "lost"},
           stopper' = [stopper EXCEPT ![p] = new]
    PROVE  StoppersOK'
<1>1. stopper' \in [Processes -> StopperType]
  BY DEF StoppersOK
<1>2. \A q \in Processes : stopper'[q] = stopper[q] \/ stopper'[q] = new
  BY DEF StoppersOK
<1> QED BY <1>1, <1>2 DEF StoppersOK

\* A stopper goes on, with the transaction it has, with a new one, or without.
LEMMA StopperMoves ==
    ASSUME StoppersOK, NEW p \in Processes, NEW pc \in StopperPoints,
           NEW x \in TxnType, Sane(x), x.kind \in {"none", "cancel", "lost"}
    PROVE  /\ stopper' = [stopper EXCEPT ![p].pc = pc] => StoppersOK'
           /\ stopper' = [stopper EXCEPT ![p].txn = x] => StoppersOK'
           /\ stopper' = [stopper EXCEPT ![p].txn = x, ![p].pc = pc] => StoppersOK'
<1> DEFINE a == [stopper[p] EXCEPT !.pc = pc]
           b == [stopper[p] EXCEPT !.txn = x]
           c == [stopper[p] EXCEPT !.txn = x, !.pc = pc]
<1>1. /\ stopper[p] \in StopperType /\ Sane(stopper[p].txn)
      /\ stopper[p].txn.kind \in {"none", "cancel", "lost"}
  BY DEF StoppersOK
<1>2. /\ a \in StopperType /\ a.txn = stopper[p].txn
      /\ b \in StopperType /\ b.txn = x
      /\ c \in StopperType /\ c.txn = x
  BY <1>1 DEF StopperType, StopperPoints
<1>3. /\ [stopper EXCEPT ![p].pc = pc] = [stopper EXCEPT ![p] = a]
      /\ [stopper EXCEPT ![p].txn = x] = [stopper EXCEPT ![p] = b]
      /\ [stopper EXCEPT ![p].txn = x, ![p].pc = pc] = [stopper EXCEPT ![p] = c]
  BY DEF StoppersOK
<1> HIDE DEF a, b, c
<1> QED BY <1>1, <1>2, <1>3, StopperUpdate

LEMMA StartTyped ==
    ASSUME Typed, NEW p \in Processes, StartCreate(p) \/ Start(p)
    PROVE  Typed'
<1> USE DEF core, agent, wire
<1>0. /\ RowOK /\ StartersOK /\ StoppersOK /\ WaitersOK /\ LoopsOK
      /\ LinkOK /\ OutboundOK /\ InboundOK /\ AgentOK /\ BudgetOK
  BY TypedParts
<1>1. CASE StartCreate(p)
  <2>1. row' = [row EXCEPT ![p].status = "starting"]
        /\ starter' = [starter EXCEPT ![p].pc = "created"]
    BY <1>1 DEF StartCreate
  <2>2. RowOK'
    BY <1>0, <2>1 DEF RowOK, RowType, Statuses, ActiveStatus
  <2>3. StartersOK'
    BY <1>0, <2>1, StarterUpdate DEF StarterPoints
  <2> QED BY <1>1, <2>2, <2>3, TypedFrame, TypedNext DEF StartCreate
<1>2. CASE StartRegister(p)
  <2> DEFINE new == [starter[p] EXCEPT !.pc = "registered", !.future = "pending"]
  <2>1. starter[p] \in StarterType /\ starter' = [starter EXCEPT ![p] = new]
    BY <1>0, <1>2 DEF StartRegister, StartersOK
  <2>2. new \in StarterType /\ new.txn = starter[p].txn
    BY <2>1 DEF StarterType, FutureType
  <2> HIDE DEF new
  <2>3. StartersOK'
    BY <1>0, <2>1, <2>2, StarterUpdate DEF StartersOK
  <2> QED BY <1>2, <2>3, TypedFrame, TypedNext DEF StartRegister
<1>3. CASE StartSend(p)
  <2>1. PICK sent \in BOOLEAN :
          /\ Send([kind |-> "start", p |-> p], sent)
          /\ starter' = [starter EXCEPT ![p].pc = IF sent THEN "waiting" ELSE "unsent"]
    BY <1>3 DEF StartSend
  <2>2. OutboundOK'
    BY <1>0, <2>1, SendType, MessageTypes
  <2>3. StartersOK'
    BY <1>0, <2>1, StarterUpdate DEF StarterPoints
  <2> QED BY <1>3, <2>2, <2>3, TypedFrame, TypedNext DEF StartSend
<1>4. CASE StartTimeout(p)
  <2>1. StartersOK'
    BY <1>0, <1>4, StarterUpdate DEF StartTimeout, StarterPoints
  <2> QED BY <1>4, <2>1, TypedFrame, TypedNext DEF StartTimeout
<1>5. CASE StartFailLoad(p)
  <2> DEFINE x == Loaded("failed", p, 0, "none")
             new == [starter[p] EXCEPT !.txn = x]
  <2>1. x \in TxnType /\ Sane(x) /\ x.kind = "failed"
    BY <1>0, OwnTransaction
  <2>2. \/ starter' = [starter EXCEPT ![p] = new]
        \/ starter' = [starter EXCEPT ![p] = AfterFailure(starter[p].pc)]
    BY <1>5, Zenon DEF StartFailLoad
  <2>3. starter[p] \in StarterType
    BY <1>0 DEF StartersOK
  <2> HIDE DEF x
  <2>4. new \in StarterType /\ new.txn = x
    BY <2>1, <2>3 DEF StarterType
  <2> HIDE DEF new
  <2>5. StartersOK'
    BY <1>0, <2>1, <2>2, <2>4, StarterUpdate, Blank
  <2> QED BY <1>5, <2>5, TypedFrame, TypedNext DEF StartFailLoad
<1>6. CASE StartFailCommit(p)
  <2> DEFINE x == starter[p].txn
             r == Committed(x, row[p])
  <2>1. x \in TxnType /\ Live(x) /\ row[p] \in RowType
    BY <1>0, <1>6 DEF StartFailCommit, StartersOK, StarterType, RowOK, Sane
  <2>2. r \in RowType
    BY <2>1, CommittedType
  <2>3. row' = [row EXCEPT ![p] = r]
    BY <1>6 DEF StartFailCommit
  <2>4. starter' = [starter EXCEPT ![p] = AfterFailure(starter[p].pc)]
    BY <1>6, Zenon DEF StartFailCommit
  <2> HIDE DEF x, r
  <2>5. RowOK'
    BY <1>0, <2>2, <2>3 DEF RowOK
  <2>6. StartersOK'
    BY <1>0, <2>4, StarterUpdate, Blank
  <2> QED BY <1>6, <2>5, <2>6, TypedFrame, TypedNext DEF StartFailCommit
<1>7. CASE StartRetract(p)
  <2>1. PICK sent \in BOOLEAN : Send([kind |-> "terminate", p |-> p], sent)
    BY <1>7 DEF StartRetract
  <2>2. OutboundOK'
    BY <1>0, <2>1, SendType, MessageTypes
  <2>3. StartersOK'
    BY <1>0, <1>7, StarterUpdate, Blank DEF StartRetract
  <2> QED BY <1>7, <2>2, <2>3, TypedFrame, TypedNext DEF StartRetract
<1>8. CASE StartReturn(p)
  <2>1. StartersOK'
    BY <1>0, <1>8, StarterUpdate, Blank DEF StartReturn
  <2> QED BY <1>8, <2>1, TypedFrame, TypedNext DEF StartReturn
<1> QED BY <1>1, <1>2, <1>3, <1>4, <1>5, <1>6, <1>7, <1>8 DEF Start

LEMMA WaitTyped ==
    ASSUME Typed, NEW p \in Processes, WaitRead(p) \/ Wait(p) \/ WaitTimeout(p)
    PROVE  Typed'
<1> USE DEF core, agent, wire
<1>0. BudgetOK /\ waiter \in [Processes -> WaiterType] /\ waiter[p] \in WaiterType
  BY TypedParts DEF WaitersOK
<1> DEFINE read == [waiter[p] EXCEPT !.pc = "read"]
           waiting == [waiter[p] EXCEPT !.pc = "waiting"]
           begun == [pc |-> "registered", future |-> "pending"]
<1>1. /\ read \in WaiterType /\ waiting \in WaiterType /\ begun \in WaiterType
      /\ Returned \in WaiterType
  BY <1>0 DEF WaiterType, FutureType, Returned
<1>2. \/ waiter' = [waiter EXCEPT ![p] = read]
      \/ waiter' = [waiter EXCEPT ![p] = waiting]
      \/ waiter' = [waiter EXCEPT ![p] = begun]
      \/ waiter' = [waiter EXCEPT ![p] = Returned]
  BY DEF WaitRead, Wait, WaitRegister, WaitRecheck, WaitReturn, WaitTimeout
<1> HIDE DEF read, waiting, begun
<1>3. WaitersOK'
  BY <1>0, <1>1, <1>2 DEF WaitersOK
<1>4. BudgetOK'
  <2>1. CASE WaitRead(p)
    BY <1>0, <2>1, BudgetType DEF WaitRead
  <2>2. CASE Wait(p) \/ WaitTimeout(p)
    BY <2>2, TypedFrame DEF Wait, WaitRegister, WaitRecheck, WaitReturn, WaitTimeout
  <2> QED BY <2>1, <2>2
<1>5. UNCHANGED <<row, registered, loop, starter, stopper, agent, wire>>
  BY DEF WaitRead, Wait, WaitRegister, WaitRecheck, WaitReturn, WaitTimeout
<1> QED BY <1>3, <1>4, <1>5, TypedFrame, TypedNext

LEMMA StopTyped ==
    ASSUME Typed, NEW p \in Processes, StopBegin(p) \/ Stop(p)
    PROVE  Typed'
<1> USE DEF core, agent, wire
<1>0. /\ RowOK /\ StartersOK /\ StoppersOK /\ WaitersOK
      /\ OutboundOK /\ BudgetOK
      /\ stopper[p] \in StopperType /\ row[p] \in RowType
  BY TypedParts DEF StoppersOK, RowOK
<1>1. CASE StopBegin(p)
  <2>1. BudgetOK'
    BY <1>0, <1>1, BudgetType DEF StopBegin
  <2>2. StoppersOK'
    BY <1>0, <1>1, StopperMoves, Blank DEF StopBegin, StopperPoints
  <2> QED BY <1>1, <2>1, <2>2, TypedFrame, TypedNext DEF StopBegin
<1>2. CASE StopLoad(p)
  <2>1. \/ stopper' = [stopper EXCEPT ![p].txn = Loaded("cancel", p, 0, "none")]
        \/ stopper' = [stopper EXCEPT ![p].pc = "send"]
    BY <1>2 DEF StopLoad
  <2>2. /\ Loaded("cancel", p, 0, "none") \in TxnType
        /\ Sane(Loaded("cancel", p, 0, "none"))
        /\ Loaded("cancel", p, 0, "none").kind = "cancel"
    BY <1>0, OwnTransaction
  <2>3. StoppersOK'
    BY <1>0, <2>1, <2>2, StopperMoves, Blank DEF StopperPoints
  <2> QED BY <1>2, <2>3, TypedFrame, TypedNext DEF StopLoad
<1>3. CASE StopSend(p)
  <2>1. PICK sent \in BOOLEAN :
          /\ Send([kind |-> "terminate", p |-> p], sent)
          /\ stopper' = [stopper EXCEPT ![p].pc = IF sent THEN "none" ELSE "lose"]
    BY <1>3 DEF StopSend
  <2>2. OutboundOK'
    BY <1>0, <2>1, SendType, MessageTypes
  <2>3. StoppersOK'
    BY <1>0, <2>1, StopperMoves, Blank DEF StopperPoints
  <2> QED BY <1>3, <2>2, <2>3, TypedFrame, TypedNext DEF StopSend
<1>4. CASE StopLoseLoad(p)
  <2>1. \/ stopper' = [stopper EXCEPT ![p].txn = Loaded("lost", p, 0, "none")]
        \/ stopper' = [stopper EXCEPT ![p].pc = "none"]
    BY <1>4 DEF StopLoseLoad
  <2>2. /\ Loaded("lost", p, 0, "none") \in TxnType
        /\ Sane(Loaded("lost", p, 0, "none"))
        /\ Loaded("lost", p, 0, "none").kind = "lost"
    BY <1>0, OwnTransaction
  <2>3. StoppersOK'
    BY <1>0, <2>1, <2>2, StopperMoves, Blank DEF StopperPoints
  <2> QED BY <1>4, <2>3, TypedFrame, TypedNext DEF StopLoseLoad
<1>5. CASE StopCommit(p)
  <2> DEFINE x == stopper[p].txn
             r == Committed(x, row[p])
             pc == IF stopper[p].pc = "begun" THEN "send" ELSE "resolve"
  <2>1. x \in TxnType /\ Live(x)
    BY <1>0, <1>5 DEF StopCommit, StoppersOK, StopperType, Sane
  <2>2. r \in RowType
    BY <1>0, <2>1, CommittedType
  <2>3. /\ row' = [row EXCEPT ![p] = r]
        /\ stopper' = [stopper EXCEPT ![p].txn = NoTxn, ![p].pc = pc]
    BY <1>0, <1>5 DEF StopCommit, StoppersOK, StopperType
  <2>4. pc \in StopperPoints
    BY DEF StopperPoints
  <2> HIDE DEF x, r, pc
  <2>5. RowOK'
    BY <1>0, <2>2, <2>3 DEF RowOK
  <2>6. StoppersOK'
    BY <1>0, <2>3, <2>4, StopperMoves, Blank
  <2> QED BY <1>5, <2>5, <2>6, TypedFrame, TypedNext DEF StopCommit
<1>6. CASE StopResolve(p)
  <2>1. StoppersOK'
    BY <1>0, <1>6, StopperMoves, Blank DEF StopResolve, StopperPoints
  <2>2. StartersOK' /\ WaitersOK'
    BY <1>0, <1>6, ResolvedType DEF StopResolve
  <2> QED BY <1>6, <2>1, <2>2, TypedFrame, TypedNext DEF StopResolve
<1> QED BY <1>1, <1>2, <1>3, <1>4, <1>5, <1>6 DEF Stop

-----------------------------------------------------------------------------
(* connect_device keeps the types.                                         *)

LEMMA LoopUpdate ==
    ASSUME LoopsOK, NEW c \in Connections, NEW new \in LoopType, Sane(new.txn),
           new.pc = "request" => new.item \in Processes,
           loop' = [loop EXCEPT ![c] = new]
    PROVE  LoopsOK'
<1>1. loop' \in [Connections -> LoopType]
  BY DEF LoopsOK
<1>2. \A d \in Connections : loop'[d] = loop[d] \/ loop'[d] = new
  BY DEF LoopsOK
<1> QED BY <1>1, <1>2 DEF LoopsOK

\* A loop goes on to a point where it handles no single process, or begins or
\* ends a transaction.
LEMMA LoopMoves ==
    ASSUME LoopsOK, NEW c \in Connections,
           NEW pc \in {"opening", "greeting", "leaving", "idle", "items", "absent"},
           NEW x \in TxnType, Sane(x)
    PROVE  /\ loop' = [loop EXCEPT ![c].pc = pc] => LoopsOK'
           /\ loop' = [loop EXCEPT ![c].txn = x] => LoopsOK'
<1> DEFINE a == [loop[c] EXCEPT !.pc = pc]
           b == [loop[c] EXCEPT !.txn = x]
<1>1. /\ loop[c] \in LoopType /\ Sane(loop[c].txn)
      /\ loop[c].pc = "request" => loop[c].item \in Processes
  BY DEF LoopsOK
<1>2. /\ a \in LoopType /\ a.txn = loop[c].txn /\ a.pc = pc
      /\ b \in LoopType /\ b.txn = x /\ b.pc = loop[c].pc /\ b.item = loop[c].item
  BY <1>1 DEF LoopType
<1>3. /\ [loop EXCEPT ![c].pc = pc] = [loop EXCEPT ![c] = a]
      /\ [loop EXCEPT ![c].txn = x] = [loop EXCEPT ![c] = b]
  BY DEF LoopsOK
<1> HIDE DEF a, b
<1> QED BY <1>1, <1>2, <1>3, LoopUpdate

LEMMA ConnectionTyped ==
    ASSUME Typed, NEW c \in Connections, Register(c) \/ Greet(c) \/ LoopEnd(c)
    PROVE  Typed'
<1> USE DEF core, agent, wire
<1>0. LoopsOK /\ LinkOK /\ OutboundOK /\ InboundOK
  BY TypedParts
<1>1. CASE Register(c)
  <2>1. LoopsOK'
    BY <1>0, <1>1, LoopMoves, Blank DEF Register
  <2>2. LinkOK' /\ toAgent' \in Seq(ToAgentType)
    BY <1>0, <1>1, LinkLostType, TypedFrame DEF Register, OutboundOK
  <2>3. OutboundOK'
    BY <1>1, <2>2 DEF Register, OutboundOK
  <2> QED BY <1>1, <2>1, <2>2, <2>3, TypedFrame, TypedNext DEF Register
<1>2. CASE Greet(c)
  <2>1. PICK sent \in BOOLEAN :
          /\ Send([kind |-> "welcome"], sent)
          /\ loop' = [loop EXCEPT ![c].pc = IF sent THEN "idle" ELSE "leaving"]
    BY <1>2 DEF Greet
  <2>2. OutboundOK'
    BY <1>0, <2>1, SendType, MessageTypes
  <2>3. LoopsOK'
    BY <1>0, <2>1, LoopMoves, Blank
  <2> QED BY <1>2, <2>2, <2>3, TypedFrame, TypedNext DEF Greet
<1>3. CASE LoopEnd(c)
  <2>1. LoopsOK'
    BY <1>0, <1>3, LoopUpdate, Blank DEF LoopEnd
  <2>2. LinkOK' /\ toAgent' \in Seq(ToAgentType)
    BY <1>0, <1>3, LinkLostType, TypedFrame DEF LoopEnd, OutboundOK
  <2>3. OutboundOK'
    BY <1>0, <1>3, <2>2 DEF LoopEnd, OutboundOK
  <2>4. InboundOK'
    <3>1. toCore' = [toCore EXCEPT ![c] = <<>>]
      BY <1>3 DEF LoopEnd
    <3>2. <<>> \in Seq(ToCoreType) /\ Elements(<<>>) = {}
      BY ShortQueues
    <3> QED BY <1>0, <3>1, <3>2 DEF InboundOK
  <2> QED BY <1>3, <2>1, <2>2, <2>3, <2>4, TypedFrame, TypedNext DEF LoopEnd
<1> QED BY <1>1, <1>2, <1>3

\* Taking the next message of a connection.
LEMMA TakeType ==
    ASSUME InboundOK, NEW c \in Connections, toCore[c] # <<>>,
           toCore' = [toCore EXCEPT ![c] = Tail(@)]
    PROVE  /\ InboundOK'
           /\ Head(toCore[c]) \in ToCoreType
           /\ Head(toCore[c]).kind = "exited" => Head(toCore[c]).end \in Ended
           /\ \A d \in Connections : Elements(toCore'[d]) \subseteq Elements(toCore[d])
           /\ Head(toCore[c]) \in Elements(toCore[c])
<1>1. toCore[c] \in Seq(ToCoreType)
  BY DEF InboundOK
<1>2. /\ Tail(toCore[c]) \in Seq(ToCoreType) /\ Head(toCore[c]) \in ToCoreType
      /\ Elements(toCore[c]) = Elements(Tail(toCore[c])) \cup {Head(toCore[c])}
  BY <1>1, QueueElements
<1>3. /\ toCore'[c] = Tail(toCore[c])
      /\ \A d \in Connections \ {c} : toCore'[d] = toCore[d]
      /\ toCore' \in [Connections -> Seq(ToCoreType)]
  BY <1>2 DEF InboundOK
<1>4. \A d \in Connections : Elements(toCore'[d]) \subseteq Elements(toCore[d])
  BY <1>2, <1>3
<1>5. Head(toCore[c]).kind = "exited" => Head(toCore[c]).end \in Ended
  BY <1>2 DEF InboundOK
<1>6. InboundOK'
  BY <1>3, <1>4 DEF InboundOK
<1> QED BY <1>2, <1>4, <1>5, <1>6

\* What the handler of a message that is not a snapshot makes of it.
LEMMA HandleTxn ==
    ASSUME RowOK, NEW m \in ToCoreType, m.kind # "snapshot",
           m.kind = "exited" => m.end \in Ended,
           NEW kind, kind = IF m.kind = "error" THEN "failed" ELSE m.kind,
           NEW x, x = Loaded(kind, m.p, m.arg, m.end),
           Applies(kind, m.p, m.arg) \/ kind = "failed"
    PROVE  /\ x \in TxnType /\ Live(x) /\ x.kind = kind
           /\ [x EXCEPT !.phase = "written"] \in TxnType
           /\ Live([x EXCEPT !.phase = "written"])
           /\ [x EXCEPT !.phase = "written"].kind = kind
           /\ kind \in {"started", "failed", "output", "exited"}
           /\ m.p \in Processes /\ m.arg \in Nat
<1>1. /\ m.kind \in {"started", "error", "output", "exited"}
      /\ m.p \in Processes /\ m.arg \in Nat /\ m.end \in {"none"} \cup Ended
  BY DEF ToCoreType
<1>2. row[m.p] \in RowType
  BY <1>1 DEF RowOK
<1>3. kind \in {"started", "failed", "output", "exited"}
  BY <1>1
<1>4. kind = "exited" => m.end \in Ended
  BY <1>1
<1>5. kind = "output" => m.arg # 0
  <2>1. row[m.p].last \in Nat
    BY <1>2 DEF RowType
  <2> QED BY <1>1, <2>1 DEF Applies
<1>6. x = [kind |-> kind, p |-> m.p, arg |-> m.arg, end |-> m.end,
           seen |-> row[m.p], phase |-> "loaded"]
  BY DEF Loaded
<1>7. [x EXCEPT !.phase = "written"] =
          [kind |-> kind, p |-> m.p, arg |-> m.arg, end |-> m.end,
           seen |-> row[m.p], phase |-> "written"]
  BY <1>6
<1>8. x \in TxnType /\ [x EXCEPT !.phase = "written"] \in TxnType
  BY <1>1, <1>2, <1>3, <1>6, <1>7 DEF TxnType
<1>9. Live(x) /\ x.kind = kind
  BY <1>1, <1>3, <1>4, <1>5, <1>6 DEF Live
<1>10. /\ Live([x EXCEPT !.phase = "written"])
       /\ [x EXCEPT !.phase = "written"].kind = kind
  BY <1>1, <1>3, <1>4, <1>5, <1>7 DEF Live
<1> QED BY <1>1, <1>3, <1>8, <1>9, <1>10

LEMMA HandleTyped ==
    ASSUME Typed, NEW c \in Connections, Handle(c)
    PROVE  Typed'
<1> USE DEF core, agent, wire
<1> DEFINE m == Head(toCore[c])
           kind == IF m.kind = "error" THEN "failed" ELSE m.kind
           x == Loaded(kind, m.p, m.arg, m.end)
           y == [x EXCEPT !.phase = "written"]
<1>0. RowOK /\ LoopsOK /\ InboundOK
  BY TypedParts
<1>1. /\ toCore[c] # <<>> /\ m.kind # "snapshot"
      /\ toCore' = [toCore EXCEPT ![c] = Tail(@)]
      /\ loop' = [loop EXCEPT ![c].txn =
                    IF Applies(kind, m.p, m.arg) THEN x
                    ELSE IF kind = "failed" THEN y ELSE NoTxn]
      /\ UNCHANGED <<row, registered, starter, waiter, stopper, agent,
                     toAgent, budget>>
  BY Zenon DEF Handle
<1>2. /\ InboundOK' /\ m \in ToCoreType
      /\ m.kind = "exited" => m.end \in Ended
  BY <1>0, <1>1, TakeType
<1>3. Applies(kind, m.p, m.arg) \/ kind = "failed" =>
          /\ x \in TxnType /\ Sane(x)
          /\ y \in TxnType /\ Sane(y)
  <2>1. SUFFICES ASSUME Applies(kind, m.p, m.arg) \/ kind = "failed"
                 PROVE  /\ x \in TxnType /\ Live(x)
                        /\ y \in TxnType /\ Live(y)
    BY DEF Sane
  <2>2. /\ kind = IF m.kind = "error" THEN "failed" ELSE m.kind
        /\ x = Loaded(kind, m.p, m.arg, m.end)
        /\ y = [x EXCEPT !.phase = "written"]
        /\ m.kind # "snapshot"
    BY <1>1
  <2> HIDE DEF m, kind, x, y
  <2> QED BY <1>0, <1>2, <2>1, <2>2, HandleTxn, SMTT(30)
<1>4. PICK new \in TxnType : /\ Sane(new)
                             /\ loop' = [loop EXCEPT ![c].txn = new]
  <2> HIDE DEF m, kind, x, y
  <2>1. CASE Applies(kind, m.p, m.arg)
    <3>1. loop' = [loop EXCEPT ![c].txn = x]
      BY <1>1, <2>1
    <3> QED BY <1>3, <2>1, <3>1
  <2>2. CASE ~Applies(kind, m.p, m.arg) /\ kind = "failed"
    <3>1. loop' = [loop EXCEPT ![c].txn = y]
      BY <1>1, <2>2
    <3> QED BY <1>3, <2>2, <3>1
  <2>3. CASE ~Applies(kind, m.p, m.arg) /\ kind # "failed"
    <3>1. loop' = [loop EXCEPT ![c].txn = NoTxn]
      BY <1>1, <2>3
    <3> QED BY <3>1, Blank
  <2> QED BY <2>1, <2>2, <2>3
<1>5. LoopsOK'
  BY <1>0, <1>4, LoopMoves
<1> QED BY <1>1, <1>2, <1>5, TypedFrame, TypedNext

\* What a handler has written is its transaction still.
LEMMA WrittenType ==
    ASSUME NEW x \in TxnType, Live(x)
    PROVE  /\ [x EXCEPT !.phase = "written"] \in TxnType
           /\ Live([x EXCEPT !.phase = "written"])
  BY DEF TxnType, Live

LEMMA WriteTyped ==
    ASSUME Typed, NEW c \in Connections, LoopCommit(c) \/ LoopResolve(c)
    PROVE  Typed'
<1> USE DEF core, agent, wire
<1> DEFINE x == loop[c].txn
           y == [x EXCEPT !.phase = "written"]
<1>0. RowOK /\ LoopsOK /\ StartersOK /\ WaitersOK
  BY TypedParts
<1>1. x \in TxnType /\ Sane(x)
  BY <1>0 DEF LoopsOK, LoopType
<1>2. x.phase # "none"
  BY DEF LoopCommit, LoopResolve
<1>3. Live(x)
  BY <1>1, <1>2, Blank DEF Sane
<1>4. x.p \in Processes
  BY <1>3 DEF Live
<1>5. CASE LoopCommit(c)
  <2> DEFINE r == Committed(x, row[x.p])
             new == IF x.kind = "output" THEN NoTxn ELSE y
  <2>1. r \in RowType
    BY <1>0, <1>1, <1>3, <1>4, CommittedType DEF RowOK
  <2>2. /\ row' = [row EXCEPT ![x.p] = r]
        /\ loop' = [loop EXCEPT ![c].txn = new]
        /\ UNCHANGED <<registered, starter, waiter, stopper, agent, wire, budget>>
    BY <1>5 DEF LoopCommit
  <2>3. new \in TxnType /\ Sane(new)
    BY <1>1, <1>3, WrittenType, Blank DEF Sane
  <2> HIDE DEF x, r, new
  <2>4. RowOK'
    BY <1>0, <2>1, <2>2 DEF RowOK
  <2>5. LoopsOK'
    BY <1>0, <2>2, <2>3, LoopMoves
  <2> QED BY <2>2, <2>4, <2>5, TypedFrame, TypedNext
<1>6. CASE LoopResolve(c)
  <2>1. /\ loop' = [loop EXCEPT ![c].txn = NoTxn]
        /\ ResolveStart(x.p)
        /\ UNCHANGED waiter \/ ResolveExit(x.p)
        /\ UNCHANGED <<row, registered, stopper, agent, wire, budget>>
    BY <1>6 DEF LoopResolve
  <2> HIDE DEF x
  <2>2. LoopsOK'
    BY <1>0, <2>1, LoopMoves, Blank
  <2>3. StartersOK' /\ WaitersOK'
    BY <1>0, <1>4, <2>1, ResolvedType, TypedFrame
  <2> QED BY <2>1, <2>2, <2>3, TypedFrame, TypedNext
<1> QED BY <1>5, <1>6

\* A snapshot that begins changes nothing of a row but the mark it clears.
LEMMA SettledRows ==
    ASSUME RowOK, row' = [p \in Processes |-> [row[p] EXCEPT !.revived = FALSE]]
    PROVE  /\ RowOK'
           /\ \A p \in Processes :
                /\ row'[p].status = row[p].status /\ row'[p].last = row[p].last
                /\ row'[p].chunks = row[p].chunks
                /\ row'[p].crossed = row[p].crossed
<1>1. ASSUME NEW p \in Processes
      PROVE  /\ row'[p] \in RowType
             /\ row'[p].status = row[p].status /\ row'[p].last = row[p].last
             /\ row'[p].chunks = row[p].chunks
             /\ row'[p].crossed = row[p].crossed
  <2>1. row[p] \in RowType
    BY DEF RowOK
  <2>2. row'[p] = [row[p] EXCEPT !.revived = FALSE]
    OBVIOUS
  <2> QED BY <2>1, <2>2 DEF RowType
<1>2. row' \in [Processes -> RowType]
  BY <1>1
<1> QED BY <1>1, <1>2 DEF RowOK

\* A loop goes through a snapshot: it takes the report, goes to a process, is
\* done with it, or goes on to the rows that were not reported.
LEMMA SnapshotTyped ==
    ASSUME Typed, NEW c \in Connections,
           SnapshotBegin(c) \/ SnapshotItem(c) \/ SnapshotRequest(c)
           \/ SnapshotSweep(c) \/ SnapshotAbsent(c)
    PROVE  Typed'
<1> USE DEF core, agent, wire
<1>0. /\ RowOK /\ LoopsOK /\ InboundOK /\ OutboundOK
      /\ loop[c] \in LoopType /\ Sane(loop[c].txn)
      /\ loop \in [Connections -> LoopType]
  BY TypedParts DEF LoopsOK
<1>1. CASE SnapshotBegin(c)
  <2> DEFINE sessions == Head(toCore[c]).sessions
             tracked == Tracked(sessions)
             new == [loop[c] EXCEPT !.pc = "items", !.report = sessions,
                                    !.todo = tracked]
  <2>1. /\ toCore[c] # <<>> /\ Head(toCore[c]).kind = "snapshot"
        /\ loop' = [loop EXCEPT ![c].pc = "items", ![c].report = sessions,
                                ![c].todo = tracked]
        /\ toCore' = [toCore EXCEPT ![c] = Tail(@)]
        /\ row' = [p \in Processes |-> [row[p] EXCEPT !.revived = FALSE]]
        /\ UNCHANGED <<registered, starter, waiter, stopper, agent, toAgent,
                       budget>>
    BY <1>1 DEF SnapshotBegin
  <2>2. InboundOK' /\ Head(toCore[c]) \in ToCoreType
    BY <1>0, <2>1, TakeType
  <2>3. sessions \in ReportType /\ tracked \in SUBSET Processes
    BY <2>1, <2>2 DEF ToCoreType, Tracked
  <2> HIDE DEF sessions, tracked
  <2>4. loop' = [loop EXCEPT ![c] = new]
    BY <1>0, <2>1
  <2>5. new \in LoopType /\ new.txn = loop[c].txn /\ new.pc = "items"
    BY <1>0, <2>3 DEF LoopType
  <2> HIDE DEF new
  <2>6. LoopsOK'
    BY <1>0, <2>4, <2>5, LoopUpdate
  <2>7. RowOK'
    BY <1>0, <2>1, SettledRows
  <2> QED BY <2>1, <2>2, <2>6, <2>7, TypedFrame, TypedNext
<1>2. CASE SnapshotItem(c)
  <2> DEFINE missed(p) ==
               IF loop[c].report[p].status \in Final /\ row[p].status \in ActiveStatus
               THEN Loaded("exited", p, 0, loop[c].report[p].status)
               ELSE IF loop[c].report[p].status = "running"
                       /\ row[p].status \in {"starting", "running"}
               THEN Loaded("started", p, 0, "none")
               ELSE NoTxn
  <2>1. PICK p \in loop[c].todo :
          loop' = [loop EXCEPT ![c].pc = "request", ![c].item = p,
                               ![c].after = row[p].last,
                               ![c].todo = @ \ {p}, ![c].txn = missed(p)]
    BY <1>2 DEF SnapshotItem
  <2> DEFINE x == missed(p)
             rest == loop[c].todo \ {p}
             after == row[p].last
             new == [loop[c] EXCEPT !.pc = "request", !.item = p, !.after = after,
                                    !.todo = rest, !.txn = x]
  <2>2. /\ p \in Processes /\ rest \in SUBSET Processes
        /\ loop[c].report \in ReportType
    BY <1>0 DEF LoopType
  <2>3. row[p] \in RowType /\ after \in Nat
    BY <1>0, <2>2 DEF RowOK, RowType
  <2>4. /\ loop[c].report[p].status \in {"none", "running"} \cup Ended
        /\ loop[c].report[p].status \in Final =>
              loop[c].report[p].status \in Ended
    BY <2>2 DEF ReportType, Final, Ended
  <2>5. x \in TxnType /\ Sane(x)
    <3>1. /\ Loaded("started", p, 0, "none") \in TxnType
          /\ Sane(Loaded("started", p, 0, "none"))
      BY <1>0, <2>2, OwnTransaction
    <3>2. loop[c].report[p].status \in Final =>
            /\ Loaded("exited", p, 0, loop[c].report[p].status) \in TxnType
            /\ Sane(Loaded("exited", p, 0, loop[c].report[p].status))
      BY <1>0, <2>2, <2>4, MissedEnd
    <3> QED BY <3>1, <3>2, Blank
  <2>6. loop' = [loop EXCEPT ![c].pc = "request", ![c].item = p,
                             ![c].after = after, ![c].todo = rest, ![c].txn = x]
    BY <1>0, <2>1
  <2> HIDE DEF missed, x, rest, after
  <2>7. loop' = [loop EXCEPT ![c] = new]
    BY <1>0, <2>6
  <2>8. new \in LoopType /\ new.txn = x /\ new.item = p
    BY <1>0, <2>2, <2>3, <2>5 DEF LoopType
  <2> HIDE DEF new
  <2>9. LoopsOK'
    BY <1>0, <2>2, <2>5, <2>7, <2>8, LoopUpdate
  <2> QED BY <1>2, <2>9, TypedFrame, TypedNext DEF SnapshotItem
<1>3. CASE SnapshotRequest(c)
  <2> DEFINE p == loop[c].item
             n == loop[c].after
             new == [loop[c] EXCEPT !.pc = "items", !.item = NoProcess, !.after = 0]
  <2>1. p \in Processes /\ n \in Nat
    BY <1>0, <1>3 DEF SnapshotRequest, LoopsOK, LoopType
  <2>2. /\ loop' = [loop EXCEPT ![c].pc = "items", ![c].item = NoProcess,
                                ![c].after = 0]
        /\ \/ UNCHANGED <<registered, toAgent>>
           \/ \E sent \in BOOLEAN :
                Send([kind |-> "replay", p |-> p, arg |-> n], sent)
    BY <1>3, Zenon DEF SnapshotRequest
  <2>3. OutboundOK'
    BY <1>0, <2>1, <2>2, SendType, MessageTypes, TypedFrame
  <2>4. loop' = [loop EXCEPT ![c] = new]
    BY <1>0, <2>2
  <2>5. new \in LoopType /\ new.txn = loop[c].txn /\ new.pc = "items"
    BY <1>0 DEF LoopType
  <2> HIDE DEF new
  <2>6. LoopsOK'
    BY <1>0, <2>4, <2>5, LoopUpdate
  <2> QED BY <1>3, <2>3, <2>6, TypedFrame, TypedNext DEF SnapshotRequest
<1>4. CASE SnapshotSweep(c)
  <2> DEFINE rest == {p \in Processes \ Tracked(loop[c].report) :
                        row[p].status \in ActiveStatus}
             new == [loop[c] EXCEPT !.pc = "absent", !.report = NoReport,
                                    !.todo = rest]
  <2>1. loop' = [loop EXCEPT ![c].pc = "absent", ![c].report = NoReport,
                             ![c].todo = rest]
    BY <1>4 DEF SnapshotSweep
  <2>2. rest \in SUBSET Processes
    OBVIOUS
  <2> HIDE DEF rest
  <2>3. loop' = [loop EXCEPT ![c] = new]
    BY <1>0, <2>1
  <2>4. new \in LoopType /\ new.txn = loop[c].txn /\ new.pc = "absent"
    BY <1>0, <2>2, Blank DEF LoopType
  <2> HIDE DEF new
  <2>5. LoopsOK'
    BY <1>0, <2>3, <2>4, LoopUpdate
  <2> QED BY <1>4, <2>5, TypedFrame, TypedNext DEF SnapshotSweep
<1>5. CASE SnapshotAbsent(c)
  <2>1. \/ loop' = [loop EXCEPT ![c].pc = "idle"]
        \/ \E p \in loop[c].todo :
             loop' = [loop EXCEPT ![c].todo = @ \ {p},
                        ![c].txn = IF Applies("lost", p, 0)
                                   THEN Loaded("lost", p, 0, "none") ELSE NoTxn]
    BY <1>5 DEF SnapshotAbsent
  <2>2. CASE loop' = [loop EXCEPT ![c].pc = "idle"]
    <3>1. LoopsOK'
      BY <1>0, <2>2, LoopMoves, Blank
    <3> QED BY <1>5, <3>1, TypedFrame, TypedNext DEF SnapshotAbsent
  <2>3. ASSUME NEW p \in loop[c].todo,
               loop' = [loop EXCEPT ![c].todo = @ \ {p},
                          ![c].txn = IF Applies("lost", p, 0)
                                     THEN Loaded("lost", p, 0, "none") ELSE NoTxn]
        PROVE  LoopsOK'
    <3> DEFINE x == IF Applies("lost", p, 0)
                    THEN Loaded("lost", p, 0, "none") ELSE NoTxn
               rest == loop[c].todo \ {p}
               new == [loop[c] EXCEPT !.todo = rest, !.txn = x]
    <3>1. p \in Processes /\ rest \in SUBSET Processes
      BY <1>0 DEF LoopType
    <3>2. x \in TxnType /\ Sane(x)
      BY <1>0, <3>1, OwnTransaction, Blank
    <3>3. loop' = [loop EXCEPT ![c].todo = rest, ![c].txn = x]
      BY <1>0, <2>3
    <3> HIDE DEF x, rest
    <3>4. loop' = [loop EXCEPT ![c] = new]
      BY <1>0, <3>3
    <3>5. new \in LoopType /\ new.txn = x /\ new.pc = loop[c].pc
          /\ new.item = loop[c].item
      BY <1>0, <3>1, <3>2 DEF LoopType
    <3>6. new.pc = "request" => new.item \in Processes
      BY <1>0, <3>5 DEF LoopsOK
    <3> HIDE DEF new
    <3> QED BY <1>0, <3>2, <3>4, <3>5, <3>6, LoopUpdate
  <2>4. LoopsOK'
    BY <1>0, <2>1, <2>2, <2>3, LoopMoves, Blank
  <2> QED BY <1>5, <2>4, TypedFrame, TypedNext DEF SnapshotAbsent
<1> QED BY <1>1, <1>2, <1>3, <1>4, <1>5

LEMMA RestartTyped ==
    ASSUME Typed, CoreRestart
    PROVE  Typed'
<1> USE DEF core, agent, wire
<1>0. StartersOK /\ WaitersOK /\ BudgetOK
  BY TypedParts
<1>1. /\ Fault /\ LinkLost
      /\ registered' = NoConnection
      /\ UNCHANGED <<row, session, outcome>>
  BY DEF CoreRestart
<1>2. BudgetOK' /\ LinkOK' /\ toAgent' \in Seq(ToAgentType)
  BY <1>0, <1>1, BudgetType, LinkLostType
<1>3. OutboundOK'
  BY <1>1, <1>2 DEF OutboundOK
<1>4. LoopsOK'
  <2>1. loop' = [c \in Connections |-> NoLoop]
    BY DEF CoreRestart
  <2> QED BY <2>1, Blank DEF LoopsOK
<1>5. StartersOK'
  <2> DEFINE gone == [pc |-> "gone", future |-> "none", txn |-> NoTxn]
  <2>1. gone \in StarterType /\ gone.txn = NoTxn
    BY Blank DEF StarterType, FutureType
  <2>2. starter' = [p \in Processes |->
                      IF starter[p].pc = "none" THEN starter[p] ELSE gone]
    BY DEF CoreRestart
  <2> HIDE DEF gone
  <2> QED BY <1>0, <2>1, <2>2, Blank DEF StartersOK
<1>6. WaitersOK'
  <2> DEFINE gone == [pc |-> "gone", future |-> "none"]
  <2>1. gone \in WaiterType
    BY DEF WaiterType, FutureType
  <2>2. waiter' = [p \in Processes |->
                      IF waiter[p].pc = "none" THEN waiter[p] ELSE gone]
    BY DEF CoreRestart
  <2> HIDE DEF gone
  <2> QED BY <1>0, <2>1, <2>2 DEF WaitersOK
<1>7. StoppersOK'
  <2> DEFINE none == [pc |-> "none", txn |-> NoTxn]
  <2>1. none \in StopperType /\ none.txn = NoTxn
    BY Blank DEF StopperType
  <2>2. stopper' = [p \in Processes |-> none]
    BY DEF CoreRestart
  <2> HIDE DEF none
  <2> QED BY <2>1, <2>2, Blank DEF StoppersOK
<1>8. InboundOK'
  <2>1. toCore' = [c \in Connections |-> <<>>]
    BY DEF CoreRestart
  <2>2. <<>> \in Seq(ToCoreType) /\ Elements(<<>>) = {}
    BY ShortQueues
  <2> QED BY <2>1, <2>2 DEF InboundOK
<1>9. RowOK' /\ AgentOK'
  BY <1>1, TypedFrame
<1> QED BY <1>2, <1>3, <1>4, <1>5, <1>6, <1>7, <1>8, <1>9, TypedNext

-----------------------------------------------------------------------------
(* The Agent keeps the types.                                              *)

\* What the Agent says of a process.
LEMMA SaidType ==
    ASSUME NEW p \in Processes
    PROVE  /\ \A kind \in {"started", "error"} :
                Report(kind, p) \in ToCoreType /\ Report(kind, p).kind = kind
           /\ \A n \in Nat : /\ Chunk(p, n) \in ToCoreType
                             /\ Chunk(p, n).kind = "output"
                             /\ Chunk(p, n).p = p /\ Chunk(p, n).arg = n
           /\ \A s \in Ended : /\ Exited(p, s) \in ToCoreType
                               /\ Exited(p, s).kind = "exited"
                               /\ Exited(p, s).p = p /\ Exited(p, s).end = s
<1>1. \A kind \in {"started", "error"} :
        Report(kind, p) \in ToCoreType /\ Report(kind, p).kind = kind
  BY DEF Report, ToCoreType
<1>2. ASSUME NEW n \in Nat
      PROVE  /\ Chunk(p, n) \in ToCoreType
             /\ Chunk(p, n).kind = "output"
             /\ Chunk(p, n).p = p /\ Chunk(p, n).arg = n
  <2>1. Chunk(p, n) = [kind |-> "output", p |-> p, arg |-> n, end |-> "none"]
    BY DEF Chunk, Report
  <2> QED BY <2>1 DEF ToCoreType
<1>3. ASSUME NEW s \in Ended
      PROVE  /\ Exited(p, s) \in ToCoreType
             /\ Exited(p, s).kind = "exited"
             /\ Exited(p, s).p = p /\ Exited(p, s).end = s
  <2>1. Exited(p, s) = [kind |-> "exited", p |-> p, arg |-> 0, end |-> s]
    BY DEF Exited, Report
  <2> QED BY <2>1 DEF ToCoreType
<1> QED BY <1>1, <1>2, <1>3

\* What is told arrives on the Agent's connection behind what is there, or
\* nowhere.
LEMMA Told ==
    ASSUME InboundOK, LinkOK, NEW ms \in Seq(ToCoreType), Tell(ms)
    PROVE  /\ toCore' \in [Connections -> Seq(ToCoreType)]
           /\ \A c \in Connections :
                Elements(toCore'[c]) \subseteq Elements(toCore[c]) \cup Elements(ms)
<1>1. CASE Attached
  <2> DEFINE c == link.at
             q == toCore[c] \o ms
  <2>1. c \in Connections
    BY <1>1 DEF LinkOK, Attached, NoLink
  <2>2. toCore[c] \in Seq(ToCoreType)
    BY <2>1 DEF InboundOK
  <2>3. q \in Seq(ToCoreType) /\ Elements(q) = Elements(toCore[c]) \cup Elements(ms)
    BY <2>2, JoinedElements
  <2>4. toCore' = [toCore EXCEPT ![c] = q]
    BY <1>1 DEF Tell
  <2> HIDE DEF c, q
  <2> QED BY <2>1, <2>3, <2>4 DEF InboundOK
<1>2. CASE ~Attached
  BY <1>2 DEF Tell, InboundOK
<1> QED BY <1>1, <1>2

LEMMA ToldType ==
    ASSUME InboundOK, LinkOK, NEW ms \in Seq(ToCoreType), Tell(ms),
           \A m \in Elements(ms) : m.kind = "exited" => m.end \in Ended
    PROVE  InboundOK'
  BY Told DEF InboundOK

LEMMA LinkTyped ==
    ASSUME Typed, Connect \/ Drop \/ AgentRestart \/ Welcomed
    PROVE  Typed'
<1> USE DEF core, agent, wire
<1>0. /\ LoopsOK /\ LinkOK /\ OutboundOK /\ InboundOK /\ AgentOK /\ BudgetOK
  BY TypedParts
<1>1. CASE Connect
  <2>1. PICK c \in Connections :
          /\ link' = [at |-> c, phase |-> "hello"]
          /\ loop' = [loop EXCEPT ![c].pc = "opening"]
    BY <1>1 DEF Connect
  <2>2. LoopsOK'
    BY <1>0, <2>1, LoopMoves, Blank
  <2>3. UNCHANGED replay
    BY <1>1 DEF Connect
  <2>4. LinkOK'
    BY <1>0, <2>1, <2>3 DEF LinkOK
  <2> QED BY <1>1, <2>2, <2>4, TypedFrame, TypedNext DEF Connect
<1>2. CASE Drop
  <2>1. Fault /\ LinkLost /\ UNCHANGED <<core, session, outcome, toCore>>
    BY <1>2 DEF Drop
  <2>2. BudgetOK' /\ LinkOK' /\ toAgent' \in Seq(ToAgentType)
    BY <1>0, <2>1, BudgetType, LinkLostType
  <2>3. OutboundOK'
    BY <1>0, <2>1, <2>2 DEF OutboundOK
  <2> QED BY <2>1, <2>2, <2>3, TypedFrame, TypedNext
<1>3. CASE AgentRestart
  <2>1. /\ Fault /\ LinkLost /\ UNCHANGED <<core, outcome, toCore>>
        /\ session' = [p \in Processes |-> NoSession]
    BY <1>3 DEF AgentRestart
  <2>2. BudgetOK' /\ LinkOK' /\ toAgent' \in Seq(ToAgentType)
    BY <1>0, <2>1, BudgetType, LinkLostType
  <2>3. OutboundOK'
    BY <1>0, <2>1, <2>2 DEF OutboundOK
  <2>4. AgentOK'
    BY <1>0, <2>1, Blank DEF AgentOK
  <2> QED BY <2>1, <2>2, <2>3, <2>4, TypedFrame, TypedNext
<1>4. CASE Welcomed
  <2>0. /\ toAgent # <<>> /\ link.phase = "hello" /\ link.at \in Connections
        /\ UNCHANGED <<core, outcome, budget>>
    BY <1>0, <1>4 DEF Welcomed, LinkOK, NoLink
  <2>1. Tail(toAgent) \in Seq(ToAgentType)
    BY <1>0, <2>0, QueueElements DEF OutboundOK
  <2>2. CASE Head(toAgent).kind # "welcome"
    <3>1. LinkLost /\ UNCHANGED <<session, toCore>>
      BY <1>4, <2>2 DEF Welcomed
    <3>2. LinkOK' /\ toAgent' \in Seq(ToAgentType)
      BY <3>1, LinkLostType
    <3>3. OutboundOK'
      BY <1>0, <2>0, <3>2 DEF OutboundOK
    <3> QED BY <2>0, <3>1, <3>2, <3>3, TypedFrame, TypedNext
  <2>3. CASE Head(toAgent).kind = "welcome"
    <3> DEFINE report == [p \in Processes |->
                            [status |-> session'[p].status,
                             last |-> session'[p].seq]]
               m == [kind |-> "snapshot", sessions |-> report]
               q == Append(toCore[link.at], m)
    <3>1. PICK pruned \in SUBSET {p \in Processes : session[p].status \in Ended} :
            /\ session' = [p \in Processes |->
                             IF p \in pruned THEN NoSession ELSE session[p]]
            /\ link' = [link EXCEPT !.phase = "attached"]
            /\ toAgent' = Tail(toAgent)
            /\ toCore' = [toCore EXCEPT ![link.at] = q]
            /\ UNCHANGED replay
      BY <1>4, <2>3 DEF Welcomed
    <3>2. session' \in [Processes -> SessionType]
      BY <1>0, <3>1, Blank DEF AgentOK
    <3>3. AgentOK'
      BY <1>0, <2>0, <3>2 DEF AgentOK
    <3>4. report \in ReportType
      BY <3>2 DEF SessionType, ReportType
    <3> HIDE DEF report
    <3>5. m \in ToCoreType /\ m.kind = "snapshot"
      BY <3>4 DEF ToCoreType
    <3> HIDE DEF m
    <3>6. toCore[link.at] \in Seq(ToCoreType)
      BY <1>0, <2>0 DEF InboundOK
    <3>7. q \in Seq(ToCoreType) /\ Elements(q) = Elements(toCore[link.at]) \cup {m}
      BY <3>5, <3>6, QueueElements
    <3> HIDE DEF q
    <3>8. InboundOK'
      BY <1>0, <2>0, <3>1, <3>5, <3>7 DEF InboundOK
    <3>9. OutboundOK'
      BY <1>0, <2>0, <2>1, <3>1 DEF OutboundOK
    <3>10. LinkOK'
      BY <1>0, <2>0, <3>1 DEF LinkOK
    <3> QED BY <2>0, <3>3, <3>8, <3>9, <3>10, TypedFrame, TypedNext
  <2> QED BY <2>2, <2>3
<1> QED BY <1>1, <1>2, <1>3, <1>4

\* The next message of the receiver.
LEMMA ReceivedType ==
    ASSUME OutboundOK, NEW kind, Received(kind)
    PROVE  /\ toAgent' = Tail(toAgent) /\ toAgent' \in Seq(ToAgentType)
           /\ Elements(toAgent) = Elements(toAgent') \cup {Head(toAgent)}
           /\ Head(toAgent) \in ToAgentType /\ Head(toAgent).kind = kind
           /\ kind # "welcome" => Head(toAgent).p \in Processes
           /\ kind = "replay" => Head(toAgent).arg \in Nat
<1>1. /\ toAgent # <<>> /\ Head(toAgent).kind = kind
      /\ toAgent' = Tail(toAgent)
  BY DEF Received
<1>2. /\ toAgent' \in Seq(ToAgentType) /\ Head(toAgent) \in ToAgentType
      /\ Elements(toAgent) = Elements(toAgent') \cup {Head(toAgent)}
  BY <1>1, QueueElements DEF OutboundOK
<1>3. kind # "welcome" => Head(toAgent).p \in Processes
  BY <1>1, <1>2 DEF ToAgentType
<1>4. kind = "replay" => Head(toAgent).arg \in Nat
  BY <1>1, <1>2 DEF ToAgentType
<1> QED BY <1>1, <1>2, <1>3, <1>4

\* The session of a process is replaced.
LEMMA SessionUpdate ==
    ASSUME AgentOK, NEW p \in Processes, NEW new \in SessionType,
           session' = [session EXCEPT ![p] = new], UNCHANGED outcome
    PROVE  AgentOK'
  BY DEF AgentOK

\* Told one thing, or nothing.
LEMMA ToldOne ==
    ASSUME InboundOK, LinkOK, NEW m \in ToCoreType, Tell(<<m>>),
           m.kind = "exited" => m.end \in Ended
    PROVE  InboundOK'
<1>1. <<m>> \in Seq(ToCoreType) /\ Elements(<<m>>) = {m}
  BY ShortQueues
<1> QED BY <1>1, ToldType

LEMMA CommandTyped ==
    ASSUME Typed, AgentIgnore \/ AgentStart \/ AgentTerminate
    PROVE  Typed'
<1> USE DEF core, agent, wire
<1>0. LinkOK /\ OutboundOK /\ InboundOK /\ AgentOK
  BY TypedParts
<1> DEFINE p == Head(toAgent).p
           s == session[p].status
<1>1. CASE AgentIgnore
  <2>1. toAgent' \in Seq(ToAgentType)
    BY <1>0, <1>1, ReceivedType DEF AgentIgnore
  <2>2. OutboundOK'
    BY <1>0, <1>1, <2>1 DEF AgentIgnore, OutboundOK
  <2> QED BY <1>1, <2>2, TypedFrame, TypedNext DEF AgentIgnore
<1>2. CASE AgentStart
  <2> DEFINE new == [session[p] EXCEPT !.status = "running"]
  <2>1. /\ Received("start")
        /\ \/ /\ session' = [session EXCEPT ![p].status = "running"]
              /\ Tell(<<Report("started", p)>>)
           \/ UNCHANGED session /\ Tell(<<Report("error", p)>>)
        /\ UNCHANGED <<core, link, replay, outcome, budget>>
    BY <1>2 DEF AgentStart
  <2>2. toAgent' \in Seq(ToAgentType) /\ p \in Processes
    BY <1>0, <2>1, ReceivedType
  <2> HIDE DEF p
  <2>3. OutboundOK'
    BY <1>0, <2>1, <2>2 DEF OutboundOK
  <2>4. /\ Report("started", p) \in ToCoreType /\ Report("started", p).kind = "started"
        /\ Report("error", p) \in ToCoreType /\ Report("error", p).kind = "error"
    BY <2>2, SaidType
  <2>5. InboundOK'
    BY <1>0, <2>1, <2>4, ToldOne
  <2>6. session[p] \in SessionType /\ session \in [Processes -> SessionType]
    BY <1>0, <2>2 DEF AgentOK
  <2>7. new \in SessionType
    BY <2>6 DEF SessionType
  <2>8. session' = [session EXCEPT ![p] = new] \/ UNCHANGED session
    BY <2>1, <2>6
  <2> HIDE DEF new
  <2>9. AgentOK'
    BY <1>0, <2>1, <2>2, <2>7, <2>8, SessionUpdate, TypedFrame
  <2> QED BY <2>1, <2>3, <2>5, <2>9, TypedFrame, TypedNext
<1>3. CASE AgentTerminate
  <2> DEFINE new == [session[p] EXCEPT !.cancel = TRUE]
  <2>1. /\ Received("terminate")
        /\ session' = IF s = "running"
                      THEN [session EXCEPT ![p].cancel = TRUE] ELSE session
        /\ Tell(IF s = "running" THEN <<>>
                ELSE IF s = "none" THEN <<Report("error", p)>>
                ELSE <<Exited(p, s)>>)
        /\ UNCHANGED <<core, link, replay, outcome, budget>>
    BY <1>3 DEF AgentTerminate
  <2>2. toAgent' \in Seq(ToAgentType) /\ p \in Processes
    BY <1>0, <2>1, ReceivedType
  <2>3. session[p] \in SessionType /\ session \in [Processes -> SessionType]
    BY <1>0, <2>2 DEF AgentOK
  <2>4. s \in {"none", "running"} \cup Ended
    BY <2>3 DEF SessionType
  <2> HIDE DEF p
  <2>5. OutboundOK'
    BY <1>0, <2>1, <2>2 DEF OutboundOK
  <2>6. /\ Report("error", p) \in ToCoreType /\ Report("error", p).kind = "error"
        /\ \A e \in Ended : /\ Exited(p, e) \in ToCoreType
                            /\ Exited(p, e).end = e
    BY <2>2, SaidType
  <2>7. InboundOK'
    <3>1. CASE s = "running"
      <4>1. Tell(<<>>)
        BY <2>1, <3>1
      <4> QED BY <1>0, <4>1, ToldType, ShortQueues
    <3>2. CASE s = "none"
      <4>1. Tell(<<Report("error", p)>>)
        BY <2>1, <3>2
      <4> QED BY <1>0, <2>6, <4>1, ToldOne
    <3>3. CASE s \in Ended
      <4>1. Tell(<<Exited(p, s)>>)
        BY <2>1, <3>3 DEF Ended
      <4> QED BY <1>0, <2>6, <3>3, <4>1, ToldOne
    <3> QED BY <2>4, <3>1, <3>2, <3>3
  <2>8. new \in SessionType
    BY <2>3 DEF SessionType
  <2>9. session' = [session EXCEPT ![p] = new] \/ UNCHANGED session
    BY <2>1, <2>3
  <2> HIDE DEF new
  <2>10. AgentOK'
    BY <1>0, <2>1, <2>2, <2>8, <2>9, SessionUpdate, TypedFrame
  <2> QED BY <2>1, <2>5, <2>7, <2>10, TypedFrame, TypedNext
<1> QED BY <1>1, <1>2, <1>3

LEMMA ReplayTyped ==
    ASSUME Typed, AgentReplay \/ AgentReplayStep
    PROVE  Typed'
<1> USE DEF core, agent, wire
<1>0. LinkOK /\ OutboundOK /\ InboundOK /\ AgentOK
  BY TypedParts
<1>1. CASE AgentReplay
  <2> DEFINE m == Head(toAgent)
             n == session[m.p].seq
             lo == IF m.arg > n - History THEN m.arg ELSE n - History
  <2>1. /\ Received("replay")
        /\ UNCHANGED <<core, link, session, outcome, toCore, budget>>
        /\ \/ replay' = <<>>
           \/ ~(lo >= n) /\ replay' = [i \in 1..(n - lo) |-> Chunk(m.p, lo + i)]
    BY <1>1, Zenon DEF AgentReplay
  <2>2. /\ toAgent' \in Seq(ToAgentType) /\ m.p \in Processes /\ m.arg \in Nat
    BY <1>0, <2>1, ReceivedType
  <2>3. n \in Nat
    BY <1>0, <2>2 DEF AgentOK, SessionType
  <2>4. lo \in Nat
    BY <2>2, <2>3
  <2>5. OutboundOK'
    BY <1>0, <2>1, <2>2 DEF OutboundOK
  <2> DEFINE p == m.p
  <2> HIDE DEF m, n, lo, p
  <2>6. replay' \in Seq(ToCoreType) /\ \A x \in Elements(replay') : x.kind = "output"
    <3>1. CASE replay' = <<>>
      BY <3>1, ShortQueues
    <3>2. CASE ~(lo >= n) /\ replay' = [i \in 1..(n - lo) |-> Chunk(p, lo + i)]
      <4>1. n - lo \in Nat
        BY <2>3, <2>4, <3>2
      <4>2. \A i \in 1..(n - lo) : /\ Chunk(p, lo + i) \in ToCoreType
                                   /\ Chunk(p, lo + i).kind = "output"
        BY <2>2, <2>3, <2>4, SaidType DEF p
      <4>3. replay' \in [1..(n - lo) -> ToCoreType]
        BY <3>2, <4>2
      <4>4. replay' \in Seq(ToCoreType) /\ Len(replay') = n - lo
        BY <4>1, <4>3, LenProperties
      <4> QED BY <3>2, <4>1, <4>2, <4>4 DEF Elements
    <3> QED BY <2>1, <3>1, <3>2 DEF p
  <2>7. LinkOK'
    BY <1>0, <2>1, <2>6 DEF LinkOK
  <2> QED BY <2>1, <2>5, <2>7, TypedFrame, TypedNext
<1>2. CASE AgentReplayStep
  <2>1. /\ replay # <<>> /\ Tell(<<Head(replay)>>) /\ replay' = Tail(replay)
        /\ UNCHANGED <<core, link, session, outcome, toAgent, budget>>
    BY <1>2 DEF AgentReplayStep
  <2>2. /\ replay' \in Seq(ToCoreType) /\ Head(replay) \in ToCoreType
        /\ Elements(replay) = Elements(replay') \cup {Head(replay)}
    BY <1>0, <2>1, QueueElements DEF LinkOK
  <2>3. /\ Head(replay).kind = "output"
        /\ \A x \in Elements(replay') : x.kind = "output"
    BY <1>0, <2>2 DEF LinkOK
  <2>4. InboundOK'
    BY <1>0, <2>1, <2>2, <2>3, ToldOne
  <2>5. LinkOK'
    BY <1>0, <2>1, <2>2, <2>3 DEF LinkOK
  <2> QED BY <2>1, <2>4, <2>5, TypedFrame, TypedNext
<1> QED BY <1>1, <1>2

LEMMA SubprocessTyped ==
    ASSUME Typed, NEW p \in Processes, Output(p) \/ Watchdog(p) \/ Exit(p)
    PROVE  Typed'
<1> USE DEF core, agent, wire
<1>0. /\ LinkOK /\ OutboundOK /\ InboundOK /\ AgentOK
      /\ session[p] \in SessionType /\ session \in [Processes -> SessionType]
  BY TypedParts DEF AgentOK
<1>1. CASE Output(p)
  <2> DEFINE n == session[p].seq + 1
             new == [session[p] EXCEPT !.seq = n]
  <2>1. /\ session' = [session EXCEPT ![p].seq = n]
        /\ Tell(<<Chunk(p, n)>>)
        /\ UNCHANGED <<core, link, replay, outcome, toAgent, budget>>
    BY <1>0, <1>1 DEF Output
  <2>2. n \in Nat
    BY <1>0 DEF SessionType
  <2> HIDE DEF n
  <2>3. new \in SessionType /\ session' = [session EXCEPT ![p] = new]
    BY <1>0, <2>1, <2>2 DEF SessionType
  <2> HIDE DEF new
  <2>4. AgentOK'
    BY <1>0, <2>1, <2>3, SessionUpdate
  <2>5. InboundOK'
    BY <1>0, <2>1, <2>2, SaidType, ToldOne
  <2> QED BY <2>1, <2>4, <2>5, TypedFrame, TypedNext
<1>2. CASE Watchdog(p)
  <2> DEFINE new == [session[p] EXCEPT !.timedOut = TRUE]
  <2>1. /\ session' = [session EXCEPT ![p].timedOut = TRUE]
        /\ UNCHANGED <<core, link, replay, outcome, wire, budget>>
    BY <1>2 DEF Watchdog
  <2>2. new \in SessionType /\ session' = [session EXCEPT ![p] = new]
    BY <1>0, <2>1 DEF SessionType
  <2> HIDE DEF new
  <2>3. AgentOK'
    BY <1>0, <2>1, <2>2, SessionUpdate
  <2> QED BY <2>1, <2>3, TypedFrame, TypedNext
<1>3. CASE Exit(p)
  <2>1. PICK s \in Ended :
          /\ session' = [session EXCEPT ![p] =
                           [NoSession EXCEPT !.status = s, !.seq = session[p].seq]]
          /\ outcome' = [outcome EXCEPT ![p] = s]
          /\ Tell(<<Exited(p, s)>>)
          /\ UNCHANGED <<core, link, replay, toAgent, budget>>
    BY <1>3 DEF Exit, Ended
  <2> DEFINE n == session[p].seq
             new == [NoSession EXCEPT !.status = s, !.seq = n]
  <2>2. n \in Nat
    BY <1>0 DEF SessionType
  <2> HIDE DEF n
  <2>3. new \in SessionType
    BY <2>2, Blank DEF SessionType
  <2>4. session' = [session EXCEPT ![p] = new]
    BY <2>1 DEF n
  <2> HIDE DEF new
  <2>5. AgentOK'
    BY <1>0, <2>1, <2>3, <2>4 DEF AgentOK
  <2>6. InboundOK'
    BY <1>0, <2>1, SaidType, ToldOne
  <2> QED BY <2>1, <2>5, <2>6, TypedFrame, TypedNext
<1> QED BY <1>1, <1>2, <1>3

LEMMA InitTyped == Init => Typed
<1> SUFFICES ASSUME Init PROVE Typed
  OBVIOUS
<1> DEFINE start == [pc |-> "none", future |-> "none", txn |-> NoTxn]
           wait == [pc |-> "none", future |-> "none"]
           stop == [pc |-> "none", txn |-> NoTxn]
<1>1. /\ start \in StarterType /\ start.txn = NoTxn
      /\ wait \in WaiterType
      /\ stop \in StopperType /\ stop.txn = NoTxn
  BY Blank DEF StarterType, WaiterType, StopperType, FutureType
<1>2. /\ row = [p \in Processes |-> NewRow]
      /\ registered = NoConnection
      /\ loop = [c \in Connections |-> NoLoop]
      /\ starter = [p \in Processes |-> start]
      /\ waiter = [p \in Processes |-> wait]
      /\ stopper = [p \in Processes |-> stop]
      /\ link = NoLink /\ toAgent = <<>> /\ replay = <<>>
      /\ toCore = [c \in Connections |-> <<>>]
      /\ session = [p \in Processes |-> NoSession]
      /\ budget \in Budgets
      /\ outcome = [p \in Processes |-> "none"]
  BY DEF Init
<1> HIDE DEF start, wait, stop
<1>3. RowOK /\ WaitersOK /\ BudgetOK /\ AgentOK
  BY <1>1, <1>2, Blank DEF RowOK, WaitersOK, BudgetOK, AgentOK
<1>4. StartersOK
  BY <1>1, <1>2, Blank DEF StartersOK
<1>5. StoppersOK
  BY <1>1, <1>2, Blank DEF StoppersOK
<1>6. LoopsOK
  BY <1>2, Blank DEF LoopsOK
<1>7. /\ <<>> \in Seq(ToCoreType) /\ <<>> \in Seq(ToAgentType)
      /\ Elements(<<>>) = {}
  BY ShortQueues
<1>8. LinkOK /\ OutboundOK
  BY <1>2, <1>7 DEF LinkOK, OutboundOK, NoLink
<1>9. InboundOK
  BY <1>2, <1>7 DEF InboundOK
<1> QED BY <1>3, <1>4, <1>5, <1>6, <1>8, <1>9, TypedParts

LEMMA StepTyped ==
    ASSUME Typed, [Next]_vars
    PROVE  Typed'
<1>1. CASE UNCHANGED vars
  BY <1>1, TypedFrame, TypedNext DEF vars, core, agent, wire
<1>2. ASSUME NEW p \in Processes,
             \/ StartCreate(p) \/ Start(p) \/ WaitRead(p) \/ Wait(p)
             \/ WaitTimeout(p) \/ StopBegin(p) \/ Stop(p)
             \/ Output(p) \/ Watchdog(p) \/ Exit(p)
      PROVE  Typed'
  BY <1>2, StartTyped, WaitTyped, StopTyped, SubprocessTyped
<1>3. ASSUME NEW c \in Connections, Loop(c)
      PROVE  Typed'
  BY <1>3, ConnectionTyped, HandleTyped, WriteTyped, SnapshotTyped DEF Loop
<1>4. CASE Receiver \/ Connect \/ Drop \/ AgentRestart \/ CoreRestart
  BY <1>4, LinkTyped, CommandTyped, ReplayTyped, RestartTyped DEF Receiver
<1> QED BY <1>1, <1>2, <1>3, <1>4 DEF Next

LEMMA AlwaysTyped == Spec => []Typed
<1> QED BY InitTyped, StepTyped, PTL DEF Spec

\* Core's rows, futures and loops, what travels and what the Agent remembers
\* keep the shapes that the code gives them.
THEOREM TypeCorrect == Spec => []TypeOK
<1>1. Typed => TypeOK
  BY DEF Typed
<1> QED BY <1>1, AlwaysTyped, PTL

-----------------------------------------------------------------------------
(* Every report is true: the Agent starts a process at most once, so that  *)
(* what is told of its end stays so.                                       *)

\* A start message is sent once, and the Agent starts from nothing.
Early == {"none", "created", "registered"}

Startable(p) == session[p].status = "none" /\ outcome[p] = "none"

StartMessage(p) == [kind |-> "start", p |-> p]

Invited(p) == StartMessage(p) \in Elements(toAgent)

\* No start message is in the queue twice.
Unique(q) ==
    \A i, j \in 1..Len(q) : q[i] = q[j] /\ q[i].kind = "start" => i = j

StartedOnce ==
    /\ Unique(toAgent)
    /\ \A p \in Processes :
        /\ starter[p].pc \in Early => Startable(p) /\ ~Invited(p)
        /\ Invited(p) => Startable(p)
        /\ session[p].status = "running" => outcome[p] = "none"

\* What a report says of the end of a process.
TrueEnds(report) ==
    \A p \in Processes :
        report[p].status \in Ended => outcome[p] = report[p].status

TrueMessages(ms) ==
    \A m \in ms : /\ m.kind = "exited" => outcome[m.p] = m.end
                  /\ m.kind = "snapshot" => TrueEnds(m.sessions)

TrueLoop(l) == /\ TrueEnds(l.report)
               /\ l.txn.kind = "exited" => outcome[l.txn.p] = l.txn.end

\* Every end that the Agent remembers, that is under way, or that a handler is
\* about to write, is the one that happened.
SessionsTrue == TrueEnds(session)
WireTrue     == \A c \in Connections : TrueMessages(Elements(toCore[c]))
LoopsTrue    == \A c \in Connections : TrueLoop(loop[c])

Truth == Typed /\ StartedOnce /\ SessionsTrue /\ WireTrue /\ LoopsTrue
         /\ ReportsAreTrue

LEMMA UniqueAppend ==
    ASSUME NEW S, NEW q \in Seq(S), NEW m \in S, Unique(q),
           m.kind = "start" => m \notin Elements(q)
    PROVE  Unique(Append(q, m))
<1> DEFINE r == Append(q, m)
<1>1. /\ Len(q) \in Nat /\ Len(r) = Len(q) + 1
      /\ r[Len(q) + 1] = m
      /\ \A i \in 1..Len(q) : r[i] = q[i]
  OBVIOUS
<1>2. m.kind = "start" => \A i \in 1..Len(q) : q[i] # m
  BY DEF Elements
<1> HIDE DEF r
<1>3. SUFFICES ASSUME NEW i \in 1..Len(r), NEW j \in 1..Len(r),
                      r[i] = r[j], r[i].kind = "start"
               PROVE  i = j
  BY DEF Unique, r
<1>4. CASE i \in 1..Len(q) /\ j \in 1..Len(q)
  BY <1>1, <1>3, <1>4 DEF Unique
<1>5. CASE i = Len(q) + 1 \/ j = Len(q) + 1
  BY <1>1, <1>2, <1>3, <1>5
<1> QED BY <1>1, <1>4, <1>5

LEMMA UniqueTail ==
    ASSUME NEW S, NEW q \in Seq(S), q # <<>>, Unique(q)
    PROVE  /\ Unique(Tail(q))
           /\ Head(q).kind = "start" => Head(q) \notin Elements(Tail(q))
<1> DEFINE r == Tail(q)
<1>1. /\ Len(q) \in Nat \ {0} /\ Len(r) = Len(q) - 1
      /\ Head(q) = q[1]
      /\ \A i \in 1..Len(r) : r[i] = q[i + 1]
  OBVIOUS
<1>2. \A i \in 1..Len(r) : i + 1 \in 1..Len(q)
  BY <1>1
<1> HIDE DEF r
<1>3. ASSUME NEW i \in 1..Len(r), NEW j \in 1..Len(r),
             r[i] = r[j], r[i].kind = "start"
      PROVE  i = j
  <2>1. i + 1 = j + 1
    BY <1>1, <1>2, <1>3 DEF Unique
  <2> QED BY <1>1, <2>1
<1>4. ASSUME Head(q).kind = "start", Head(q) \in Elements(r) PROVE FALSE
  <2>1. PICK i \in 1..Len(r) : r[i] = Head(q)
    BY <1>4 DEF Elements
  <2>2. q[i + 1] = q[1] /\ q[1].kind = "start"
    BY <1>1, <1>4, <2>1
  <2>3. i + 1 = 1
    BY <1>1, <1>2, <2>2 DEF Unique
  <2> QED BY <1>1, <2>3
<1>5. Unique(r)
  BY <1>3 DEF Unique
<1> QED BY <1>4, <1>5 DEF r

LEMMA UniqueEmpty == Unique(<<>>)
  BY DEF Unique

\* A start message is sent by the starter alone: anything else that is sent,
\* taken or lost leaves no new one.
FewerStarts ==
    /\ Unique(toAgent')
    /\ \A p \in Processes :
        StartMessage(p) \in Elements(toAgent') => Invited(p)

LEMMA StartMessageKind ==
    \A p \in Processes : /\ StartMessage(p) \in ToAgentType
                         /\ StartMessage(p).kind = "start"
                         /\ StartMessage(p).p = p
  BY DEF StartMessage, ToAgentType

LEMMA SendFewer ==
    ASSUME OutboundOK, Unique(toAgent), NEW m \in ToAgentType, m.kind # "start",
           NEW sent \in BOOLEAN, Send(m, sent)
    PROVE  FewerStarts
<1>1. toAgent \in Seq(ToAgentType)
  BY DEF OutboundOK
<1>2. CASE toAgent' = Append(toAgent, m)
  <2>1. Unique(toAgent') /\ Elements(toAgent') = Elements(toAgent) \cup {m}
    BY <1>1, <1>2, UniqueAppend, QueueElements
  <2> QED BY <2>1, StartMessageKind DEF FewerStarts, Invited
<1>3. CASE UNCHANGED toAgent
  BY <1>3 DEF FewerStarts, Invited
<1> QED BY <1>2, <1>3 DEF Send

LEMMA OtherFewer ==
    ASSUME Unique(toAgent)
    PROVE  /\ UNCHANGED toAgent => FewerStarts
           /\ LinkLost => FewerStarts
<1>1. UNCHANGED toAgent => FewerStarts
  BY DEF FewerStarts, Invited
<1>2. LinkLost => FewerStarts
  <2>1. Elements(<<>>) = {}
    BY ShortQueues
  <2> QED BY <2>1, UniqueEmpty DEF LinkLost, FewerStarts
<1> QED BY <1>1, <1>2

LEMMA TailFewer ==
    ASSUME OutboundOK, Unique(toAgent), toAgent # <<>>, toAgent' = Tail(toAgent)
    PROVE  /\ FewerStarts
           /\ Head(toAgent).kind = "start" => Head(toAgent) \notin Elements(toAgent')
           /\ Head(toAgent) \in Elements(toAgent)
<1>1. toAgent \in Seq(ToAgentType)
  BY DEF OutboundOK
<1>2. /\ Unique(toAgent')
      /\ Head(toAgent).kind = "start" => Head(toAgent) \notin Elements(toAgent')
      /\ Elements(toAgent) = Elements(toAgent') \cup {Head(toAgent)}
  BY <1>1, UniqueTail, QueueElements
<1> QED BY <1>2 DEF FewerStarts, Invited

\* Nobody begins to start, nothing starts or is forgotten: as it was.
LEMMA OnceKept ==
    ASSUME StartedOnce, FewerStarts, UNCHANGED outcome,
           \A p \in Processes :
              /\ starter'[p].pc \in Early => starter[p].pc \in Early
              /\ session[p].status = "none" => session'[p].status = "none"
              /\ session'[p].status = "running" => session[p].status = "running"
    PROVE  StartedOnce'
<1>1. \A p \in Processes : Startable(p) => Startable(p)'
  BY DEF Startable
<1>2. \A p \in Processes : Invited(p)' => Invited(p)
  BY DEF FewerStarts, Invited, StartMessage
<1> QED BY <1>1, <1>2 DEF StartedOnce, FewerStarts

LEMMA OnceFrame ==
    ASSUME StartedOnce, UNCHANGED <<starter, toAgent, session, outcome>>
    PROVE  StartedOnce'
  BY OtherFewer, OnceKept DEF StartedOnce

\* What is true stays so while nothing new is said and nothing ends.
LEMMA TruthFrame ==
    ASSUME Truth, UNCHANGED outcome
    PROVE  /\ UNCHANGED row => ReportsAreTrue'
           /\ UNCHANGED session => SessionsTrue'
           /\ UNCHANGED toCore => WireTrue'
           /\ UNCHANGED loop => LoopsTrue'
  BY DEF Truth, ReportsAreTrue, SessionsTrue, WireTrue, LoopsTrue, TrueEnds,
     TrueMessages, TrueLoop

LEMMA TruthParts ==
    /\ Typed' /\ StartedOnce' /\ SessionsTrue' /\ WireTrue' /\ LoopsTrue'
       /\ ReportsAreTrue'
    => Truth'
  BY DEF Truth

\* A commit writes the status there was, what Core concludes, or the end it
\* was told of.
LEMMA CommittedStatus ==
    ASSUME NEW x \in TxnType, Live(x), NEW r \in RowType
    PROVE  \/ Committed(x, r).status = r.status
           \/ Committed(x, r).status \notin {"completed", "cancelled", "timed_out"}
           \/ x.kind = "exited" /\ Committed(x, r).status = x.end
<1>1. CASE x.kind = "output"
  BY <1>1, CommittedRow
<1>2. CASE x.kind # "output"
  <2>1. \/ NewStatus(x) \notin {"completed", "cancelled", "timed_out"}
        \/ x.kind = "exited" /\ NewStatus(x) = x.end
    BY <1>2 DEF NewStatus, Live, TxnType
  <2> QED BY <1>2, <2>1, CommittedRow
<1> QED BY <1>1, <1>2

LEMMA CommitTrue ==
    ASSUME RowOK, ReportsAreTrue, UNCHANGED outcome,
           NEW p \in Processes, NEW x \in TxnType, Live(x),
           x.kind = "exited" => outcome[p] = x.end,
           row' = [row EXCEPT ![p] = Committed(x, row[p])]
    PROVE  ReportsAreTrue'
<1> DEFINE r == Committed(x, row[p])
<1>1. row[p] \in RowType
  BY DEF RowOK
<1>2. \/ r.status = row[p].status
      \/ r.status \notin {"completed", "cancelled", "timed_out"}
      \/ x.kind = "exited" /\ r.status = x.end
  BY <1>1, CommittedStatus
<1>3. row'[p] = r /\ \A q \in Processes \ {p} : row'[q] = row[q]
  BY DEF RowOK
<1> HIDE DEF r
<1> QED BY <1>2, <1>3 DEF ReportsAreTrue

\* start_process, wait_for_exit and terminate_process.
LEMMA CallersTrue ==
    ASSUME Truth, NEW p \in Processes,
           \/ StartCreate(p) \/ Start(p) \/ WaitRead(p) \/ Wait(p)
           \/ WaitTimeout(p) \/ StopBegin(p) \/ Stop(p)
    PROVE  Truth'
<1> USE DEF core, agent, wire
<1>0. /\ Typed /\ StartedOnce /\ ReportsAreTrue
      /\ RowOK /\ StartersOK /\ StoppersOK /\ OutboundOK /\ Unique(toAgent)
      /\ starter \in [Processes -> StarterType] /\ starter[p] \in StarterType
  BY TypedParts DEF Truth, StartedOnce, StartersOK
<1>1. Typed'
  BY <1>0, StartTyped, WaitTyped, StopTyped
<1>2. UNCHANGED <<loop, session, outcome, toCore>>
  BY DEF StartCreate, Start, StartRegister, StartSend, StartTimeout, StartFailLoad,
     StartFailCommit, StartRetract, StartReturn, WaitRead, Wait, WaitRegister,
     WaitRecheck, WaitReturn, WaitTimeout, StopBegin, Stop, StopLoad, StopCommit,
     StopSend, StopLoseLoad, StopResolve
<1>3. SessionsTrue' /\ WireTrue' /\ LoopsTrue'
  BY <1>2, TruthFrame
<1>4. ReportsAreTrue'
  <2>1. CASE UNCHANGED row
    BY <1>2, <2>1, TruthFrame
  <2>2. CASE StartCreate(p)
    <3>1. row' = [row EXCEPT ![p].status = "starting"]
      BY <2>2 DEF StartCreate
    <3> QED BY <1>0, <1>2, <3>1 DEF ReportsAreTrue, RowOK, RowType
  <2>3. CASE StartFailCommit(p)
    <3> DEFINE x == starter[p].txn
    <3>1. x \in TxnType /\ Live(x) /\ x.kind # "exited"
      BY <1>0, <2>3 DEF StartFailCommit, StartersOK, StarterType, Sane
    <3>2. row' = [row EXCEPT ![p] = Committed(x, row[p])]
      BY <2>3 DEF StartFailCommit
    <3> HIDE DEF x
    <3> QED BY <1>0, <1>2, <3>1, <3>2, CommitTrue
  <2>4. CASE StopCommit(p)
    <3> DEFINE x == stopper[p].txn
    <3>1. x \in TxnType /\ Live(x) /\ x.kind # "exited"
      BY <1>0, <2>4 DEF StopCommit, StoppersOK, StopperType, Sane
    <3>2. row' = [row EXCEPT ![p] = Committed(x, row[p])]
      BY <2>4 DEF StopCommit
    <3> HIDE DEF x
    <3> QED BY <1>0, <1>2, <3>1, <3>2, CommitTrue
  <2> QED BY <2>1, <2>2, <2>3, <2>4 DEF Start, StartRegister, StartSend,
        StartTimeout, StartFailLoad, StartRetract, StartReturn, WaitRead, Wait,
        WaitRegister, WaitRecheck, WaitReturn, WaitTimeout, StopBegin, Stop,
        StopLoad, StopSend, StopLoseLoad, StopResolve
<1>5. \A q \in Processes \ {p} : starter'[q].pc = starter[q].pc
  <2>1. CASE UNCHANGED starter
    BY <2>1
  <2>2. CASE StopResolve(p)
    BY <1>0, <2>2 DEF StopResolve, ResolveStart
  <2>3. CASE StartCreate(p) \/ Start(p)
    BY <1>0, <2>3 DEF StartCreate, Start, StartRegister, StartSend, StartTimeout,
       StartFailLoad, StartFailCommit, StartRetract, StartReturn
  <2> QED BY <2>1, <2>2, <2>3 DEF WaitRead, Wait, WaitRegister, WaitRecheck,
        WaitReturn, WaitTimeout, StopBegin, Stop, StopLoad, StopCommit, StopSend,
        StopLoseLoad
<1>6. CASE ~StartSend(p)
  <2>1. starter'[p].pc \in Early => starter[p].pc \in Early
    <3>1. CASE UNCHANGED starter
      BY <3>1
    <3>2. CASE StopResolve(p)
      BY <1>0, <3>2 DEF StopResolve, ResolveStart, StarterType
    <3>3. CASE StartCreate(p) \/ StartRegister(p)
      BY <3>3 DEF StartCreate, StartRegister, Early
    <3>4. CASE StartTimeout(p) \/ StartRetract(p) \/ StartReturn(p)
      BY <1>0, <3>4 DEF StartTimeout, StartRetract, StartReturn, Started, Early,
         StarterType
    <3>5. CASE StartFailLoad(p) \/ StartFailCommit(p)
      <4> DEFINE new == [starter[p] EXCEPT !.txn = Loaded("failed", p, 0, "none")]
                 after == AfterFailure(starter[p].pc)
      <4>1. \/ starter' = [starter EXCEPT ![p] = new]
            \/ starter' = [starter EXCEPT ![p] = after]
        BY <3>5, Zenon DEF StartFailLoad, StartFailCommit
      <4>2. new.pc = starter[p].pc /\ after.pc \in {"done", "retract"}
        BY <1>0 DEF StarterType, AfterFailure, Started
      <4> HIDE DEF new, after
      <4> QED BY <1>0, <4>1, <4>2 DEF Early
    <3> QED BY <1>6, <3>1, <3>2, <3>3, <3>4, <3>5 DEF Start, WaitRead, Wait,
          WaitRegister, WaitRecheck, WaitReturn, WaitTimeout, StopBegin, Stop,
          StopLoad, StopCommit, StopSend, StopLoseLoad
  <2>2. FewerStarts
    <3>1. CASE UNCHANGED toAgent
      BY <1>0, <3>1, OtherFewer
    <3>2. CASE StartRetract(p) \/ StopSend(p)
      <4>1. PICK sent \in BOOLEAN : Send([kind |-> "terminate", p |-> p], sent)
        BY <3>2 DEF StartRetract, StopSend
      <4> QED BY <1>0, <4>1, SendFewer, MessageTypes
    <3> QED BY <1>6, <3>1, <3>2 DEF StartCreate, Start, StartRegister, StartTimeout,
          StartFailLoad, StartFailCommit, StartReturn, WaitRead, Wait, WaitRegister,
          WaitRecheck, WaitReturn, WaitTimeout, StopBegin, Stop, StopLoad,
          StopCommit, StopLoseLoad, StopResolve
  <2>3. StartedOnce'
    BY <1>0, <1>2, <1>5, <2>1, <2>2, OnceKept
  <2> QED BY <1>1, <1>3, <1>4, <2>3, TruthParts
<1>7. CASE StartSend(p)
  <2>1. PICK sent \in BOOLEAN :
          /\ Send(StartMessage(p), sent)
          /\ starter' = [starter EXCEPT ![p].pc = IF sent THEN "waiting" ELSE "unsent"]
    BY <1>7 DEF StartSend, StartMessage
  <2>2. starter[p].pc \in Early /\ starter'[p].pc \notin Early
    BY <1>0, <1>7, <2>1 DEF StartSend, Early
  <2>3. Startable(p) /\ ~Invited(p)
    BY <1>0, <2>2 DEF StartedOnce
  <2>4. /\ Unique(toAgent')
        /\ \A q \in Processes \ {p} :
              StartMessage(q) \in Elements(toAgent') => Invited(q)
    <3>1. toAgent \in Seq(ToAgentType)
      BY <1>0 DEF OutboundOK
    <3>2. CASE UNCHANGED toAgent
      BY <1>0, <3>2 DEF Invited
    <3>3. CASE toAgent' = Append(toAgent, StartMessage(p))
      <4>1. /\ Unique(toAgent')
            /\ Elements(toAgent') = Elements(toAgent) \cup {StartMessage(p)}
        BY <1>0, <2>3, <3>1, <3>3, UniqueAppend, QueueElements, StartMessageKind
           DEF Invited
      <4>2. \A q \in Processes \ {p} : StartMessage(q) # StartMessage(p)
        BY StartMessageKind
      <4> QED BY <4>1, <4>2 DEF Invited
    <3> QED BY <2>1, <3>2, <3>3 DEF Send
  <2>5. \A q \in Processes : Startable(q)' <=> Startable(q)
    BY <1>2 DEF Startable
  <2>6. \A q \in Processes \ {p} : Invited(q)' => Invited(q)
    BY <2>4 DEF Invited, StartMessage
  <2>7. StartedOnce'
    BY <1>0, <1>2, <1>5, <2>2, <2>3, <2>4, <2>5, <2>6 DEF StartedOnce
  <2> QED BY <1>1, <1>3, <1>4, <2>7, TruthParts
<1> QED BY <1>6, <1>7

\* What a loop is replaced by says what is true.
LEMMA LoopTrueUpdate ==
    ASSUME Truth, UNCHANGED outcome, NEW c \in Connections, NEW new,
           loop' = [loop EXCEPT ![c] = new], TrueLoop(new)
    PROVE  LoopsTrue'
<1>1. loop \in [Connections -> LoopType]
  BY TypedParts DEF Truth, LoopsOK
<1>2. \A d \in Connections : loop'[d] = loop[d] \/ loop'[d] = new
  BY <1>1
<1>3. \A d \in Connections : TrueLoop(loop'[d])
  BY <1>2 DEF Truth, LoopsTrue
<1> QED BY <1>3 DEF LoopsTrue, TrueLoop, TrueEnds

LEMMA BlankTrue ==
    /\ TrueEnds(NoReport) /\ TrueLoop(NoLoop) /\ NoTxn.kind # "exited"
<1>1. TrueEnds(NoReport)
  BY DEF TrueEnds, NoReport, Ended
<1>2. NoTxn.kind # "exited" /\ NoLoop.report = NoReport /\ NoLoop.txn = NoTxn
  BY DEF NoTxn, NoLoop
<1> QED BY <1>1, <1>2 DEF TrueLoop

\* Taking a message that tells the truth.
LEMMA TakeTrue ==
    ASSUME Truth, UNCHANGED outcome, NEW c \in Connections, toCore[c] # <<>>,
           toCore' = [toCore EXCEPT ![c] = Tail(@)]
    PROVE  /\ WireTrue' /\ TrueMessages({Head(toCore[c])})
           /\ Head(toCore[c]) \in ToCoreType
<1>1. InboundOK /\ WireTrue
  BY TypedParts DEF Truth
<1>2. /\ \A d \in Connections : Elements(toCore'[d]) \subseteq Elements(toCore[d])
      /\ Head(toCore[c]) \in Elements(toCore[c]) /\ Head(toCore[c]) \in ToCoreType
  BY <1>1, TakeType
<1> QED BY <1>1, <1>2 DEF WireTrue, TrueMessages, TrueEnds

\* A loop is opened, registered, welcomed and ended.
LEMMA ConnectionTrue ==
    ASSUME Truth, NEW c \in Connections, Register(c) \/ Greet(c) \/ LoopEnd(c)
    PROVE  Truth'
<1> USE DEF core, agent, wire
<1>0. /\ Typed /\ StartedOnce /\ Unique(toAgent) /\ WireTrue
      /\ OutboundOK /\ LoopsOK /\ InboundOK /\ TrueLoop(loop[c])
      /\ loop \in [Connections -> LoopType] /\ loop[c] \in LoopType
  BY TypedParts DEF Truth, StartedOnce, LoopsOK, LoopsTrue
<1>1. Typed'
  BY <1>0, ConnectionTyped
<1>2. UNCHANGED <<row, starter, session, outcome>>
  BY DEF Register, Greet, LoopEnd
<1>3. ReportsAreTrue' /\ SessionsTrue'
  BY <1>2, TruthFrame
<1>4. LoopsTrue'
  <2>1. CASE LoopEnd(c)
    BY <1>2, <2>1, LoopTrueUpdate, BlankTrue DEF LoopEnd
  <2>2. CASE Register(c) \/ Greet(c)
    <3>1. PICK pc : loop' = [loop EXCEPT ![c].pc = pc]
      BY <2>2 DEF Register, Greet
    <3> DEFINE new == [loop[c] EXCEPT !.pc = pc]
    <3>2. /\ loop' = [loop EXCEPT ![c] = new]
          /\ new.report = loop[c].report /\ new.txn = loop[c].txn
      BY <1>0, <3>1 DEF LoopType
    <3> HIDE DEF new
    <3>3. TrueLoop(new)
      BY <1>0, <3>2 DEF TrueLoop
    <3> QED BY <1>2, <3>2, <3>3, LoopTrueUpdate
  <2> QED BY <2>1, <2>2
<1>5. WireTrue'
  <2>1. CASE UNCHANGED toCore
    BY <1>2, <2>1, TruthFrame
  <2>2. CASE toCore' = [toCore EXCEPT ![c] = <<>>]
    <3>1. Elements(<<>>) = {}
      BY ShortQueues
    <3>2. \A d \in Connections : toCore'[d] = toCore[d] \/ toCore'[d] = <<>>
      BY <1>0, <2>2 DEF InboundOK
    <3> QED BY <1>0, <1>2, <3>1, <3>2 DEF WireTrue, TrueMessages, TrueEnds
  <2> QED BY <2>1, <2>2 DEF Register, Greet, LoopEnd
<1>6. FewerStarts
  <2>1. CASE Register(c) \/ LoopEnd(c)
    BY <1>0, <2>1, OtherFewer DEF Register, LoopEnd
  <2>2. CASE Greet(c)
    <3>1. PICK sent \in BOOLEAN : Send([kind |-> "welcome"], sent)
      BY <2>2 DEF Greet
    <3> QED BY <1>0, <3>1, SendFewer, MessageTypes
  <2> QED BY <2>1, <2>2
<1>7. StartedOnce'
  BY <1>0, <1>2, <1>6, OnceKept
<1> QED BY <1>1, <1>3, <1>4, <1>5, <1>7, TruthParts

\* A message is handled, its transaction committed, its waiters woken.
LEMMA HandlerTrue ==
    ASSUME Truth, NEW c \in Connections,
           Handle(c) \/ LoopCommit(c) \/ LoopResolve(c)
    PROVE  Truth'
<1> USE DEF core, agent, wire
<1>0. /\ Typed /\ StartedOnce /\ Unique(toAgent) /\ ReportsAreTrue
      /\ RowOK /\ StartersOK /\ LoopsOK /\ TrueLoop(loop[c])
      /\ loop \in [Connections -> LoopType] /\ loop[c] \in LoopType
      /\ Sane(loop[c].txn)
  BY TypedParts DEF Truth, StartedOnce, LoopsOK, LoopsTrue
<1>1. Typed'
  BY <1>0, HandleTyped, WriteTyped
<1>2. UNCHANGED <<toAgent, session, outcome>>
  BY DEF Handle, LoopCommit, LoopResolve
<1>3. SessionsTrue' /\ FewerStarts
  BY <1>0, <1>2, TruthFrame, OtherFewer
<1> DEFINE x == loop[c].txn
<1>4. ASSUME NEW new, loop' = [loop EXCEPT ![c].txn = new],
             new.kind = "exited" => outcome[new.p] = new.end
      PROVE  LoopsTrue'
  <2> DEFINE l == [loop[c] EXCEPT !.txn = new]
  <2>1. /\ loop' = [loop EXCEPT ![c] = l]
        /\ l.report = loop[c].report /\ l.txn = new
    BY <1>0, <1>4 DEF LoopType
  <2> HIDE DEF l
  <2>2. TrueLoop(l)
    BY <1>0, <1>4, <2>1 DEF TrueLoop
  <2> QED BY <1>2, <2>1, <2>2, LoopTrueUpdate
<1>5. CASE Handle(c)
  <2> DEFINE m == Head(toCore[c])
             kind == IF m.kind = "error" THEN "failed" ELSE m.kind
             y == Loaded(kind, m.p, m.arg, m.end)
             z == [y EXCEPT !.phase = "written"]
  <2>1. /\ toCore[c] # <<>>
        /\ toCore' = [toCore EXCEPT ![c] = Tail(@)]
        /\ loop' = [loop EXCEPT ![c].txn =
                      IF Applies(kind, m.p, m.arg) THEN y
                      ELSE IF kind = "failed" THEN z ELSE NoTxn]
        /\ UNCHANGED <<row, starter>>
    BY <1>5, Zenon DEF Handle
  <2>2. WireTrue' /\ TrueMessages({m})
    BY <1>2, <2>1, TakeTrue
  <2>3. /\ y.kind = kind /\ y.p = m.p /\ y.end = m.end
        /\ z.kind = kind /\ z.p = m.p /\ z.end = m.end
    BY DEF Loaded
  <2>4. kind = "exited" => outcome[m.p] = m.end
    BY <2>2 DEF TrueMessages
  <2> HIDE DEF m, kind, y, z
  <2>5. PICK new : /\ new \in {y, z, NoTxn}
                   /\ loop' = [loop EXCEPT ![c].txn = new]
    <3>1. (IF Applies(kind, m.p, m.arg) THEN y
           ELSE IF kind = "failed" THEN z ELSE NoTxn) \in {y, z, NoTxn}
      OBVIOUS
    <3> QED BY <2>1, <3>1
  <2>6. new.kind = "exited" => outcome[new.p] = new.end
    BY <2>3, <2>4, <2>5, BlankTrue
  <2>7. LoopsTrue'
    BY <1>4, <2>5, <2>6
  <2>8. ReportsAreTrue' /\ StartedOnce'
    BY <1>0, <1>2, <1>3, <2>1, TruthFrame, OnceKept
  <2> QED BY <1>1, <1>3, <2>2, <2>7, <2>8, TruthParts
<1>6. CASE LoopCommit(c)
  <2> DEFINE z == [x EXCEPT !.phase = "written"]
  <2>1. /\ x.phase # "none"
        /\ row' = [row EXCEPT ![x.p] = Committed(x, row[x.p])]
        /\ loop' = [loop EXCEPT ![c].txn = IF x.kind = "output" THEN NoTxn ELSE z]
        /\ UNCHANGED <<starter, toCore>>
    BY <1>6 DEF LoopCommit
  <2>2. x \in TxnType /\ Live(x) /\ x.p \in Processes
    BY <1>0, <2>1, Blank DEF LoopType, Sane, Live
  <2>3. x.kind = "exited" => outcome[x.p] = x.end
    BY <1>0 DEF TrueLoop
  <2>4. z.kind = x.kind /\ z.p = x.p /\ z.end = x.end
    BY <2>2 DEF TxnType
  <2> HIDE DEF x, z
  <2>5. PICK new \in {z, NoTxn} : loop' = [loop EXCEPT ![c].txn = new]
    <3>1. (IF x.kind = "output" THEN NoTxn ELSE z) \in {z, NoTxn}
      OBVIOUS
    <3> QED BY <2>1, <3>1
  <2>6. new.kind = "exited" => outcome[new.p] = new.end
    BY <2>3, <2>4, <2>5, BlankTrue
  <2>7. LoopsTrue'
    BY <1>4, <2>5, <2>6
  <2>8. ReportsAreTrue'
    BY <1>0, <1>2, <2>1, <2>2, <2>3, CommitTrue
  <2>9. WireTrue' /\ StartedOnce'
    BY <1>0, <1>2, <1>3, <2>1, TruthFrame, OnceKept
  <2> QED BY <1>1, <1>3, <2>7, <2>8, <2>9, TruthParts
<1>7. CASE LoopResolve(c)
  <2>1. /\ loop' = [loop EXCEPT ![c].txn = NoTxn]
        /\ ResolveStart(x.p)
        /\ UNCHANGED <<row, toCore>>
    BY <1>7 DEF LoopResolve
  <2>2. LoopsTrue'
    BY <1>4, <2>1, BlankTrue
  <2>3. \A p \in Processes : starter'[p].pc = starter[p].pc
    <3> HIDE DEF x
    <3> QED BY <1>0, <2>1 DEF ResolveStart, StartersOK, StarterType
  <2>4. StartedOnce'
    BY <1>0, <1>2, <1>3, <2>3, OnceKept
  <2>5. ReportsAreTrue' /\ WireTrue'
    BY <1>2, <2>1, TruthFrame
  <2> QED BY <1>1, <1>3, <2>2, <2>4, <2>5, TruthParts
<1> QED BY <1>5, <1>6, <1>7

\* A loop goes through a snapshot.
LEMMA SnapshotTrue ==
    ASSUME Truth, NEW c \in Connections,
           SnapshotBegin(c) \/ SnapshotItem(c) \/ SnapshotRequest(c)
           \/ SnapshotSweep(c) \/ SnapshotAbsent(c)
    PROVE  Truth'
<1> USE DEF core, agent, wire
<1>0. /\ Typed /\ StartedOnce /\ Unique(toAgent)
      /\ OutboundOK /\ LoopsOK /\ TrueLoop(loop[c])
      /\ loop \in [Connections -> LoopType] /\ loop[c] \in LoopType
  BY TypedParts DEF Truth, StartedOnce, LoopsOK, LoopsTrue
<1>1. Typed'
  BY <1>0, SnapshotTyped
<1>2. UNCHANGED <<starter, session, outcome>>
  BY DEF SnapshotBegin, SnapshotItem, SnapshotRequest, SnapshotSweep, SnapshotAbsent
<1>3. ReportsAreTrue' /\ SessionsTrue'
  <2>1. CASE UNCHANGED row
    BY <1>2, <2>1, TruthFrame
  <2>2. CASE SnapshotBegin(c)
    <3>1. \A p \in Processes : row'[p].status = row[p].status
      <4>1. RowOK
        BY <1>0, TypedParts
      <4>2. row' = [p \in Processes |-> [row[p] EXCEPT !.revived = FALSE]]
        BY <2>2, Zenon DEF SnapshotBegin
      <4> QED BY <4>1, <4>2, SettledRows
    <3>2. ReportsAreTrue'
      BY <1>2, <3>1 DEF Truth, ReportsAreTrue
    <3> QED BY <1>2, <3>2, TruthFrame
  <2> QED BY <2>1, <2>2 DEF SnapshotItem, SnapshotRequest, SnapshotSweep,
        SnapshotAbsent
<1>4. FewerStarts
  <2>1. CASE UNCHANGED toAgent
    BY <1>0, <2>1, OtherFewer
  <2>2. CASE SnapshotRequest(c)
    <3>1. loop[c].item \in Processes /\ loop[c].after \in Nat
      BY <1>0, <2>2 DEF SnapshotRequest, LoopsOK, LoopType
    <3> DEFINE m == [kind |-> "replay", p |-> loop[c].item, arg |-> loop[c].after]
    <3>2. m \in ToAgentType /\ m.kind # "start"
      BY <3>1, MessageTypes
    <3>3. UNCHANGED toAgent \/ \E sent \in BOOLEAN : Send(m, sent)
      BY <2>2, Zenon DEF SnapshotRequest
    <3> HIDE DEF m
    <3> QED BY <1>0, <3>2, <3>3, SendFewer, OtherFewer
  <2> QED BY <2>1, <2>2 DEF SnapshotBegin, SnapshotItem, SnapshotSweep,
        SnapshotAbsent
<1>5. StartedOnce'
  BY <1>0, <1>2, <1>4, OnceKept
<1>6. WireTrue'
  <2>1. CASE UNCHANGED toCore
    BY <1>2, <2>1, TruthFrame
  <2>2. CASE SnapshotBegin(c)
    BY <1>2, <2>2, TakeTrue DEF SnapshotBegin
  <2> QED BY <2>1, <2>2 DEF SnapshotItem, SnapshotRequest, SnapshotSweep,
        SnapshotAbsent
<1>7. LoopsTrue'
  <2>1. SUFFICES \E new : /\ loop' = [loop EXCEPT ![c] = new]
                          /\ TrueLoop(new)
    BY <1>2, LoopTrueUpdate
  <2>2. CASE SnapshotBegin(c)
    <3> DEFINE sessions == Head(toCore[c]).sessions
               tracked == Tracked(sessions)
               new == [loop[c] EXCEPT !.pc = "items", !.report = sessions,
                                      !.todo = tracked]
    <3>1. /\ toCore[c] # <<>> /\ Head(toCore[c]).kind = "snapshot"
          /\ loop' = [loop EXCEPT ![c].pc = "items", ![c].report = sessions,
                                  ![c].todo = tracked]
          /\ toCore' = [toCore EXCEPT ![c] = Tail(@)]
      BY <2>2 DEF SnapshotBegin
    <3>2. TrueEnds(sessions)
      BY <1>2, <3>1, TakeTrue DEF TrueMessages
    <3> HIDE DEF sessions, tracked
    <3>3. /\ loop' = [loop EXCEPT ![c] = new]
          /\ new.report = sessions /\ new.txn = loop[c].txn
      BY <1>0, <3>1 DEF LoopType
    <3> HIDE DEF new
    <3>4. TrueLoop(new)
      BY <1>0, <3>2, <3>3 DEF TrueLoop
    <3> QED BY <3>3, <3>4
  <2>3. CASE SnapshotItem(c)
    <3> DEFINE missed(p) ==
                 IF loop[c].report[p].status \in Final /\ row[p].status \in ActiveStatus
                 THEN Loaded("exited", p, 0, loop[c].report[p].status)
                 ELSE IF loop[c].report[p].status = "running"
                         /\ row[p].status \in {"starting", "running"}
                 THEN Loaded("started", p, 0, "none")
                 ELSE NoTxn
    <3>1. PICK p \in loop[c].todo :
            loop' = [loop EXCEPT ![c].pc = "request", ![c].item = p,
                                 ![c].after = row[p].last,
                                 ![c].todo = @ \ {p}, ![c].txn = missed(p)]
      BY <2>3 DEF SnapshotItem
    <3> DEFINE x == missed(p)
               rest == loop[c].todo \ {p}
               after == row[p].last
               new == [loop[c] EXCEPT !.pc = "request", !.item = p,
                                      !.after = after, !.todo = rest, !.txn = x]
    <3>2. p \in Processes /\ loop[c].report \in ReportType
      BY <1>0 DEF LoopType
    <3>3. x.kind = "exited" => outcome[x.p] = x.end
      <4>1. loop[c].report[p].status \in Final =>
              loop[c].report[p].status \in Ended
        BY <3>2 DEF ReportType, Final, Ended
      <4>2. loop[c].report[p].status \in Final =>
              outcome[p] = loop[c].report[p].status
        BY <1>0, <3>2, <4>1 DEF TrueLoop, TrueEnds
      <4> QED BY <4>2, BlankTrue DEF Loaded
    <3>4. loop' = [loop EXCEPT ![c].pc = "request", ![c].item = p,
                               ![c].after = after, ![c].todo = rest, ![c].txn = x]
      BY <1>0, <3>1
    <3> HIDE DEF missed, x, rest, after
    <3>5. /\ loop' = [loop EXCEPT ![c] = new]
          /\ new.report = loop[c].report /\ new.txn = x
      BY <1>0, <3>4 DEF LoopType
    <3> HIDE DEF new
    <3>6. TrueLoop(new)
      BY <1>0, <3>3, <3>5 DEF TrueLoop
    <3> QED BY <3>5, <3>6
  <2>4. CASE SnapshotRequest(c)
    <3> DEFINE new == [loop[c] EXCEPT !.pc = "items", !.item = NoProcess,
                                      !.after = 0]
    <3>1. /\ loop' = [loop EXCEPT ![c] = new]
          /\ new.report = loop[c].report /\ new.txn = loop[c].txn
      BY <1>0, <2>4 DEF SnapshotRequest, LoopType
    <3> HIDE DEF new
    <3>2. TrueLoop(new)
      BY <1>0, <3>1 DEF TrueLoop
    <3> QED BY <3>1, <3>2
  <2>5. CASE SnapshotSweep(c)
    <3> DEFINE rest == {p \in Processes \ Tracked(loop[c].report) :
                          row[p].status \in ActiveStatus}
               new == [loop[c] EXCEPT !.pc = "absent", !.report = NoReport,
                                      !.todo = rest]
    <3>1. loop' = [loop EXCEPT ![c].pc = "absent", ![c].report = NoReport,
                               ![c].todo = rest]
      BY <2>5 DEF SnapshotSweep
    <3> HIDE DEF rest
    <3>2. /\ loop' = [loop EXCEPT ![c] = new]
          /\ new.report = NoReport /\ new.txn = loop[c].txn
      BY <1>0, <3>1 DEF LoopType
    <3> HIDE DEF new
    <3>3. TrueLoop(new)
      BY <1>0, <3>2, BlankTrue DEF TrueLoop
    <3> QED BY <3>2, <3>3
  <2>6. CASE SnapshotAbsent(c)
    <3>1. CASE loop' = [loop EXCEPT ![c].pc = "idle"]
      <4> DEFINE new == [loop[c] EXCEPT !.pc = "idle"]
      <4>1. /\ loop' = [loop EXCEPT ![c] = new]
            /\ new.report = loop[c].report /\ new.txn = loop[c].txn
        BY <1>0, <3>1 DEF LoopType
      <4> HIDE DEF new
      <4>2. TrueLoop(new)
        BY <1>0, <4>1 DEF TrueLoop
      <4> QED BY <4>1, <4>2
    <3>2. CASE loop' # [loop EXCEPT ![c].pc = "idle"]
      <4>1. PICK p \in loop[c].todo :
              loop' = [loop EXCEPT ![c].todo = @ \ {p},
                         ![c].txn = IF Applies("lost", p, 0)
                                    THEN Loaded("lost", p, 0, "none") ELSE NoTxn]
        BY <2>6, <3>2 DEF SnapshotAbsent
      <4> DEFINE x == IF Applies("lost", p, 0)
                      THEN Loaded("lost", p, 0, "none") ELSE NoTxn
                 rest == loop[c].todo \ {p}
                 new == [loop[c] EXCEPT !.todo = rest, !.txn = x]
      <4>2. x.kind # "exited"
        BY BlankTrue DEF Loaded
      <4>3. loop' = [loop EXCEPT ![c].todo = rest, ![c].txn = x]
        BY <1>0, <4>1
      <4> HIDE DEF x, rest
      <4>4. /\ loop' = [loop EXCEPT ![c] = new]
            /\ new.report = loop[c].report /\ new.txn = x
        BY <1>0, <4>3 DEF LoopType
      <4> HIDE DEF new
      <4>5. TrueLoop(new)
        BY <1>0, <4>2, <4>4 DEF TrueLoop
      <4> QED BY <4>4, <4>5
    <3> QED BY <3>1, <3>2
  <2> QED BY <2>2, <2>3, <2>4, <2>5, <2>6
<1> QED BY <1>1, <1>3, <1>5, <1>6, <1>7, TruthParts

\* Nothing is said and nothing is to be started once Core has restarted.
LEMMA RestartTrue ==
    ASSUME Truth, CoreRestart
    PROVE  Truth'
<1>0. /\ Typed /\ StartedOnce /\ Unique(toAgent)
  BY DEF Truth, StartedOnce
<1>1. Typed'
  BY <1>0, RestartTyped
<1>2. /\ LinkLost /\ UNCHANGED <<row, session, outcome>>
      /\ loop' = [c \in Connections |-> NoLoop]
      /\ toCore' = [c \in Connections |-> <<>>]
      /\ starter' = [p \in Processes |->
           IF starter[p].pc = "none" THEN starter[p]
           ELSE [pc |-> "gone", future |-> "none", txn |-> NoTxn]]
  BY DEF CoreRestart
<1>3. ReportsAreTrue' /\ SessionsTrue'
  BY <1>2, TruthFrame
<1>4. FewerStarts
  BY <1>0, <1>2, OtherFewer
<1>5. \A p \in Processes : starter'[p].pc \in Early => starter[p].pc \in Early
  BY <1>2 DEF Early
<1>6. StartedOnce'
  BY <1>0, <1>2, <1>4, <1>5, OnceKept
<1>7. WireTrue'
  <2>1. Elements(<<>>) = {}
    BY ShortQueues
  <2> QED BY <1>2, <2>1 DEF WireTrue, TrueMessages
<1>8. LoopsTrue'
  BY <1>2, BlankTrue DEF LoopsTrue, TrueLoop, TrueEnds
<1> QED BY <1>1, <1>3, <1>6, <1>7, <1>8, TruthParts

\* The Agent says something true.
LEMMA ToldTrue ==
    ASSUME Truth, UNCHANGED outcome, NEW m \in ToCoreType, Tell(<<m>>),
           TrueMessages({m})
    PROVE  WireTrue'
<1>1. InboundOK /\ LinkOK /\ WireTrue
  BY TypedParts DEF Truth
<1>2. <<m>> \in Seq(ToCoreType) /\ Elements(<<m>>) = {m}
  BY ShortQueues
<1>3. \A c \in Connections : Elements(toCore'[c]) \subseteq Elements(toCore[c]) \cup {m}
  BY <1>1, <1>2, Told
<1> QED BY <1>1, <1>3 DEF WireTrue, TrueMessages, TrueEnds

LEMMA LinkTrue ==
    ASSUME Truth, Connect \/ Drop \/ AgentRestart \/ Welcomed
    PROVE  Truth'
<1> USE DEF core, agent, wire
<1>0. /\ Typed /\ StartedOnce /\ Unique(toAgent) /\ WireTrue /\ SessionsTrue
      /\ OutboundOK /\ LoopsOK /\ LinkOK /\ InboundOK /\ AgentOK
      /\ loop \in [Connections -> LoopType]
  BY TypedParts DEF Truth, StartedOnce, LoopsOK
<1>1. Typed'
  BY <1>0, LinkTyped
<1>2. UNCHANGED <<row, starter, outcome>>
  BY DEF Connect, Drop, AgentRestart, Welcomed
<1>3. ReportsAreTrue'
  BY <1>2, TruthFrame
<1>4. CASE Connect
  <2>1. PICK c \in Connections : loop' = [loop EXCEPT ![c].pc = "opening"]
    BY <1>4 DEF Connect
  <2> DEFINE new == [loop[c] EXCEPT !.pc = "opening"]
  <2>2. /\ loop[c] \in LoopType /\ loop' = [loop EXCEPT ![c] = new]
    BY <1>0, <2>1
  <2>3. new.report = loop[c].report /\ new.txn = loop[c].txn
    BY <2>2 DEF LoopType
  <2> HIDE DEF new
  <2>4. TrueLoop(new)
    BY <2>3 DEF Truth, LoopsTrue, TrueLoop
  <2>5. LoopsTrue'
    BY <1>2, <2>2, <2>4, LoopTrueUpdate
  <2>6. UNCHANGED <<toAgent, toCore, session>>
    BY <1>4 DEF Connect
  <2> QED BY <1>0, <1>1, <1>2, <1>3, <2>5, <2>6, TruthFrame, OnceFrame, TruthParts
<1>5. CASE Drop
  <2>1. LinkLost /\ UNCHANGED <<session, loop, toCore>>
    BY <1>5 DEF Drop
  <2>2. FewerStarts
    BY <1>0, <2>1, OtherFewer
  <2>3. StartedOnce'
    BY <1>0, <1>2, <2>1, <2>2, OnceKept
  <2> QED BY <1>1, <1>2, <1>3, <2>1, <2>3, TruthFrame, TruthParts
<1>6. CASE AgentRestart
  <2>1. /\ LinkLost /\ UNCHANGED <<loop, toCore>>
        /\ session' = [p \in Processes |-> NoSession]
    BY <1>6 DEF AgentRestart
  <2>2. FewerStarts
    BY <1>0, <2>1, OtherFewer
  <2>3. NoSession.status = "none"
    BY DEF NoSession
  <2>4. StartedOnce'
    BY <1>0, <1>2, <2>1, <2>2, <2>3, OnceKept
  <2>5. SessionsTrue'
    BY <2>1, <2>3 DEF SessionsTrue, TrueEnds, Ended
  <2> QED BY <1>1, <1>2, <1>3, <2>1, <2>4, <2>5, TruthFrame, TruthParts
<1>7. CASE Welcomed
  <2>0. /\ toAgent # <<>> /\ link.at \in Connections
        /\ UNCHANGED loop
    BY <1>0, <1>7 DEF Welcomed, LinkOK, NoLink
  <2>1. CASE Head(toAgent).kind # "welcome"
    <3>1. LinkLost /\ UNCHANGED <<session, toCore>>
      BY <1>7, <2>1 DEF Welcomed
    <3>2. FewerStarts
      BY <1>0, <3>1, OtherFewer
    <3>3. StartedOnce'
      BY <1>0, <1>2, <3>1, <3>2, OnceKept
    <3> QED BY <1>1, <1>2, <1>3, <2>0, <3>1, <3>3, TruthFrame, TruthParts
  <2>2. CASE Head(toAgent).kind = "welcome"
    <3> DEFINE report == [p \in Processes |->
                            [status |-> session'[p].status,
                             last |-> session'[p].seq]]
               m == [kind |-> "snapshot", sessions |-> report]
               q == Append(toCore[link.at], m)
    <3>1. PICK pruned \in SUBSET {p \in Processes : session[p].status \in Ended} :
            /\ session' = [p \in Processes |->
                             IF p \in pruned THEN NoSession ELSE session[p]]
            /\ toAgent' = Tail(toAgent)
            /\ toCore' = [toCore EXCEPT ![link.at] = q]
      BY <1>7, <2>2 DEF Welcomed
    <3>2. FewerStarts
      BY <1>0, <2>0, <3>1, TailFewer
    <3>3. \A p \in Processes :
            \/ session'[p] = session[p]
            \/ session[p].status \in Ended /\ session'[p].status = "none"
      BY <3>1 DEF NoSession
    <3>4. StartedOnce'
      BY <1>0, <1>2, <3>2, <3>3, OnceKept DEF Ended
    <3>5. SessionsTrue'
      BY <1>0, <1>2, <3>3 DEF SessionsTrue, TrueEnds, Ended
    <3>6. TrueEnds(report)
      <4>1. \A p \in Processes : report[p].status = session'[p].status
        OBVIOUS
      <4> HIDE DEF report
      <4> QED BY <1>2, <3>5, <4>1 DEF SessionsTrue, TrueEnds
    <3>7. report \in ReportType
      <4>1. session' \in [Processes -> SessionType]
        BY <1>0, <3>1, Blank DEF AgentOK
      <4> QED BY <4>1 DEF SessionType, ReportType
    <3> HIDE DEF report
    <3>8. /\ m \in ToCoreType /\ m.kind = "snapshot" /\ m.sessions = report
      BY <3>7 DEF ToCoreType
    <3> HIDE DEF m
    <3>9. TrueMessages({m})
      BY <3>6, <3>8 DEF TrueMessages
    <3>10. toCore[link.at] \in Seq(ToCoreType)
      BY <1>0, <2>0 DEF InboundOK
    <3>11. Elements(q) = Elements(toCore[link.at]) \cup {m}
      BY <3>8, <3>10, QueueElements
    <3> HIDE DEF q
    <3>12. \A c \in Connections :
             Elements(toCore'[c]) \subseteq Elements(toCore[c]) \cup {m}
      BY <1>0, <2>0, <3>1, <3>11 DEF InboundOK
    <3>13. WireTrue'
      BY <1>0, <1>2, <3>9, <3>12 DEF WireTrue, TrueMessages, TrueEnds
    <3> QED BY <1>1, <1>2, <1>3, <2>0, <3>4, <3>5, <3>13, TruthFrame, TruthParts
  <2> QED BY <2>1, <2>2
<1> QED BY <1>4, <1>5, <1>6, <1>7

\* The Agent is told to start or to terminate, and answers; it replays.
LEMMA ReceiverTrue ==
    ASSUME Truth, AgentIgnore \/ AgentStart \/ AgentTerminate
                  \/ AgentReplay \/ AgentReplayStep
    PROVE  Truth'
<1> USE DEF core, agent, wire
<1>0. /\ Typed /\ StartedOnce /\ Unique(toAgent) /\ SessionsTrue
      /\ OutboundOK /\ LinkOK /\ InboundOK /\ AgentOK
      /\ session \in [Processes -> SessionType]
  BY TypedParts DEF Truth, StartedOnce, AgentOK
<1>1. Typed'
  BY <1>0, CommandTyped, ReplayTyped
<1>2. UNCHANGED <<row, loop, starter, outcome>>
  BY DEF AgentIgnore, AgentStart, AgentTerminate, AgentReplay, AgentReplayStep
<1>3. ReportsAreTrue' /\ LoopsTrue'
  BY <1>2, TruthFrame
<1> DEFINE p == Head(toAgent).p
           s == session[p].status
<1>4. CASE AgentIgnore \/ AgentReplay
  <2>1. toAgent # <<>> /\ toAgent' = Tail(toAgent) /\ UNCHANGED <<session, toCore>>
    BY <1>4 DEF AgentIgnore, AgentReplay, Received
  <2>2. FewerStarts
    BY <1>0, <2>1, TailFewer
  <2>3. StartedOnce'
    BY <1>0, <1>2, <2>1, <2>2, OnceKept
  <2> QED BY <1>1, <1>2, <1>3, <2>1, <2>3, TruthFrame, TruthParts
<1>5. CASE AgentReplayStep
  <2>1. /\ replay # <<>> /\ Tell(<<Head(replay)>>)
        /\ UNCHANGED <<toAgent, session>>
    BY <1>5 DEF AgentReplayStep
  <2>2. Head(replay) \in ToCoreType /\ Head(replay) \in Elements(replay)
    BY <1>0, <2>1, QueueElements DEF LinkOK
  <2>3. Head(replay).kind = "output"
    BY <1>0, <2>2 DEF LinkOK
  <2>4. TrueMessages({Head(replay)})
    BY <2>3 DEF TrueMessages
  <2>5. WireTrue'
    BY <1>2, <2>1, <2>2, <2>4, ToldTrue
  <2> QED BY <1>0, <1>1, <1>2, <1>3, <2>1, <2>5, TruthFrame, OnceFrame, TruthParts
<1>6. CASE AgentStart
  <2>1. /\ Received("start")
        /\ \/ /\ session' = [session EXCEPT ![p].status = "running"]
              /\ Tell(<<Report("started", p)>>)
           \/ UNCHANGED session /\ Tell(<<Report("error", p)>>)
    BY <1>6 DEF AgentStart
  <2>2. /\ toAgent # <<>> /\ toAgent' = Tail(toAgent)
        /\ Head(toAgent).kind = "start"
    BY <2>1 DEF Received
  <2>3. /\ FewerStarts
        /\ Head(toAgent) \notin Elements(toAgent')
        /\ Head(toAgent) \in Elements(toAgent)
    BY <1>0, <2>2, TailFewer
  <2>4. PICK t \in Processes :
          /\ t = p /\ Head(toAgent) = StartMessage(t)
          /\ \/ /\ session' = [session EXCEPT ![t].status = "running"]
                /\ Tell(<<Report("started", t)>>)
             \/ UNCHANGED session /\ Tell(<<Report("error", t)>>)
    <3>1. Head(toAgent) \in ToAgentType
      BY <1>0, <2>3, QueueElements DEF OutboundOK
    <3>2. p \in Processes /\ Head(toAgent) = StartMessage(p)
      BY <2>2, <3>1 DEF ToAgentType, StartMessage
    <3> QED BY <2>1, <3>2
  <2>5. Invited(t) /\ ~Invited(t)'
    BY <2>3, <2>4 DEF Invited, StartMessage
  <2>6. Startable(t) /\ starter[t].pc \notin Early
    BY <1>0, <2>4, <2>5 DEF StartedOnce
  <2>7. \/ UNCHANGED session
        \/ session'[t].status = "running"
    BY <1>0, <2>4 DEF SessionType
  <2>8. \A q \in Processes \ {t} : session'[q] = session[q]
    BY <1>0, <2>4
  <2>9. StartedOnce'
    <3>1. Unique(toAgent') /\ \A q \in Processes : Invited(q)' => Invited(q)
      BY <2>3 DEF FewerStarts, Invited, StartMessage
    <3>2. \A q \in Processes \ {t} : Startable(q)' <=> Startable(q)
      BY <1>2, <2>8 DEF Startable
    <3>3. \A q \in Processes :
            /\ starter'[q].pc \in Early => Startable(q)' /\ ~Invited(q)'
            /\ Invited(q)' => Startable(q)'
      BY <1>0, <1>2, <2>5, <2>6, <3>1, <3>2 DEF StartedOnce
    <3>4. \A q \in Processes : session'[q].status = "running" => outcome'[q] = "none"
      BY <1>0, <1>2, <2>6, <2>8 DEF StartedOnce, Startable
    <3> QED BY <3>1, <3>3, <3>4 DEF StartedOnce
  <2>10. SessionsTrue'
    BY <1>0, <1>2, <2>7, <2>8 DEF SessionsTrue, TrueEnds, Ended
  <2>11. WireTrue'
    <3>1. \A k \in {"started", "error"} :
            /\ Report(k, t) \in ToCoreType /\ TrueMessages({Report(k, t)})
      BY <2>4, SaidType DEF TrueMessages
    <3> QED BY <1>2, <2>4, <3>1, ToldTrue
  <2> QED BY <1>1, <1>3, <2>9, <2>10, <2>11, TruthParts
<1>7. CASE AgentTerminate
  <2>1. /\ Received("terminate")
        /\ session' = IF s = "running"
                      THEN [session EXCEPT ![p].cancel = TRUE] ELSE session
        /\ Tell(IF s = "running" THEN <<>>
                ELSE IF s = "none" THEN <<Report("error", p)>>
                ELSE <<Exited(p, s)>>)
    BY <1>7 DEF AgentTerminate
  <2>2. /\ toAgent # <<>> /\ toAgent' = Tail(toAgent) /\ p \in Processes
    BY <1>0, <2>1, ReceivedType DEF Received
  <2>3. FewerStarts
    BY <1>0, <2>2, TailFewer
  <2>4. s \in {"none", "running"} \cup Ended
    BY <1>0, <2>2 DEF SessionType
  <2> HIDE DEF p
  <2>5. \A q \in Processes : session'[q].status = session[q].status
    BY <1>0, <2>1, <2>2 DEF SessionType
  <2>6. StartedOnce'
    BY <1>0, <1>2, <2>3, <2>5, OnceKept
  <2>7. SessionsTrue'
    BY <1>0, <1>2, <2>5 DEF SessionsTrue, TrueEnds
  <2>8. WireTrue'
    <3>1. CASE s = "running"
      <4>1. Tell(<<>>)
        BY <2>1, <3>1
      <4>2. \A c \in Connections : Elements(toCore'[c]) \subseteq Elements(toCore[c])
        BY <1>0, <4>1, Told, ShortQueues
      <4> QED BY <1>2, <4>2 DEF Truth, WireTrue, TrueMessages, TrueEnds
    <3>2. CASE s = "none"
      <4>1. Tell(<<Report("error", p)>>)
        BY <2>1, <3>2
      <4>2. /\ Report("error", p) \in ToCoreType
            /\ TrueMessages({Report("error", p)})
        BY <2>2, SaidType DEF TrueMessages
      <4> QED BY <1>2, <4>1, <4>2, ToldTrue
    <3>3. CASE s \in Ended
      <4>1. Tell(<<Exited(p, s)>>)
        BY <2>1, <3>3 DEF Ended
      <4>2. outcome[p] = s
        BY <1>0, <2>2, <3>3 DEF SessionsTrue, TrueEnds
      <4>3. Exited(p, s) \in ToCoreType /\ TrueMessages({Exited(p, s)})
        BY <2>2, <3>3, <4>2, SaidType DEF TrueMessages
      <4> QED BY <1>2, <4>1, <4>3, ToldTrue
    <3> QED BY <2>4, <3>1, <3>2, <3>3
  <2> QED BY <1>1, <1>3, <2>6, <2>7, <2>8, TruthParts
<1> QED BY <1>4, <1>5, <1>6, <1>7

\* A process ends that had not ended before: nothing could be said of its end.
LEMMA ExitTrue ==
    ASSUME Truth, NEW p \in Processes, Exit(p)
    PROVE  Truth'
<1> USE DEF core, agent, wire
<1>0. /\ Typed /\ StartedOnce /\ SessionsTrue /\ WireTrue /\ LoopsTrue
      /\ ReportsAreTrue
      /\ Unique(toAgent) /\ LinkOK /\ InboundOK /\ AgentOK /\ LoopsOK
      /\ session \in [Processes -> SessionType]
      /\ outcome \in [Processes -> {"none"} \cup Ended]
  BY TypedParts DEF Truth, StartedOnce, AgentOK
<1>1. Typed'
  BY <1>0, SubprocessTyped
<1>2. PICK s \in Ended :
        /\ session' = [session EXCEPT ![p] =
                         [NoSession EXCEPT !.status = s, !.seq = session[p].seq]]
        /\ outcome' = [outcome EXCEPT ![p] = s]
        /\ Tell(<<Exited(p, s)>>)
        /\ UNCHANGED <<core, toAgent>>
  BY DEF Exit, Ended
<1>3. session[p].status = "running" /\ outcome[p] = "none"
  BY <1>0 DEF Exit, StartedOnce
<1>4. /\ session'[p].status = s /\ outcome'[p] = s
      /\ \A q \in Processes \ {p} :
            session'[q] = session[q] /\ outcome'[q] = outcome[q]
  BY <1>0, <1>2 DEF NoSession
<1>5. \A q \in Processes : outcome[q] # "none" => outcome'[q] = outcome[q]
  BY <1>3, <1>4
<1>6. ReportsAreTrue'
  BY <1>0, <1>2, <1>5 DEF ReportsAreTrue
<1>7. SessionsTrue'
  BY <1>0, <1>4 DEF SessionsTrue, TrueEnds
<1>8. \A report : TrueEnds(report) =>
        \A q \in Processes : report[q].status \in Ended =>
            outcome'[q] = report[q].status
  BY <1>5 DEF TrueEnds, Ended
<1>9. LoopsTrue'
  <2>1. ASSUME NEW c \in Connections, loop[c].txn.kind = "exited"
        PROVE  outcome'[loop[c].txn.p] = loop[c].txn.end
    <3>1. loop[c].txn.p \in Processes /\ loop[c].txn.end \in Ended
      BY <1>0, <2>1, Blank DEF LoopsOK, Sane, Live
    <3>2. outcome[loop[c].txn.p] = loop[c].txn.end
      BY <1>0, <2>1 DEF LoopsTrue, TrueLoop
    <3> QED BY <1>5, <3>1, <3>2 DEF Ended
  <2> QED BY <1>0, <1>2, <1>8, <2>1 DEF LoopsTrue, TrueLoop, TrueEnds
<1>10. WireTrue'
  <2>1. /\ Exited(p, s) \in ToCoreType /\ Exited(p, s).kind = "exited"
        /\ Exited(p, s).p = p /\ Exited(p, s).end = s
    BY SaidType
  <2>2. <<Exited(p, s)>> \in Seq(ToCoreType)
        /\ Elements(<<Exited(p, s)>>) = {Exited(p, s)}
    BY <2>1, ShortQueues
  <2>3. \A c \in Connections :
          Elements(toCore'[c]) \subseteq Elements(toCore[c]) \cup {Exited(p, s)}
    BY <1>0, <1>2, <2>2, Told
  <2>4. ASSUME NEW c \in Connections, NEW m \in Elements(toCore[c])
        PROVE  /\ m.kind = "exited" => outcome'[m.p] = m.end
               /\ m.kind = "snapshot" =>
                    \A q \in Processes : m.sessions[q].status \in Ended =>
                        outcome'[q] = m.sessions[q].status
    <3>1. m \in ToCoreType /\ (m.kind = "exited" => m.end \in Ended)
      <4>1. toCore[c] \in Seq(ToCoreType)
        BY <1>0 DEF InboundOK
      <4> QED BY <1>0, <2>4, <4>1, QueueElements DEF InboundOK
    <3>2. m.kind = "exited" => m.p \in Processes
      BY <3>1 DEF ToCoreType
    <3>3. /\ m.kind = "exited" => outcome[m.p] = m.end
          /\ m.kind = "snapshot" => TrueEnds(m.sessions)
      BY <1>0 DEF WireTrue, TrueMessages
    <3> QED BY <1>5, <1>8, <3>1, <3>2, <3>3 DEF Ended
  <2>5. ASSUME NEW c \in Connections, NEW m \in Elements(toCore'[c])
        PROVE  /\ m.kind = "exited" => outcome'[m.p] = m.end
               /\ m.kind = "snapshot" =>
                    \A q \in Processes : m.sessions[q].status \in Ended =>
                        outcome'[q] = m.sessions[q].status
    <3>1. CASE m \in Elements(toCore[c])
      BY <2>4, <3>1
    <3>2. CASE m = Exited(p, s)
      BY <1>4, <2>1, <3>2
    <3> QED BY <2>3, <3>1, <3>2
  <2> QED BY <2>5 DEF WireTrue, TrueMessages, TrueEnds
<1>11. StartedOnce'
  <2>1. ~Startable(p) /\ ~Invited(p) /\ starter[p].pc \notin Early
    BY <1>0, <1>3 DEF StartedOnce, Startable
  <2>2. \A q \in Processes : Startable(q) => Startable(q)'
    BY <1>4, <2>1 DEF Startable
  <2>3. \A q \in Processes : Invited(q)' <=> Invited(q)
    BY <1>2 DEF Invited
  <2>4. \A q \in Processes : session'[q].status = "running" => outcome'[q] = "none"
    BY <1>0, <1>4 DEF StartedOnce, Ended
  <2> QED BY <1>0, <1>2, <2>2, <2>3, <2>4 DEF StartedOnce
<1> QED BY <1>1, <1>6, <1>7, <1>9, <1>10, <1>11, TruthParts

LEMMA SubprocessTrue ==
    ASSUME Truth, NEW p \in Processes, Output(p) \/ Watchdog(p)
    PROVE  Truth'
<1> USE DEF core, agent, wire
<1>0. /\ Typed /\ StartedOnce /\ Unique(toAgent) /\ SessionsTrue /\ AgentOK
      /\ session[p] \in SessionType /\ session \in [Processes -> SessionType]
  BY TypedParts DEF Truth, StartedOnce, AgentOK
<1>1. Typed'
  BY <1>0, SubprocessTyped
<1>2. UNCHANGED <<row, loop, starter, outcome, toAgent>>
  BY DEF Output, Watchdog
<1>3. \A q \in Processes : session'[q].status = session[q].status
  BY <1>0 DEF Output, Watchdog, SessionType
<1>4. StartedOnce'
  <2>1. FewerStarts
    BY <1>0, <1>2, OtherFewer
  <2> QED BY <1>0, <1>2, <1>3, <2>1, OnceKept
<1>5. SessionsTrue'
  BY <1>0, <1>2, <1>3 DEF SessionsTrue, TrueEnds
<1>6. WireTrue'
  <2>1. CASE Watchdog(p)
    BY <1>2, <2>1, TruthFrame DEF Watchdog
  <2>2. CASE Output(p)
    <3> DEFINE n == session[p].seq + 1
    <3>1. n \in Nat /\ Tell(<<Chunk(p, n)>>)
      BY <1>0, <2>2 DEF Output, SessionType
    <3> HIDE DEF n
    <3>2. Chunk(p, n) \in ToCoreType /\ TrueMessages({Chunk(p, n)})
      BY <3>1, SaidType DEF TrueMessages
    <3> QED BY <1>2, <3>1, <3>2, ToldTrue
  <2> QED BY <2>1, <2>2
<1> QED BY <1>1, <1>2, <1>4, <1>5, <1>6, TruthFrame, TruthParts

LEMMA InitTrue == Init => Truth
<1> SUFFICES ASSUME Init PROVE Truth
  OBVIOUS
<1>1. Typed
  BY InitTyped
<1>2. /\ row = [p \in Processes |-> NewRow]
      /\ loop = [c \in Connections |-> NoLoop]
      /\ toAgent = <<>>
      /\ toCore = [c \in Connections |-> <<>>]
      /\ session = [p \in Processes |-> NoSession]
      /\ outcome = [p \in Processes |-> "none"]
  BY DEF Init
<1>3. Elements(<<>>) = {}
  BY ShortQueues
<1>4. StartedOnce
  BY <1>2, <1>3, UniqueEmpty DEF StartedOnce, Startable, Invited, NoSession
<1>5. SessionsTrue /\ WireTrue /\ LoopsTrue
  BY <1>2, <1>3, BlankTrue DEF SessionsTrue, TrueEnds, WireTrue, TrueMessages,
     LoopsTrue, NoSession, Ended
<1>6. ReportsAreTrue
  BY <1>2 DEF ReportsAreTrue, NewRow
<1> QED BY <1>1, <1>4, <1>5, <1>6 DEF Truth

LEMMA StepTrue ==
    ASSUME Truth, [Next]_vars
    PROVE  Truth'
<1>1. CASE UNCHANGED vars
  <2>1. Typed' /\ StartedOnce'
    BY <1>1, StepTyped, OnceFrame DEF Truth, vars, core, agent, wire
  <2> QED BY <1>1, <2>1, TruthFrame, TruthParts DEF vars, core, agent, wire
<1>2. ASSUME NEW p \in Processes,
             \/ StartCreate(p) \/ Start(p) \/ WaitRead(p) \/ Wait(p)
             \/ WaitTimeout(p) \/ StopBegin(p) \/ Stop(p)
             \/ Output(p) \/ Watchdog(p) \/ Exit(p)
      PROVE  Truth'
  BY <1>2, CallersTrue, SubprocessTrue, ExitTrue
<1>3. ASSUME NEW c \in Connections, Loop(c)
      PROVE  Truth'
  BY <1>3, ConnectionTrue, HandlerTrue, SnapshotTrue DEF Loop
<1>4. CASE Receiver \/ Connect \/ Drop \/ AgentRestart \/ CoreRestart
  BY <1>4, LinkTrue, ReceiverTrue, RestartTrue DEF Receiver
<1> QED BY <1>1, <1>2, <1>3, <1>4 DEF Next

\* A row says completed, cancelled or timed out only of a process that ended
\* just so, however connections are replaced, commits overlap, ends are told
\* late, twice or in snapshots, and whoever restarts: the Agent starts a
\* process once, and everything that is on its way to the row agrees.
THEOREM ReportsTrue == Spec => []ReportsAreTrue
<1>1. Truth => ReportsAreTrue
  BY DEF Truth
<1> QED BY <1>1, InitTrue, StepTrue, PTL DEF Spec

\* The Agent never finds a session when it is told to start a process, so the
\* branch of _start for a process that exists already is not needed: Core sends
\* one start message for a process, and one only.
THEOREM StartFindsNothing ==
    Spec => [](toAgent # <<>> /\ Head(toAgent).kind = "start"
                  => session[Head(toAgent).p].status = "none")
<1>1. Truth => (toAgent # <<>> /\ Head(toAgent).kind = "start"
                  => session[Head(toAgent).p].status = "none")
  <2> SUFFICES ASSUME Truth, toAgent # <<>>, Head(toAgent).kind = "start"
               PROVE  session[Head(toAgent).p].status = "none"
    OBVIOUS
  <2>1. OutboundOK /\ StartedOnce
    BY TypedParts DEF Truth
  <2>2. Head(toAgent) \in ToAgentType /\ Head(toAgent) \in Elements(toAgent)
    BY <2>1, QueueElements DEF OutboundOK
  <2> DEFINE p == Head(toAgent).p
  <2>3. p \in Processes /\ Head(toAgent) = StartMessage(p)
    BY <2>2 DEF ToAgentType, StartMessage
  <2> HIDE DEF p
  <2>4. Startable(p)
    BY <2>1, <2>2, <2>3 DEF StartedOnce, Invited
  <2> QED BY <2>4 DEF Startable, p
<1> QED BY <1>1, InitTrue, StepTrue, PTL DEF Spec
=============================================================================
