------------------------------ MODULE EventLog ------------------------------
(***************************************************************************)
(* What the durable runtime-event ledger promises to one client: events    *)
(* are numbered and written once, and the client is shown only events that *)
(* have been written, each of them at most once, across any number of      *)
(* connections.  Order and completeness are not promised here: the live    *)
(* path may reorder concurrent events and drops the oldest of a full       *)
(* queue.                                                                  *)
(***************************************************************************)
EXTENDS Naturals, Sequences

VARIABLES
    written,    \* the sequence numbers of the rows ever committed
    received    \* what the client has been shown, in order

Init == written = {} /\ received = <<>>

Write ==
    /\ \E n \in written' \ written : written' = written \cup {n}
    /\ UNCHANGED received

Deliver ==
    /\ \E n \in written :
        /\ \A i \in 1..Len(received) : received[i] # n
        /\ received' = Append(received, n)
    /\ UNCHANGED written

Next == Write \/ Deliver

Spec == Init /\ [][Next]_<<written, received>>
=============================================================================
