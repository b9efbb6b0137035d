----------------------------- MODULE AnswerOnce -----------------------------
(***************************************************************************)
(* The promise that several parts of Jace make to whoever waits for them:  *)
(* a request is answered at most once, and an answer that was given is     *)
(* never replaced or withdrawn.  A request may stay unanswered; that it    *)
(* does not is a matter of fairness and stated with each component.        *)
(***************************************************************************)
CONSTANTS
    Requests,
    Answers,
    Unanswered   \* what a request has before its answer, not in Answers

VARIABLE answer

Init == answer = [r \in Requests |-> Unanswered]

Answer(r) ==
    /\ answer[r] = Unanswered
    /\ answer'[r] \in Answers
    /\ answer' = [answer EXCEPT ![r] = answer'[r]]

Next == \E r \in Requests : Answer(r)

Spec == Init /\ [][Next]_answer
=============================================================================
