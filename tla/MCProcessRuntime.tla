-------------------------- MODULE MCProcessRuntime --------------------------
(* Small instances of ProcessRuntime for TLC.                              *)
EXTENDS ProcessRuntime, TLC

\* Connection slots are interchangeable.
ConnectionSymmetry == Permutations(Connections)

Budget(o, w, s, f, t) ==
    [output |-> o, waits |-> w, stops |-> s, faults |-> f, trouble |-> t,
     timed |-> {}]

\* Output across one fault; a termination and a fault; a timeout and a
\* termination or a fault.
SafetyBudgets == {Budget(2, 0, 0, 1, 1), Budget(0, 0, 1, 1, 2),
                  [Budget(0, 0, 1, 1, 1) EXCEPT !.timed = Processes]}
\* A waiter, and a termination or a fault.
ProgressBudgets == {Budget(0, 1, 1, 1, 1)}
\* Output across one fault, nothing else.
ReplayBudgets == {Budget(2, 0, 0, 1, 1)}
=============================================================================
