-------------------------- MODULE MCAgentDirector --------------------------
(* Small instances of AgentDirector for TLC.                               *)
EXTENDS AgentDirector

Settings(h, c, s) == [handoffs |-> h, checkpoints |-> c, safe |-> s]
Allowed(n, c, r, f) == [crashes |-> n, cancels |-> c, retries |-> r,
                        faults |-> f]

Chain == {"code", "analyst"}    \* the analyst follows the coder
Fork  == {"research", "code"}   \* two steps side by side

\* Each of the settings on and off, with one stop of Core and a user or a
\* database that interferes; two stops around a single step; the steps that
\* run side by side; an error of the Director or of the only step before or
\* after a stop of Core.
Instances ==
    {[flags |-> Settings(h, FALSE, ~h), selected |-> Chain,
      bounds |-> Allowed(1, IF h THEN 1 ELSE 0, 0, 0)] : h \in BOOLEAN}
    \cup
    {[flags |-> Settings(TRUE, TRUE, FALSE), selected |-> Chain,
      bounds |-> b] : b \in {Allowed(1, 1, 0, 0), Allowed(1, 0, 1, 0)}}
    \cup
    {[flags |-> Settings(TRUE, TRUE, TRUE), selected |-> Chain,
      bounds |-> Allowed(1, 0, 0, 0)],
     [flags |-> Settings(TRUE, TRUE, TRUE), selected |-> {"code"},
      bounds |-> Allowed(2, 0, 0, 0)]}
    \cup
    {[flags |-> Settings(TRUE, TRUE, FALSE), selected |-> Fork,
      bounds |-> Allowed(0, 0, 0, 1)]}
    \cup
    {[flags |-> Settings(h, h, FALSE), selected |-> {"code"},
      bounds |-> Allowed(1, 0, 0, 1)] : h \in BOOLEAN}
=============================================================================
