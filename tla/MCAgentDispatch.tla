-------------------------- MODULE MCAgentDispatch --------------------------
(***************************************************************************)
(* Instances of AgentDispatch for TLC.                                     *)
(***************************************************************************)
EXTENDS AgentDispatch, TLC

MCPriority == [t \in Tasks |-> 0]

\* An executor may die anywhere from its assignment to its release.
AfterAssignment == Owning \ {"claimed"}

WorkerSymmetry == Permutations(Workers)
=============================================================================
