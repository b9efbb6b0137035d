---------------------------- MODULE MCChatTurns ----------------------------
(* Small instances of ChatTurns for TLC.                                   *)
EXTENDS ChatTurns

CONSTANTS a, b   \* two callers

Allowed(n, c, x) == [decisions |-> n, changes |-> c, closes |-> x]

\* Two chat turns; a scene changes what differs.
Plain == [external |-> FALSE, floor |-> "allow", grantable |-> FALSE,
          permission |-> "ask", capability |-> "allow",
          active |-> Callers,
          source |-> [k \in Callers |-> "chat"],
          shape |-> [k \in Callers |-> "s"],
          forced |-> [k \in Callers |-> FALSE],
          wants |-> [k \in Callers |-> {}], serves |-> "none",
          auto |-> FALSE, others |-> FALSE, bounds |-> Allowed(0, 0, 0)]

\* A command that always asks and may be granted for the conversation, run by
\* a delegation and by an agent.
Command == [Plain EXCEPT !.floor = "ask", !.grantable = TRUE,
                         !.permission = "allow",
                         !.forced[a] = TRUE, !.source[b] = "agent"]
\* A calendar write on a connection that may go and come back.
Calendar == [Plain EXCEPT !.external = TRUE, !.capability = "ask",
                          !.permission = "allow", !.wants[a] = {"write"},
                          !.serves = "write", !.active = {a}]
\* A host command, and a look into a workspace that Jace can take by itself.
Host == [Plain EXCEPT !.grantable = TRUE, !.wants[a] = {"host"},
                      !.serves = "host", !.active = {a}]
Workspace == [Plain EXCEPT !.permission = "allow", !.wants[a] = {"files"},
                           !.serves = "files", !.auto = TRUE,
                           !.source[b] = "agent"]

Instances ==
    {[Command EXCEPT !.bounds = Allowed(2, 0, 1)],
     [Command EXCEPT !.bounds = Allowed(1, 1, 0)],
     [Calendar EXCEPT !.bounds = Allowed(1, 2, 0)],
     [Calendar EXCEPT !.others = TRUE, !.bounds = Allowed(1, 0, 0)],
     [Host EXCEPT !.bounds = Allowed(1, 1, 0)],
     [Workspace EXCEPT !.bounds = Allowed(0, 1, 1)],
     [Plain EXCEPT !.source[b] = "agent", !.active = {b},
                   !.bounds = Allowed(2, 1, 0)],
     [Plain EXCEPT !.active = {a}, !.bounds = Allowed(1, 0, 1)]}

\* The settings change while the user is asked.
OneChange == {[Command EXCEPT !.bounds = Allowed(1, 1, 0)]}
=============================================================================
