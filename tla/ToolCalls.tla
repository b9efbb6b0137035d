----------------------------- MODULE ToolCalls -----------------------------
(***************************************************************************)
(* One tool, and the calls of it that chat turns and background agents     *)
(* make: the permission that is looked up, the approval the user is asked  *)
(* for, grants for a conversation, the connection an external tool is      *)
(* bound to, and the audit row that tells what became of the call.  The    *)
(* user decides through the API, whose handlers store a permission before  *)
(* they deliver the answer; permissions and the connection may change      *)
(* meanwhile.  Who makes the calls is ChatTurns.                           *)
(***************************************************************************)
EXTENDS Naturals

CONSTANTS
    Callers,    \* chat turns and background agents
    Taps,       \* requests of the user that are handled concurrently
    MaxCalls,   \* calls of one caller
    Scenes      \* the tool, its policy, the callers, and what may happen

Modes == {"allow", "ask", "deny"}

ASSUME ToolCallsAssumption ==
    /\ MaxCalls \in Nat \ {0}
    /\ \A s \in Scenes : /\ {s.permission, s.capability, s.floor} \subseteq Modes
                        /\ {s.external, s.grantable, s.others} \subseteq BOOLEAN

Calls == Callers \X (1..MaxCalls)

VARIABLES
    scene,       \* one of Scenes, fixed
    permission,  \* ToolPermission of the tool
    capability,  \* CapabilityPermissionRecord of the bound connection
    connected,   \* the connection is active
    grants,      \* ApprovalManager._session_grants
    call,        \* each call of _execute_tool_call or _execute_tool
    approval,    \* ApprovalManager._pending, and the future of each entry
    audit,       \* the status of ToolAuditLog rows
    decision,    \* resolve_approval
    ran,         \* history: the tool's code was run
    stranded,    \* history: the connection went before the user had answered,
                 \* and the account has not been connected again
    cancelled,   \* agents whose task the user has cancelled
    budget       \* what the environment may still do

policy   == <<permission, capability, connected, grants>>
history  == <<ran, stranded>>
toolVars == <<scene, policy, call, approval, audit, decision, history,
              cancelled, budget>>

Chat(c)  == scene.source[c[1]] = "chat"
Shape(c) == scene.shape[c[1]]   \* conversation and exact arguments
External == scene.external

NoCall     == [pc |-> "idle", bound |-> "ask", configured |-> "none",
               effective |-> "none", granted |-> FALSE, announced |-> FALSE,
               other |-> FALSE, result |-> "none"]
NoApproval == [pending |-> FALSE, answer |-> "none", configured |-> "none"]
NoDecision == [pc |-> "idle", call |-> <<>>, choice |-> "none"]

ToolInit ==
    /\ scene \in Scenes
    /\ permission = scene.permission /\ capability = scene.capability
    /\ connected = TRUE /\ grants = {}
    /\ call = [c \in Calls |-> NoCall]
    /\ approval = [c \in Calls |-> NoApproval]
    /\ audit = [c \in Calls |-> "none"]
    /\ decision = [d \in Taps |-> NoDecision]
    /\ ran = [c \in Calls |-> FALSE]
    /\ stranded = [c \in Calls |-> FALSE]
    /\ cancelled = {}
    /\ budget = scene.bounds

At(c, pc) == call[c].pc = pc
Goto(c, pc) == call' = [call EXCEPT ![c].pc = pc]
End(c, result) == call' = [call EXCEPT ![c].pc = "done", ![c].result = result]
Log(c, status) == audit' = [audit EXCEPT ![c] = status]
Spend(what) ==
    /\ budget[what] > 0
    /\ budget' = [budget EXCEPT ![what] = @ - 1]

-----------------------------------------------------------------------------
(* _execute_tool_call of a chat turn, _execute_tool of an agent            *)

Begin(c) == Goto(c, IF Chat(c) /\ External THEN "bind" ELSE "check")

\* validate_external_tool_binding: the snapshot of the registry says ready.
Usable == connected /\ capability # "deny"

Bind(c) ==
    /\ At(c, "bind")
    /\ IF Usable
       THEN call' = [call EXCEPT ![c].pc = "check", ![c].bound = capability]
       ELSE End(c, "denied")
    /\ UNCHANGED <<scene, policy, approval, audit, decision, history,
                   cancelled, budget>>

Order == [allow |-> 0, ask |-> 1, deny |-> 2]
Stricter(current, minimum) ==
    IF Order[current] >= Order[minimum] THEN current ELSE minimum

\* _effective_permission: a connection's own permission, unless the tool is
\* denied altogether.
Effective(c) ==
    IF Chat(c) /\ External /\ permission # "deny" THEN call[c].bound
    ELSE permission

\* Mutant of Mode: the grants are asked first.
ModeGrantFirst(c) ==
    IF Chat(c) /\ scene.grantable /\ Shape(c) \in grants THEN "allow"
    ELSE IF Chat(c) THEN Stricter(Effective(c), scene.floor)
    ELSE Effective(c)

\* What the call may do: an agent's call knows neither floor nor grants.
Mode(c) ==
    LET floored == Stricter(Effective(c), scene.floor)
    IN  IF ~Chat(c) THEN Effective(c)
        ELSE IF floored = "ask" /\ scene.grantable /\ Shape(c) \in grants
             THEN "allow"
        ELSE floored

AfterConsent(c) == IF Chat(c) /\ External THEN "rebind" ELSE "execute"

\* The permission is read and the audit row created.
Check(c) ==
    /\ At(c, "check")
    /\ call' = [call EXCEPT ![c] = [call[c] EXCEPT
            !.pc = CASE Mode(c) = "deny"  -> "deny"
                     [] Mode(c) = "ask"   -> "ask"
                     [] Mode(c) = "allow" -> AfterConsent(c),
            !.configured = permission, !.effective = Effective(c),
            !.granted = Shape(c) \in grants, !.announced = TRUE]]
    /\ Log(c, IF Chat(c) THEN "requested"
              ELSE CASE permission = "deny"  -> "denied"
                     [] permission = "ask"   -> "awaiting_approval"
                     [] permission = "allow" -> "approved")
    /\ UNCHANGED <<scene, policy, approval, decision, history, cancelled,
                   budget>>

Deny(c) ==
    /\ At(c, "deny")
    /\ Log(c, "denied") /\ End(c, "denied")
    /\ UNCHANGED <<scene, policy, approval, decision, history, cancelled,
                   budget>>

\* ApprovalManager.create; only a chat call notes the permission it found.
Ask(c) ==
    /\ At(c, "ask")
    /\ approval' = [approval EXCEPT ![c] =
            [pending |-> TRUE, answer |-> "none",
             configured |-> IF Chat(c) THEN call[c].configured ELSE "none"]]
    /\ Goto(c, "announce")
    /\ UNCHANGED <<scene, policy, audit, decision, history, cancelled, budget>>

Announce(c) ==
    /\ At(c, "announce")
    /\ Log(c, "awaiting_approval") /\ Goto(c, "wait")
    /\ UNCHANGED <<scene, policy, approval, decision, history, cancelled,
                   budget>>

Forget(c) == approval' = [approval EXCEPT ![c].pending = FALSE]

\* ApprovalManager.wait returns the answer.
Answered(c) ==
    /\ At(c, "wait") /\ approval[c].answer # "none"
    /\ Forget(c)
    /\ Goto(c, IF c[1] \in cancelled THEN "cancel"
               ELSE IF approval[c].answer = "yes" THEN "approved"
               ELSE "refused")
    /\ UNCHANGED <<scene, policy, audit, decision, history, cancelled, budget>>

\* The timeout may come first although the answer is there already.
TimeOut(c) ==
    /\ At(c, "wait")
    /\ Forget(c) /\ Goto(c, "late")
    /\ UNCHANGED <<scene, policy, audit, decision, history, cancelled, budget>>

\* _wait_for_background_approval looks for a cancellation of the task.
SeeCancel(c) ==
    /\ At(c, "wait") /\ c[1] \in cancelled
    /\ Forget(c) /\ Goto(c, "cancel")
    /\ UNCHANGED <<scene, policy, audit, decision, history, cancelled, budget>>

Approved(c) ==
    /\ At(c, "approved")
    /\ Log(c, "approved") /\ Goto(c, AfterConsent(c))
    /\ UNCHANGED <<scene, policy, approval, decision, history, cancelled,
                   budget>>

\* Mutant of Unapproved: a call that timed out is left as it is.
UnapprovedUntold(c) ==
    /\ \/ At(c, "refused") /\ Log(c, "denied") /\ End(c, "denied")
       \/ At(c, "late")    /\ UNCHANGED <<audit, call>>
       \/ At(c, "cancel")  /\ Log(c, "cancelled") /\ End(c, "cancelled")
    /\ UNCHANGED <<scene, policy, approval, decision, history, cancelled,
                   budget>>

Unapproved(c) ==
    /\ \/ At(c, "refused") /\ Log(c, "denied")    /\ End(c, "denied")
       \/ At(c, "late")    /\ Log(c, "timed_out") /\ End(c, "denied")
       \/ At(c, "cancel")  /\ Log(c, "cancelled") /\ End(c, "cancelled")
    /\ UNCHANGED <<scene, policy, approval, decision, history, cancelled,
                   budget>>

\* Mutant of Rebind: the binding of before the wait is trusted.
RebindNot(c) ==
    /\ At(c, "rebind")
    /\ Goto(c, "execute")
    /\ UNCHANGED <<scene, policy, approval, audit, decision, history,
                   cancelled, budget>>

\* Mutant of Rebind: the refusal is logged, and no return follows.
RebindGoesOn(c) ==
    /\ At(c, "rebind")
    /\ Goto(c, "execute")
    /\ IF Usable THEN UNCHANGED audit ELSE Log(c, "denied")
    /\ UNCHANGED <<scene, policy, approval, decision, history, cancelled,
                   budget>>

\* Revalidation after the wait.
Rebind(c) ==
    /\ At(c, "rebind")
    /\ IF Usable
       THEN /\ call' = [call EXCEPT ![c].pc = "execute",
                                    ![c].bound = capability]
            /\ UNCHANGED audit
       ELSE Log(c, "denied") /\ End(c, "denied")
    /\ UNCHANGED <<scene, policy, approval, decision, history, cancelled,
                   budget>>

Execute(c) ==
    /\ At(c, "execute")
    /\ ran' = [ran EXCEPT ![c] = TRUE]
    /\ \E result \in {"completed", "failed"} :
        call' = [call EXCEPT ![c].pc = "record", ![c].result = result]
    /\ UNCHANGED <<scene, policy, approval, audit, decision, stranded,
                   cancelled, budget>>

Record(c) ==
    /\ At(c, "record")
    /\ Log(c, call[c].result) /\ Goto(c, "done")
    /\ UNCHANGED <<scene, policy, approval, decision, history, cancelled,
                   budget>>

CallStep(c) ==
    \/ Bind(c) \/ Check(c) \/ Deny(c) \/ Ask(c) \/ Announce(c) \/ Answered(c)
    \/ TimeOut(c) \/ SeeCancel(c) \/ Approved(c) \/ Unapproved(c)
    \/ Rebind(c) \/ Execute(c) \/ Record(c)

\* The stream of a chat turn is closed: wait() forgets the approval, but one
\* that is not waited for yet stays.
Closed(k) ==
    /\ call' = [c \in Calls |->
            IF c[1] = k /\ call[c].pc \notin {"idle", "done"}
            THEN [call[c] EXCEPT !.pc = "closed"] ELSE call[c]]
    /\ \/ approval' = [c \in Calls |->
                IF c[1] = k /\ At(c, "wait")
                THEN [approval[c] EXCEPT !.pending = FALSE] ELSE approval[c]]
       \/ UNCHANGED approval
    /\ UNCHANGED <<scene, policy, audit, decision, history, cancelled>>

-----------------------------------------------------------------------------
(* The user.                                                               *)

Choices == {"allow_once", "allow_session", "allow_always", "deny_once",
            "deny_always"}
Consents == {"allow_once", "allow_session", "allow_always"}

\* ApprovalManager.resolve: the first answer stands.
Delivered(c, choice) ==
    IF approval[c].pending /\ approval[c].answer = "none"
    THEN [approval EXCEPT ![c].answer = IF choice \in Consents THEN "yes"
                                        ELSE "no"]
    ELSE approval

\* resolve_approval, up to its first await.
Decide(d, c, choice) ==
    /\ decision[d].pc = "idle" /\ approval[c].pending
    /\ Spend("decisions")
    /\ choice = "allow_session" => Chat(c) /\ scene.grantable
    /\ grants' = IF choice = "allow_session" THEN grants \cup {Shape(c)}
                 ELSE grants
    /\ LET stores == \/ choice \in {"allow_always", "deny_always"}
                     \/ choice = "allow_session" /\ ~External
       IN  IF stores
           THEN /\ decision' = [decision EXCEPT ![d] =
                        [pc |-> "store", call |-> c, choice |-> choice]]
                /\ UNCHANGED approval
           ELSE approval' = Delivered(c, choice) /\ UNCHANGED decision
    /\ UNCHANGED <<scene, permission, capability, connected, call, audit,
                   history, cancelled>>

\* Allow for chat restores the permission of when the approval was made.
Store(d) ==
    LET c   == decision[d].call
        new == CASE decision[d].choice = "allow_always"  -> "allow"
                 [] decision[d].choice = "deny_always"   -> "deny"
                 [] decision[d].choice = "allow_session" -> approval[c].configured
    IN  /\ decision[d].pc = "store"
        /\ IF External /\ Chat(c)
           THEN capability' = new /\ UNCHANGED permission
           ELSE permission' = new /\ UNCHANGED capability
        /\ decision' = [decision EXCEPT ![d].pc = "resolve"]
        /\ UNCHANGED <<scene, connected, grants, call, approval, audit, history,
                       cancelled, budget>>

Resolve(d) ==
    /\ decision[d].pc = "resolve"
    /\ approval' = Delivered(decision[d].call, decision[d].choice)
    /\ decision' = [decision EXCEPT ![d] = NoDecision]
    /\ UNCHANGED <<scene, policy, call, audit, history, cancelled, budget>>

\* patch_tool_permission, update_connection_capability_permission
SetPermission ==
    /\ Spend("changes")
    /\ \E mode \in Modes :
        \/ permission' = mode /\ UNCHANGED capability
        \/ External /\ capability' = mode /\ UNCHANGED permission
    /\ UNCHANGED <<scene, connected, grants, call, approval, audit, decision,
                   history, cancelled>>

StillAsked(c) ==
    \/ call[c].pc \in {"ask", "announce"}
    \/ At(c, "wait") /\ approval[c].answer = "none"

Disconnect ==
    /\ External /\ connected
    /\ Spend("changes")
    /\ connected' = FALSE
    /\ stranded' = [c \in Calls |-> stranded[c] \/ (Chat(c) /\ StillAsked(c))]
    /\ UNCHANGED <<scene, permission, capability, grants, call, approval,
                   audit, decision, ran, cancelled>>

\* The provider's flow for the same account takes the same row and identity
\* again: a binding of before is good once more.
Reconnect ==
    /\ External /\ ~connected
    /\ Spend("changes")
    /\ connected' = TRUE
    /\ stranded' = [c \in Calls |-> FALSE]
    /\ UNCHANGED <<scene, permission, capability, grants, call, approval,
                   audit, decision, ran, cancelled>>

\* clear_session_grants
ClearGrants ==
    /\ grants # {}
    /\ Spend("changes")
    /\ grants' = {}
    /\ UNCHANGED <<scene, permission, capability, connected, call, approval,
                   audit, decision, history, cancelled>>

CancelAgent(k) ==
    /\ scene.source[k] = "agent" /\ k \notin cancelled
    /\ Spend("changes")
    /\ cancelled' = cancelled \cup {k}
    /\ UNCHANGED <<scene, policy, call, approval, audit, decision, history>>

User ==
    \/ \E d \in Taps, c \in Calls, choice \in Choices : Decide(d, c, choice)
    \/ SetPermission \/ Disconnect \/ Reconnect \/ ClearGrants
    \/ \E k \in Callers : CancelAgent(k)
=============================================================================
