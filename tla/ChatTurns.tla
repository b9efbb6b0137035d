----------------------------- MODULE ChatTurns -----------------------------
(***************************************************************************)
(* Chat turns of stream_agent: the model answers with prose or with tool   *)
(* calls, tools are run one after the other and the model is asked again.  *)
(* A turn that was routed to the calendar, to the host or to a workspace   *)
(* must use a tool before it may say so, is asked again when it does not,  *)
(* and is answered for in the end.  A forced turn runs one delegation and  *)
(* tells the user.  The calls are those of ToolCalls; a background agent   *)
(* makes one of its own.  A turn may also call tools that no contract is   *)
(* about, of which only the result is modelled.                            *)
(***************************************************************************)
EXTENDS ToolCalls

CONSTANT
    MaxSteps    \* settings.max_tool_steps

ASSUME ChatTurnsAssumption == MaxSteps \in Nat \ {0}

VARIABLE turn   \* the coroutine of each caller

vars == <<toolVars, turn>>

\* What the model is asked for again is counted.
NoRetries == [host |-> 0, files |-> 0, write |-> 0, empty |-> 0, cut |-> 0]

NewTurn(k) == [pc |-> "model", steps |-> 0, next |-> 1, batch |-> 0,
               retries |-> NoRetries, attempted |-> FALSE,
               completed |-> FALSE, answer |-> "none"]

\* An agent and a forced turn start with their call.
Started(k) ==
    IF k \notin scene.active THEN [NewTurn(k) EXCEPT !.pc = "done"]
    ELSE IF scene.source[k] = "agent" \/ scene.forced[k]
    THEN [NewTurn(k) EXCEPT !.pc = "call", !.batch = 1]
    ELSE NewTurn(k)

Init == ToolInit /\ turn = [k \in Callers |-> Started(k)]

Wants(k, contract) == contract \in scene.wants[k]
Serves(contract) == scene.serves = contract
Used(k) == turn[k].next > 1

TurnGoto(k, pc) == turn' = [turn EXCEPT ![k].pc = pc]
Finish(k, answer) ==
    turn' = [turn EXCEPT ![k] = [turn[k] EXCEPT !.pc = "done", !.answer = answer]]

-----------------------------------------------------------------------------
(* One model turn.                                                         *)

\* Mutant of Turning: one step too many.
TurningOnceMore(k) == turn[k].pc = "model" /\ turn[k].steps <= MaxSteps

Turning(k) == turn[k].pc = "model" /\ turn[k].steps < MaxSteps

Again(k, why) ==
    turn' = [turn EXCEPT ![k] = [turn[k] EXCEPT !.steps = @ + 1,
                                                !.retries[why] = @ + 1]]

Calling(k, n) ==
    turn' = [turn EXCEPT ![k] =
                [turn[k] EXCEPT !.steps = @ + 1, !.pc = "call", !.batch = n,
                                !.retries.empty = 0, !.retries.cut = 0]]

\* The model asks for tools.
ModelCalls(k) ==
    /\ Turning(k)
    /\ \E n \in 1..MaxCalls :
        turn[k].next + n <= MaxCalls + 1 /\ Calling(k, n)
    /\ UNCHANGED toolVars

\* The contracts a turn has not even tried to meet, in the code's order.
Missing(k) == {w \in {"host", "files"} :
                  Wants(k, w) /\ ~(turn[k].attempted /\ Serves(w))}

\* Prose instead of a tool: Jace makes the call itself where it can ...
AutoCall(k) ==
    /\ Turning(k) /\ scene.auto /\ turn[k].next <= MaxCalls
    /\ \E w \in Missing(k) : Serves(w)
    /\ Calling(k, 1)
    /\ UNCHANGED toolVars

Prose(k) ==
    /\ Turning(k)
    /\ scene.auto => turn[k].next > MaxCalls
                     \/ \A w \in Missing(k) : ~Serves(w)

\* ... or asks again, twice.
AskForTool(k) ==
    /\ Prose(k)
    /\ \/ "host" \in Missing(k) /\ turn[k].retries.host < 2 /\ Again(k, "host")
       \/ /\ "files" \in Missing(k) /\ turn[k].retries.files < 2
          /\ "host" \in Missing(k) => turn[k].retries.host = 2
          /\ Again(k, "files")
    /\ UNCHANGED toolVars

Concluding(k) ==
    Prose(k) /\ \A w \in Missing(k) : turn[k].retries[w] = 2

Texts == {"empty", "prose", "question"}

\* What the model wrote, or what is said instead of it.
Draft(k, text) == IF Missing(k) # {} THEN "refusal" ELSE text

AskForText(k) ==
    /\ Concluding(k) /\ Draft(k, "empty") = "empty"
    /\ IF turn[k].retries.empty < 1 THEN Again(k, "empty")
       ELSE Finish(k, "error")
    /\ UNCHANGED toolVars

\* The text breaks off (_looks_incomplete_response): a turn that has shown
\* nothing yet and used no tool is repeated.
AskForRest(k) ==
    /\ Concluding(k) /\ ~Used(k) /\ turn[k].retries.cut < 1
    /\ Again(k, "cut")
    /\ UNCHANGED toolVars

\* A calendar turn is asked again for its tool, and never ends with prose
\* when no write was completed.
Conclusions(k, draft) ==
    IF Wants(k, "write") /\ ~turn[k].completed /\ draft # "question"
    THEN IF Serves("write") /\ ~turn[k].attempted /\ turn[k].retries.write < 2
         THEN {"again"} ELSE {"refusal"}
    ELSE {draft}

\* The turn has a text; one that breaks off is repaired once.
Conclude(k) ==
    /\ Concluding(k)
    /\ \E text \in Texts \ {"empty"}, cut \in BOOLEAN, repaired \in Texts :
        LET draft == Draft(k, text)
            fixes == cut /\ turn[k].retries.cut < 1
            final == IF fixes /\ Used(k) /\ repaired # "empty" THEN repaired
                     ELSE draft
            retries == [turn[k].retries EXCEPT
                            !.write = @ + 1, !.cut = IF fixes THEN @ + 1 ELSE @]
        IN  /\ fixes => Used(k) \/ scene.wants[k] = {}
            /\ \E conclusion \in Conclusions(k, final) :
                    IF conclusion = "again"
                    THEN turn' = [turn EXCEPT ![k] = [turn[k] EXCEPT
                                    !.steps = @ + 1, !.retries = retries]]
                    ELSE Finish(k, conclusion)
    /\ UNCHANGED toolVars

\* The limit of steps: one last text, without tools.
Limit(k) ==
    /\ turn[k].pc = "model" /\ turn[k].steps = MaxSteps
    /\ \E answer \in {"error", "last"} : Finish(k, answer)
    /\ UNCHANGED toolVars

-----------------------------------------------------------------------------
(* The tool calls of a turn.                                               *)

Current(k) == <<k, turn[k].next>>

BeginCall(k) ==
    /\ turn[k].pc = "call" /\ turn[k].batch > 0 /\ At(Current(k), "idle")
    /\ Begin(Current(k))
    /\ UNCHANGED <<scene, policy, approval, audit, decision, history,
                   cancelled, budget, turn>>

\* A tool that meets no contract of the turn, a look into the calendar say: the
\* calls that Jace makes by itself are never of this kind.
OtherCall(k) ==
    /\ turn[k].pc = "call" /\ turn[k].batch > 0 /\ At(Current(k), "idle")
    /\ scene.others /\ ~scene.auto /\ Chat(Current(k)) /\ ~scene.forced[k]
    /\ \E result \in {"completed", "failed", "denied"} :
        call' = [call EXCEPT ![Current(k)] =
                    [NoCall EXCEPT !.pc = "done", !.announced = TRUE,
                                   !.other = TRUE, !.result = result]]
    /\ UNCHANGED <<scene, policy, approval, audit, decision, history,
                   cancelled, budget, turn>>

\* Mutant of EndCall: whatever tool was completed counts.
EndCallAnyTool(k) ==
    /\ turn[k].pc = "call" /\ At(Current(k), "done")
    /\ scene.source[k] = "chat" /\ ~scene.forced[k]
    /\ LET c == call[Current(k)]
       IN  turn' = [turn EXCEPT ![k] = [turn[k] EXCEPT
                !.next = @ + 1, !.batch = @ - 1,
                !.attempted = @ \/ (c.announced /\ ~c.other),
                !.completed = @ \/ c.result = "completed",
                !.pc = IF turn[k].batch = 1 THEN "model" ELSE "call"]]
    /\ UNCHANGED toolVars

\* The events of the call are noted when its tool is one the contract is about
\* (HOST_TOOL_NAMES, _CALENDAR_WRITE_TOOL_NAMES); the next one, or the model.
EndCall(k) ==
    /\ turn[k].pc = "call" /\ At(Current(k), "done")
    /\ scene.source[k] = "chat" /\ ~scene.forced[k]
    /\ LET c == call[Current(k)]
       IN  turn' = [turn EXCEPT ![k] = [turn[k] EXCEPT
                !.next = @ + 1, !.batch = @ - 1,
                !.attempted = @ \/ (c.announced /\ ~c.other),
                !.completed = @ \/ (c.result = "completed" /\ ~c.other),
                !.pc = IF turn[k].batch = 1 THEN "model" ELSE "call"]]
    /\ UNCHANGED toolVars

\* stream_agent_with_delegation: the tool was executed first.
Acknowledge(k) ==
    /\ turn[k].pc = "call" /\ At(Current(k), "done") /\ scene.forced[k]
    /\ Finish(k, "accepted")
    /\ UNCHANGED toolVars

\* The agent goes on with what the tool returned.
AgentReturns(k) ==
    /\ turn[k].pc = "call" /\ At(Current(k), "done")
    /\ scene.source[k] = "agent"
    /\ Finish(k, "none")
    /\ UNCHANGED toolVars

\* The client goes away.
Close(k) ==
    /\ scene.source[k] = "chat" /\ turn[k].pc # "done"
    /\ Spend("closes")
    /\ Closed(k)
    /\ Finish(k, "closed")

TurnStep(k) ==
    \/ ModelCalls(k) \/ AutoCall(k) \/ AskForTool(k) \/ AskForText(k)
    \/ AskForRest(k) \/ Conclude(k) \/ Limit(k) \/ BeginCall(k) \/ OtherCall(k)
    \/ EndCall(k) \/ Acknowledge(k) \/ AgentReturns(k)

Next ==
    \/ \E c \in Calls : CallStep(c) /\ UNCHANGED turn
    \/ \E d \in Taps : (Store(d) \/ Resolve(d)) /\ UNCHANGED turn
    \/ User /\ UNCHANGED turn
    \/ \E k \in Callers : TurnStep(k) \/ Close(k)

Spec == Init /\ [][Next]_vars

\* Coroutines that can go on do, model turns and tools return, and an
\* approval nobody answers runs into its timeout.
FairSpec ==
    /\ Spec
    /\ \A k \in Callers : WF_vars(TurnStep(k))
    /\ \A c \in Calls : WF_vars(CallStep(c) /\ UNCHANGED turn)
    /\ \A d \in Taps : WF_vars((Store(d) \/ Resolve(d)) /\ UNCHANGED turn)

-----------------------------------------------------------------------------
Statuses == {"none", "requested", "awaiting_approval", "approved", "denied",
             "timed_out", "completed", "failed", "cancelled"}

TypeOK ==
    /\ permission \in Modes /\ capability \in Modes /\ connected \in BOOLEAN
    /\ audit \in [Calls -> Statuses]
    /\ approval \in [Calls -> [pending : BOOLEAN,
                               answer : {"none", "yes", "no"},
                               configured : Modes \cup {"none"}]]
    /\ \A c \in Calls : call[c].bound \in Modes
    /\ \A k \in Callers : /\ turn[k].steps \in 0..MaxSteps
                          /\ turn[k].next \in 1..(MaxCalls + 1)
                          /\ turn[k].batch \in 0..MaxCalls

\* The policy order of scoped-execution-policy.md: a call that found its tool
\* or its connection denied is never run, and one that had to ask is run only
\* after the user agreed, to this call or before to all calls of its shape.
\* (_execute_tool_call, _execute_tool, ApprovalManager)
RunsAsAgreed ==
    \A c \in Calls : ran[c] =>
        /\ call[c].configured # "deny" /\ call[c].effective # "deny"
        /\ \/ approval[c].answer = "yes"
           \/ Chat(c) /\ scene.grantable /\ call[c].granted
           \/ call[c].effective = "allow" /\ (Chat(c) => scene.floor = "allow")

\* An external action that was waiting for the user when its connection went
\* is not carried out, whatever the user answers, until the same account is
\* connected again: what the answer finds decides. (_execute_tool_call)
LostConnectionStops == \A c \in Calls : ~(stranded[c] /\ ran[c])

\* The audit tells the end of a call once, and truly: what it calls denied,
\* timed out or cancelled is not run, then or later. (update_tool_audit)
Audit == INSTANCE AnswerOnce WITH
    Requests   <- Calls,
    Answers    <- ({"completed", "failed"} \X {TRUE})
                  \cup ({"denied", "timed_out", "cancelled"} \X {FALSE}),
    Unanswered <- <<>>,
    answer     <- [c \in Calls |-> IF audit[c] \in {"none", "requested",
                                       "awaiting_approval", "approved"}
                                   THEN <<>> ELSE <<audit[c], ran[c]>>]

AuditedOnce == Audit!Spec

\* A chat turn that wanted a calendar write ends with prose only when a write
\* was completed, whatever else was, and however often the model was asked,
\* short of the step limit. (stream_agent)
ConfirmedOrRefused ==
    \A k \in Callers :
        Wants(k, "write") /\ turn[k].answer = "prose" =>
            \E c \in Calls : /\ c[1] = k
                             /\ call[c].result = "completed" /\ ~call[c].other

\* Allow for chat never raises a permission that was saved: the words of
\* resolve_approval.
NeverPromoted ==
    [][\A d \in Taps : decision[d].choice = "allow_session" /\ Store(d) =>
            Order[permission'] >= Order[permission]]_vars

\* Every turn ends: no approval, no retry and no tool keeps it for ever.
\* (ApprovalManager.wait, stream_agent)
TurnEnds == \A k \in Callers : <>(turn[k].pc = "done")
=============================================================================
