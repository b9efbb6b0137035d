-------------------------- MODULE ChatTurns_proofs --------------------------
(***************************************************************************)
(* Theorems of ChatTurns: any number of chat turns, agents, calls, steps   *)
(* and requests of the user, every tool, and every policy.                 *)
(***************************************************************************)
EXTENDS ChatTurns, TLAPS

-----------------------------------------------------------------------------
(* The inductive invariant.                                                *)

CallPcs == {"idle", "bind", "check", "deny", "ask", "announce", "wait",
            "approved", "refused", "late", "cancel", "rebind", "execute",
            "record", "done", "closed"}
Results == {"none", "denied", "cancelled", "completed", "failed"}
CallType == [pc : CallPcs, bound : Modes, configured : Modes \cup {"none"},
             effective : Modes \cup {"none"}, granted : BOOLEAN,
             announced : BOOLEAN, other : BOOLEAN, result : Results]
ApprovalType == [pending : BOOLEAN, answer : {"none", "yes", "no"},
                 configured : Modes \cup {"none"}]
DecisionType == [pc : {"idle", "store", "resolve"}, call : Calls \cup {<<>>},
                 choice : Choices \cup {"none"}]
Reasons == {"host", "files", "write", "empty", "cut"}
RetriesType == [Reasons -> Nat]
TurnType == [pc : {"model", "call", "done"}, steps : 0..MaxSteps,
             next : 1..(MaxCalls + 1), batch : 0..MaxCalls,
             retries : RetriesType, attempted : BOOLEAN, completed : BOOLEAN,
             answer : {"none", "prose", "question", "refusal", "error",
                       "last", "accepted", "closed"}]

\* The policy and the tables of the tool.
Typed ==
    /\ scene \in Scenes
    /\ permission \in Modes /\ capability \in Modes /\ connected \in BOOLEAN
    /\ call \in [Calls -> CallType]
    /\ approval \in [Calls -> ApprovalType]
    /\ audit \in [Calls -> Statuses]
    /\ decision \in [Taps -> DecisionType]
    /\ ran \in [Calls -> BOOLEAN] /\ stranded \in [Calls -> BOOLEAN]

\* A decision that is under way is about an approval that was asked for, and
\* Allow for chat has a permission to restore.
Decided ==
    /\ \A c \in Calls : approval[c].pending /\ Chat(c) =>
            approval[c].configured \in Modes
    /\ \A d \in Taps : decision[d].pc # "idle" => decision[d].call \in Calls
    /\ \A d \in Taps : decision[d].pc = "store" =>
            \/ decision[d].choice \in {"allow_always", "deny_always"}
            \/ /\ decision[d].choice = "allow_session"
               /\ Chat(decision[d].call)
               /\ approval[decision[d].call].configured \in Modes

\* What RunsAsAgreed asks of a call that is run.
Agreed(c) ==
    /\ call[c].configured # "deny" /\ call[c].effective # "deny"
    /\ \/ approval[c].answer = "yes"
       \/ Chat(c) /\ scene.grantable /\ call[c].granted
       \/ call[c].effective = "allow" /\ (Chat(c) => scene.floor = "allow")

\* A call past its consent was agreed to, and one before it found no denial.
Consent ==
    \A c \in Calls :
        /\ call[c].pc \in {"ask", "announce", "wait", "approved"} =>
            /\ call[c].configured \in {"allow", "ask"}
            /\ call[c].effective # "deny"
        /\ call[c].pc = "approved" => approval[c].answer = "yes"
        /\ call[c].pc \in {"rebind", "execute", "record"} \/ ran[c] => Agreed(c)

\* A call that lost its connection is an external one on its way to the check
\* that stops it.
Stopped ==
    \A c \in Calls : stranded[c] =>
        /\ ~connected /\ Chat(c) /\ External /\ ~ran[c]
        /\ call[c].pc \notin {"idle", "bind", "check", "execute", "record"}

\* The audit row of a call is final when the call is over or its end decided,
\* and then says whether the tool ran.
Open == {"none", "requested", "awaiting_approval", "approved"}
Told ==
    \A c \in Calls :
        /\ ran[c] => call[c].pc \in {"record", "done", "closed"}
        /\ call[c].pc = "record" =>
            ran[c] /\ call[c].result \in {"completed", "failed"}
        /\ audit[c] \in Open \/ call[c].pc \in {"deny", "done", "closed"}
        /\ call[c].pc = "deny" => audit[c] \in Open \cup {"denied"}
        /\ audit[c] \notin Open =>
            (ran[c] <=> audit[c] \in {"completed", "failed"})
        /\ call[c].result = "completed" =>
            call[c].pc \in {"record", "done", "closed"}

\* A call of the tool that the contract is about was completed.
Confirming(c) == call[c].result = "completed" /\ ~call[c].other

\* A turn counts its calls, and remembers a completed one rightly.
Turns ==
    /\ turn \in [Callers -> TurnType]
    /\ \A k \in Callers :
        /\ turn[k].pc = "call" =>
            turn[k].batch >= 1 /\ turn[k].next + turn[k].batch <= MaxCalls + 1
        /\ turn[k].completed =>
            \E c \in Calls : c[1] = k /\ Confirming(c)
        /\ Wants(k, "write") /\ turn[k].answer = "prose" => turn[k].completed

ChatInv == Typed /\ Decided /\ Consent /\ Stopped /\ Told /\ Turns

-----------------------------------------------------------------------------
(* The operators that move a call.                                         *)

LEMMA Going ==
    ASSUME call \in [Calls -> CallType], NEW c \in Calls, NEW p \in CallPcs,
           Goto(c, p)
    PROVE  /\ call' \in [Calls -> CallType]
           /\ call'[c] = [call[c] EXCEPT !.pc = p]
           /\ call'[c].pc = p
           /\ call'[c].configured = call[c].configured
           /\ call'[c].effective = call[c].effective
           /\ call'[c].granted = call[c].granted
           /\ call'[c].other = call[c].other
           /\ call'[c].result = call[c].result
           /\ \A d \in Calls \ {c} : call'[d] = call[d]
<1>1. [call[c] EXCEPT !.pc = p] \in CallType
  BY DEF CallType
<1>2. call' = [call EXCEPT ![c] = [call[c] EXCEPT !.pc = p]]
  BY DEF Goto
<1> QED
  BY <1>1, <1>2 DEF CallType

LEMMA Ending ==
    ASSUME call \in [Calls -> CallType], NEW c \in Calls, NEW r \in Results,
           End(c, r)
    PROVE  /\ call' \in [Calls -> CallType]
           /\ call'[c].pc = "done" /\ call'[c].result = r
           /\ call'[c].configured = call[c].configured
           /\ call'[c].effective = call[c].effective
           /\ call'[c].granted = call[c].granted
           /\ call'[c].other = call[c].other
           /\ \A d \in Calls \ {c} : call'[d] = call[d]
<1> DEFINE new == [[call[c] EXCEPT !.pc = "done"] EXCEPT !.result = r]
<1>1. /\ new \in CallType /\ new.pc = "done" /\ new.result = r
      /\ new.configured = call[c].configured
      /\ new.effective = call[c].effective /\ new.granted = call[c].granted
      /\ new.other = call[c].other
  BY DEF CallType, CallPcs
<1>2. call' = [call EXCEPT ![c] = new]
  BY DEF End, CallType
<1> HIDE DEF new
<1> QED
  BY <1>1, <1>2

LEMMA NextCall ==
    ASSUME Turns, NEW k \in Callers, turn[k].pc = "call"
    PROVE  Current(k) \in Calls
  BY ToolCallsAssumption DEF Turns, TurnType, Current, Calls

\* A step of a call: what it leaves alone.
LEMMA CallFrame ==
    ASSUME NEW c \in Calls, CallStep(c)
    PROVE  UNCHANGED <<scene, policy, decision, stranded, cancelled, budget>>
  BY DEF CallStep, Bind, Check, Deny, Ask, Announce, Answered, TimeOut,
         SeeCancel, Approved, Unapproved, Rebind, Execute, Record, history

\* What a call may do is a mode, and is not refused when the user is asked.
LEMMA ModeIsMode ==
    ASSUME Typed, NEW c \in Calls
    PROVE  /\ Effective(c) \in Modes /\ Mode(c) \in Modes
           /\ Mode(c) \in {"ask", "allow"} =>
                permission # "deny" /\ Effective(c) # "deny"
           /\ Mode(c) = "allow" =>
                \/ Chat(c) /\ scene.grantable /\ Shape(c) \in grants
                \/ Effective(c) = "allow" /\ (Chat(c) => scene.floor = "allow")
<1>1. /\ scene.floor \in Modes /\ permission \in Modes
      /\ call[c].bound \in Modes
  BY ToolCallsAssumption DEF Typed, CallType
<1>2. /\ Effective(c) \in Modes
      /\ permission = "deny" => Effective(c) = "deny"
  BY <1>1 DEF Effective
<1>3. \A m, n \in Modes :
        /\ Stricter(m, n) \in {m, n}
        /\ Stricter(m, n) = "allow" => m = "allow" /\ n = "allow"
        /\ m = "deny" => Stricter(m, n) = "deny"
  <2>1. /\ Order["allow"] = 0 /\ Order["ask"] = 1 /\ Order["deny"] = 2
    BY DEF Order
  <2> QED BY <2>1 DEF Stricter, Modes
<1>4. CASE ~Chat(c)
  BY <1>2, <1>4 DEF Mode, Modes
<1>5. CASE Chat(c)
  <2> DEFINE floored == Stricter(Effective(c), scene.floor)
  <2>1. /\ floored \in Modes
        /\ floored = "allow" => Effective(c) = "allow" /\ scene.floor = "allow"
        /\ Effective(c) = "deny" => floored = "deny"
    BY <1>1, <1>2, <1>3
  <2>2. Mode(c) = IF floored = "ask" /\ scene.grantable /\ Shape(c) \in grants
                  THEN "allow" ELSE floored
    BY <1>5 DEF Mode
  <2> HIDE DEF floored
  <2> QED BY <1>2, <1>5, <2>1, <2>2 DEF Modes
<1> QED
  BY <1>4, <1>5

\* What Check writes into the call.
LEMMA Checking ==
    ASSUME Typed, NEW c \in Calls, Check(c)
    PROVE  /\ call' \in [Calls -> CallType]
           /\ call'[c].pc \in {"deny", "ask", "rebind", "execute"}
           /\ call'[c].pc = "deny" <=> Mode(c) = "deny"
           /\ call'[c].pc = "ask" <=> Mode(c) = "ask"
           /\ call'[c].configured = permission
           /\ call'[c].effective = Effective(c)
           /\ call'[c].granted = (Shape(c) \in grants)
           /\ call'[c].other = call[c].other
           /\ call'[c].result = call[c].result
           /\ \A d \in Calls \ {c} : call'[d] = call[d]
<1> DEFINE g == Shape(c) \in grants
<1>g. g \in BOOLEAN
  OBVIOUS
<1> DEFINE to == CASE Mode(c) = "deny"  -> "deny"
                   [] Mode(c) = "ask"   -> "ask"
                   [] Mode(c) = "allow" -> AfterConsent(c)
           effective == Effective(c)
           new == [call[c] EXCEPT !.pc = to, !.configured = permission,
                                  !.effective = effective,
                                  !.granted = g, !.announced = TRUE]
<1>1. Mode(c) \in Modes /\ effective \in Modes /\ permission \in Modes
  BY ModeIsMode DEF Typed
<1>2. /\ to \in {"deny", "ask", "rebind", "execute"}
      /\ to = "deny" <=> Mode(c) = "deny"
      /\ to = "ask" <=> Mode(c) = "ask"
  BY <1>1 DEF Modes, AfterConsent
<1>3. call' = [call EXCEPT ![c] = new]
  BY Zenon DEF Check
<1> HIDE DEF to, effective, g
<1>4. /\ new \in CallType /\ new.pc = to /\ new.configured = permission
      /\ new.effective = effective /\ new.granted = g
      /\ new.other = call[c].other
      /\ new.result = call[c].result
  BY <1>1, <1>2, <1>g, ZenonT(40) DEF Typed, CallType, CallPcs
<1> HIDE DEF new
<1>5. /\ call' \in [Calls -> CallType] /\ call'[c] = new
      /\ \A d \in Calls \ {c} : call'[d] = call[d]
  BY <1>3, <1>4 DEF Typed
<1> QED
  BY <1>2, <1>4, <1>5 DEF effective, g

\* A call whose connection is looked up again.
LEMMA Rebinding ==
    ASSUME Typed, NEW c \in Calls, NEW p \in {"check", "execute"},
           call' = [call EXCEPT ![c].pc = p, ![c].bound = capability]
    PROVE  /\ call' \in [Calls -> CallType]
           /\ call'[c].pc = p
           /\ call'[c].configured = call[c].configured
           /\ call'[c].effective = call[c].effective
           /\ call'[c].granted = call[c].granted
           /\ call'[c].other = call[c].other
           /\ call'[c].result = call[c].result
           /\ \A d \in Calls \ {c} : call'[d] = call[d]
<1> DEFINE new == [call[c] EXCEPT !.pc = p, !.bound = capability]
<1>1. call' = [call EXCEPT ![c] = new]
  BY DEF Typed, CallType
<1>2. /\ new \in CallType /\ new.pc = p
      /\ new.configured = call[c].configured
      /\ new.effective = call[c].effective /\ new.granted = call[c].granted
      /\ new.other = call[c].other
      /\ new.result = call[c].result
  BY ZenonT(40) DEF Typed, CallType, CallPcs
<1> HIDE DEF new
<1> QED
  BY <1>1, <1>2, ZenonT(40) DEF Typed

\* A call that is run.
LEMMA Running ==
    ASSUME Typed, NEW c \in Calls, Execute(c)
    PROVE  /\ call' \in [Calls -> CallType]
           /\ call'[c].pc = "record"
           /\ call'[c].result \in {"completed", "failed"}
           /\ call'[c].configured = call[c].configured
           /\ call'[c].effective = call[c].effective
           /\ call'[c].granted = call[c].granted
           /\ call'[c].other = call[c].other
           /\ \A d \in Calls \ {c} : call'[d] = call[d]
<1>1. PICK r \in {"completed", "failed"} :
        call' = [call EXCEPT ![c].pc = "record", ![c].result = r]
  BY DEF Execute
<1> DEFINE new == [call[c] EXCEPT !.pc = "record", !.result = r]
<1>2. call' = [call EXCEPT ![c] = new]
  BY <1>1 DEF Typed, CallType
<1>3. /\ new \in CallType /\ new.pc = "record" /\ new.result = r
      /\ new.configured = call[c].configured
      /\ new.effective = call[c].effective /\ new.granted = call[c].granted
      /\ new.other = call[c].other
  BY ZenonT(40) DEF Typed, CallType, CallPcs, Results
<1> HIDE DEF new
<1> QED
  BY <1>2, <1>3 DEF Typed

-----------------------------------------------------------------------------
(* The other tables.                                                       *)

\* Starting the next call of a turn.
LEMMA Beginning ==
    ASSUME Typed, Turns, NEW k \in Callers, BeginCall(k)
    PROVE  \E c \in Calls :
           /\ call[c].pc = "idle"
           /\ call' \in [Calls -> CallType]
           /\ call'[c].pc \in {"bind", "check"}
           /\ call'[c].result = call[c].result
           /\ call'[c].other = call[c].other
           /\ \A d \in Calls \ {c} : call'[d] = call[d]
<1>1. /\ Current(k) \in Calls /\ At(Current(k), "idle")
      /\ Begin(Current(k))
  BY NextCall DEF BeginCall
<1> DEFINE p == IF Chat(Current(k)) /\ External THEN "bind" ELSE "check"
<1>2. p \in CallPcs /\ Goto(Current(k), p) /\ p \in {"bind", "check"}
  BY <1>1 DEF Begin, CallPcs
<1> HIDE DEF p
<1> QED
  BY <1>1, <1>2, Going DEF Typed, At

\* A call of another tool is over at once, and touches nothing else.
LEMMA CallingOther ==
    ASSUME Typed, Turns, NEW k \in Callers, OtherCall(k)
    PROVE  \E c \in Calls :
           /\ call[c].pc = "idle"
           /\ call' \in [Calls -> CallType]
           /\ call'[c].pc = "done"
           /\ call'[c].other
           /\ \A d \in Calls \ {c} : call'[d] = call[d]
<1>1. /\ Current(k) \in Calls /\ call[Current(k)].pc = "idle"
      /\ \E result \in {"completed", "failed", "denied"} :
            call' = [call EXCEPT ![Current(k)] =
                        [NoCall EXCEPT !.pc = "done", !.announced = TRUE,
                                       !.other = TRUE, !.result = result]]
  BY NextCall DEF OtherCall, At
<1>2. PICK result \in {"completed", "failed", "denied"} :
        call' = [call EXCEPT ![Current(k)] =
                    [NoCall EXCEPT !.pc = "done", !.announced = TRUE,
                                   !.other = TRUE, !.result = result]]
  BY <1>1
<1> DEFINE new == [NoCall EXCEPT !.pc = "done", !.announced = TRUE,
                                 !.other = TRUE, !.result = result]
<1>3. new \in CallType /\ new.pc = "done" /\ new.other
  BY DEF NoCall, CallType, CallPcs, Modes, Results
<1> HIDE DEF new
<1>4. call' = [call EXCEPT ![Current(k)] = new]
  BY <1>2 DEF new
<1> QED BY <1>1, <1>3, <1>4 DEF Typed

\* Closing a turn ends its calls, and agrees to nothing.
LEMMA Closing ==
    ASSUME Typed, NEW k \in Callers, Closed(k)
    PROVE  /\ call' \in [Calls -> CallType]
           /\ approval' \in [Calls -> ApprovalType]
           /\ \A c \in Calls :
                /\ \/ call'[c] = call[c]
                   \/ /\ call'[c].pc = "closed"
                      /\ call[c].pc \notin {"idle", "done"}
                /\ call'[c].configured = call[c].configured
                /\ call'[c].effective = call[c].effective
                /\ call'[c].granted = call[c].granted
                /\ call'[c].other = call[c].other
                /\ call'[c].result = call[c].result
                /\ approval'[c].answer = approval[c].answer
                /\ approval'[c].configured = approval[c].configured
                /\ approval'[c].pending => approval[c].pending
<1>1. \A c \in Calls :
        /\ [call[c] EXCEPT !.pc = "closed"] \in CallType
        /\ [call[c] EXCEPT !.pc = "closed"].pc = "closed"
        /\ [call[c] EXCEPT !.pc = "closed"].configured = call[c].configured
        /\ [call[c] EXCEPT !.pc = "closed"].effective = call[c].effective
        /\ [call[c] EXCEPT !.pc = "closed"].granted = call[c].granted
        /\ [call[c] EXCEPT !.pc = "closed"].other = call[c].other
        /\ [call[c] EXCEPT !.pc = "closed"].result = call[c].result
  BY DEF Typed, CallType, CallPcs
<1>2. /\ call' \in [Calls -> CallType]
      /\ \A c \in Calls : \/ call'[c] = call[c]
                          \/ /\ call'[c] = [call[c] EXCEPT !.pc = "closed"]
                             /\ call[c].pc \notin {"idle", "done"}
  BY <1>1 DEF Typed, Closed
<1>3. /\ approval' \in [Calls -> ApprovalType]
      /\ \A c \in Calls :
            /\ approval'[c].answer = approval[c].answer
            /\ approval'[c].configured = approval[c].configured
            /\ approval'[c].pending => approval[c].pending
  <2>1. \A a \in ApprovalType :
          /\ [a EXCEPT !.pending = FALSE] \in ApprovalType
          /\ [a EXCEPT !.pending = FALSE].answer = a.answer
          /\ [a EXCEPT !.pending = FALSE].configured = a.configured
          /\ [a EXCEPT !.pending = FALSE].pending = FALSE
    BY DEF ApprovalType
  <2>2. CASE UNCHANGED approval
    BY <2>2 DEF Typed
  <2>3. CASE approval' = [c \in Calls |->
                IF c[1] = k /\ At(c, "wait")
                THEN [approval[c] EXCEPT !.pending = FALSE] ELSE approval[c]]
    <3>1. \A c \in Calls :
            \/ approval'[c] = approval[c]
            \/ approval'[c] = [approval[c] EXCEPT !.pending = FALSE]
      BY <2>3
    <3>2. \A c \in Calls : approval[c] \in ApprovalType
      BY DEF Typed
    <3>3. \A c \in Calls : approval'[c] \in ApprovalType
      BY <2>1, <3>1, <3>2
    <3>4. approval' \in [Calls -> ApprovalType]
      BY <2>3, <3>3
    <3> QED BY <2>1, <3>1, <3>2, <3>4, ZenonT(40)
  <2> QED BY <2>2, <2>3 DEF Closed
<1> QED
  BY <1>1, <1>2, <1>3

\* Delivering an answer: one that was given stands.
LEMMA Delivering ==
    ASSUME Typed, NEW c \in Calls, NEW choice, approval' = Delivered(c, choice)
    PROVE  /\ approval' \in [Calls -> ApprovalType]
           /\ \A d \in Calls :
                /\ approval'[d].pending = approval[d].pending
                /\ approval'[d].configured = approval[d].configured
                /\ approval[d].answer = "yes" => approval'[d].answer = "yes"
<1> DEFINE said == IF choice \in Consents THEN "yes" ELSE "no"
           new == [approval[c] EXCEPT !.answer = said]
<1>1. \/ UNCHANGED approval
      \/ approval[c].answer = "none" /\ approval' = [approval EXCEPT ![c] = new]
  BY DEF Delivered
<1>2. /\ new \in ApprovalType
      /\ new.pending = approval[c].pending
      /\ new.configured = approval[c].configured
  BY DEF Typed, ApprovalType
<1>3. CASE UNCHANGED approval
  BY <1>3 DEF Typed
<1> HIDE DEF said, new
<1>4. CASE approval[c].answer = "none" /\ approval' = [approval EXCEPT ![c] = new]
  BY <1>2, <1>4 DEF Typed
<1> QED
  BY <1>1, <1>3, <1>4

LEMMA Forgetting ==
    ASSUME Typed, NEW c \in Calls, Forget(c)
    PROVE  /\ approval' \in [Calls -> ApprovalType]
           /\ \A d \in Calls :
                /\ approval'[d].pending => approval[d].pending
                /\ approval'[d].configured = approval[d].configured
                /\ approval'[d].answer = approval[d].answer
<1> DEFINE new == [approval[c] EXCEPT !.pending = FALSE]
<1>1. approval' = [approval EXCEPT ![c] = new]
  BY DEF Forget
<1>2. /\ new \in ApprovalType /\ new.pending = FALSE
      /\ new.configured = approval[c].configured
      /\ new.answer = approval[c].answer
  BY DEF Typed, ApprovalType
<1> HIDE DEF new
<1> QED
  BY <1>1, <1>2 DEF Typed

\* What a step of a call does to its approval.
LEMMA CallApproval ==
    ASSUME Typed, Consent, NEW c \in Calls, CallStep(c)
    PROVE  /\ approval' \in [Calls -> ApprovalType]
           /\ \A d \in Calls :
                \/ /\ approval'[d].pending => approval[d].pending
                   /\ approval'[d].configured = approval[d].configured
                   /\ approval'[d].answer = approval[d].answer
                \/ /\ d = c /\ call[c].pc = "ask"
                   /\ Chat(c) => approval'[c].configured \in Modes
<1>1. CASE Ask(c)
  <2> DEFINE new == [pending |-> TRUE, answer |-> "none",
                     configured |-> IF Chat(c) THEN call[c].configured
                                    ELSE "none"]
  <2>1. call[c].configured \in Modes /\ call[c].pc = "ask"
    BY <1>1 DEF Consent, Ask, At, Modes
  <2>2. new \in ApprovalType /\ (Chat(c) => new.configured \in Modes)
    BY <2>1 DEF ApprovalType
  <2>3. approval' = [approval EXCEPT ![c] = new]
    BY <1>1 DEF Ask
  <2> HIDE DEF new
  <2> QED BY <2>1, <2>2, <2>3 DEF Typed
<1>2. CASE Answered(c) \/ TimeOut(c) \/ SeeCancel(c)
  <2>1. Forget(c)
    BY <1>2 DEF Answered, TimeOut, SeeCancel
  <2> QED BY <2>1, Forgetting
<1>3. CASE ~Ask(c) /\ ~Answered(c) /\ ~TimeOut(c) /\ ~SeeCancel(c)
  <2>1. UNCHANGED approval
    BY <1>3 DEF CallStep, Bind, Check, Deny, Announce, Approved, Unapproved,
                Rebind, Execute, Record
  <2> QED BY <2>1 DEF Typed
<1> QED
  BY <1>1, <1>2, <1>3

\* What a step of a call writes into the audit.
LEMMA CallAudit ==
    ASSUME Typed, Told, NEW c \in Calls, CallStep(c)
    PROVE  /\ audit' \in [Calls -> Statuses]
           /\ \A d \in Calls \ {c} : audit'[d] = audit[d]
<1>1. \A x \in Statuses : Log(c, x) =>
        /\ audit' \in [Calls -> Statuses]
        /\ \A d \in Calls \ {c} : audit'[d] = audit[d]
  BY DEF Log, Typed
<1>2. CASE UNCHANGED audit
  BY <1>2 DEF Typed
<1>3. CASE Check(c)
  <2>1. permission \in Modes
    BY DEF Typed
  <2>2. \E x \in Statuses : Log(c, x)
    BY <1>3, <2>1 DEF Check, Statuses, Modes
  <2> QED BY <1>1, <2>2
<1>4. CASE Deny(c) \/ Announce(c) \/ Approved(c)
  BY <1>1, <1>4 DEF Deny, Announce, Approved, Statuses
<1>5. CASE Unapproved(c)
  BY <1>1, <1>5 DEF Unapproved, Statuses
<1>6. CASE Rebind(c)
  BY <1>1, <1>2, <1>6 DEF Rebind, Statuses
<1>7. CASE Record(c)
  <2>1. Log(c, call[c].result) /\ call[c].result \in {"completed", "failed"}
    BY <1>7 DEF Record, Told, At
  <2> QED BY <1>1, <2>1 DEF Statuses
<1> QED
  BY <1>2, <1>3, <1>4, <1>5, <1>6, <1>7
     DEF CallStep, Bind, Ask, Answered, TimeOut, SeeCancel, Execute

-----------------------------------------------------------------------------
(* The steps, by what they can disturb.                                    *)

UserStep == User \/ \E d \in Taps : Store(d) \/ Resolve(d)
Frozen   == UNCHANGED toolVars

LEMMA NextCases ==
    ASSUME [Next]_vars
    PROVE  \/ (\E c \in Calls : CallStep(c)) /\ UNCHANGED turn
           \/ UserStep /\ UNCHANGED turn
           \/ (\E k \in Callers : BeginCall(k)) /\ UNCHANGED turn
           \/ (\E k \in Callers : OtherCall(k)) /\ UNCHANGED turn
           \/ \E k \in Callers : Close(k)
           \/ (\E k \in Callers : TurnStep(k)) /\ Frozen
           \/ Frozen /\ UNCHANGED turn
<1>1. CASE UNCHANGED vars
  BY <1>1 DEF vars, Frozen
<1>2. ASSUME NEW k \in Callers, TurnStep(k)
      PROVE  \/ BeginCall(k) /\ UNCHANGED turn
             \/ OtherCall(k) /\ UNCHANGED turn
             \/ Frozen
  BY <1>2 DEF TurnStep, ModelCalls, AutoCall, AskForTool, AskForText,
              AskForRest, Conclude, Limit, BeginCall, OtherCall, EndCall,
              Acknowledge, AgentReturns, Frozen
<1>3. CASE Next
  BY <1>2, <1>3 DEF Next, UserStep
<1> QED
  BY <1>1, <1>3

LEMMA UserApproval ==
    ASSUME Typed, Decided, UserStep
    PROVE  /\ UNCHANGED <<scene, call, audit, ran>>
           /\ approval' \in [Calls -> ApprovalType]
           /\ \A c \in Calls :
                /\ approval'[c].pending = approval[c].pending
                /\ approval'[c].configured = approval[c].configured
                /\ approval[c].answer = "yes" => approval'[c].answer = "yes"
<1>1. UNCHANGED <<scene, call, audit, ran>>
  BY DEF UserStep, User, Decide, Store, Resolve, SetPermission, Disconnect,
         Reconnect, ClearGrants, CancelAgent, history
<1>2. CASE UNCHANGED approval
  BY <1>1, <1>2 DEF Typed
<1>3. ASSUME NEW d \in Taps, NEW c \in Calls, NEW choice, Decide(d, c, choice)
      PROVE  approval' = Delivered(c, choice) \/ UNCHANGED approval
  BY <1>3 DEF Decide
<1>4. ASSUME NEW d \in Taps, Resolve(d)
      PROVE  /\ decision[d].call \in Calls
             /\ approval' = Delivered(decision[d].call, decision[d].choice)
  BY <1>4 DEF Resolve, Decided
<1>5. \/ UNCHANGED approval
      \/ \E c \in Calls : \E choice : approval' = Delivered(c, choice)
  BY <1>3, <1>4 DEF UserStep, User, Store, SetPermission, Disconnect,
                    Reconnect, ClearGrants, CancelAgent
<1> QED
  BY <1>1, <1>2, <1>5, Delivering

\* What the user's steps do to the decisions.
LEMMA UserDecisions ==
    ASSUME Typed, Decided, UserStep
    PROVE  /\ decision' \in [Taps -> DecisionType]
           /\ \A d \in Taps :
                \/ decision'[d] = decision[d]
                \/ decision'[d].pc = "idle"
                \/ /\ decision[d].pc = "store" /\ decision'[d].pc = "resolve"
                   /\ decision'[d].call = decision[d].call
                \/ /\ decision'[d].pc = "store"
                   /\ decision'[d].call \in Calls
                   /\ approval[decision'[d].call].pending
                   /\ decision'[d].choice \in
                        {"allow_always", "deny_always", "allow_session"}
                   /\ decision'[d].choice = "allow_session" =>
                        Chat(decision'[d].call)
<1>1. CASE UNCHANGED decision
  BY <1>1 DEF Typed
<1>2. ASSUME NEW d \in Taps, NEW c \in Calls, NEW choice \in Choices,
             Decide(d, c, choice)
      PROVE  \/ UNCHANGED decision
             \/ /\ decision' = [decision EXCEPT ![d] =
                        [pc |-> "store", call |-> c, choice |-> choice]]
                /\ approval[c].pending
                /\ choice \in {"allow_always", "deny_always", "allow_session"}
                /\ choice = "allow_session" => Chat(c)
  BY <1>2 DEF Decide
<1>3. ASSUME NEW d \in Taps, NEW c \in Calls, NEW choice \in Choices
      PROVE  [pc |-> "store", call |-> c, choice |-> choice] \in DecisionType
  BY DEF DecisionType
<1>4. CASE \E d \in Taps, c \in Calls, choice \in Choices : Decide(d, c, choice)
  <2>1. PICK d \in Taps, c \in Calls, choice \in Choices : Decide(d, c, choice)
    BY <1>4
  <2> DEFINE new == [pc |-> "store", call |-> c, choice |-> choice]
  <2>2. /\ new \in DecisionType /\ new.pc = "store" /\ new.call = c
        /\ new.choice = choice
    BY <1>3
  <2>3. CASE decision' = [decision EXCEPT ![d] = new]
    <3> HIDE DEF new
    <3> QED BY <1>2, <2>1, <2>2, <2>3 DEF Typed
  <2> QED BY <1>1, <1>2, <2>1, <2>3
<1>5. ASSUME NEW d \in Taps, Store(d)
      PROVE  /\ decision' = [decision EXCEPT ![d] =
                                [decision[d] EXCEPT !.pc = "resolve"]]
             /\ decision[d].pc = "store"
  BY <1>5 DEF Store
<1>6. CASE \E d \in Taps : Store(d)
  <2>1. PICK d \in Taps : Store(d)
    BY <1>6
  <2> DEFINE new == [decision[d] EXCEPT !.pc = "resolve"]
  <2>2. /\ new \in DecisionType /\ new.pc = "resolve"
        /\ new.call = decision[d].call
    BY DEF Typed, DecisionType
  <2>3. decision' = [decision EXCEPT ![d] = new] /\ decision[d].pc = "store"
    BY <1>5, <2>1
  <2> HIDE DEF new
  <2> QED BY <2>2, <2>3 DEF Typed
<1>7. CASE \E d \in Taps : Resolve(d)
  <2>1. NoDecision \in DecisionType /\ NoDecision.pc = "idle"
    BY DEF NoDecision, DecisionType
  <2> QED BY <1>7, <2>1 DEF Resolve, Typed
<1> QED
  BY <1>1, <1>4, <1>6, <1>7
     DEF UserStep, User, SetPermission, Disconnect, Reconnect, ClearGrants,
         CancelAgent

\* The policy that the user leaves behind is one.
LEMMA UserPolicy ==
    ASSUME Typed, Decided, UserStep
    PROVE  /\ permission' \in Modes /\ capability' \in Modes
           /\ connected' \in BOOLEAN /\ stranded' \in [Calls -> BOOLEAN]
<1>1. CASE SetPermission
  BY <1>1 DEF SetPermission, Typed, history
<1>2. CASE Disconnect
  BY <1>2 DEF Disconnect, Typed, StillAsked, Chat
<1>7. CASE Reconnect
  BY <1>7 DEF Reconnect, Typed
<1>3. CASE ClearGrants \/ \E k \in Callers : CancelAgent(k)
  BY <1>3 DEF ClearGrants, CancelAgent, Typed, policy, history
<1>4. ASSUME NEW d \in Taps, Store(d)
      PROVE  /\ permission' \in Modes /\ capability' \in Modes
             /\ UNCHANGED <<connected, stranded>>
  <2>1. decision[d].pc = "store"
    BY <1>4 DEF Store
  <2>2. \/ decision[d].choice \in {"allow_always", "deny_always"}
        \/ /\ decision[d].choice = "allow_session"
           /\ approval[decision[d].call].configured \in Modes
    BY <2>1 DEF Decided
  <2> DEFINE new == CASE decision[d].choice = "allow_always"  -> "allow"
                      [] decision[d].choice = "deny_always"   -> "deny"
                      [] decision[d].choice = "allow_session" ->
                            approval[decision[d].call].configured
  <2>3. new \in Modes
    BY <2>2 DEF Modes
  <2>4. /\ permission' \in {new, permission} /\ capability' \in {new, capability}
        /\ UNCHANGED <<connected, stranded>>
    BY <1>4 DEF Store, history
  <2> HIDE DEF new
  <2> QED BY <2>3, <2>4 DEF Typed
<1>5. CASE \E d \in Taps : Resolve(d)
  BY <1>5 DEF Resolve, Typed, policy, history
<1>6. CASE \E d \in Taps, c \in Calls, choice \in Choices : Decide(d, c, choice)
  BY <1>6 DEF Decide, Typed, history
<1> QED
  BY <1>1, <1>2, <1>3, <1>4, <1>5, <1>6, <1>7 DEF UserStep, User, Typed

-----------------------------------------------------------------------------
(* Every step keeps the invariant.                                         *)

LEMMA TypedNext == ChatInv /\ [Next]_vars => Typed'
<1> SUFFICES ASSUME ChatInv, [Next]_vars PROVE Typed'
  OBVIOUS
<1> USE DEF ChatInv
<1>1. CASE \E c \in Calls : CallStep(c)
  <2>1. PICK c \in Calls : CallStep(c)
    BY <1>1
  <2>2. /\ approval' \in [Calls -> ApprovalType]
        /\ audit' \in [Calls -> Statuses]
        /\ UNCHANGED <<scene, policy, decision, stranded>>
    BY <2>1, CallApproval, CallAudit, CallFrame
  <2>3. call' \in [Calls -> CallType]
    <3> USE DEF Typed
    <3>1. CASE Bind(c)
      BY <3>1, Rebinding, Ending DEF Bind, Results
    <3>2. CASE Check(c)
      BY <3>2, Checking
    <3>3. CASE Deny(c)
      BY <3>3, Ending DEF Deny, Results
    <3>4. CASE Ask(c) \/ Announce(c)
      BY <3>4, Going DEF Ask, Announce, CallPcs
    <3>5. CASE Answered(c)
      <4> DEFINE p == IF c[1] \in cancelled THEN "cancel"
                      ELSE IF approval[c].answer = "yes" THEN "approved"
                      ELSE "refused"
      <4>1. p \in CallPcs /\ Goto(c, p)
        BY <3>5 DEF Answered, CallPcs
      <4> HIDE DEF p
      <4> QED BY <4>1, Going
    <3>6. CASE TimeOut(c) \/ SeeCancel(c)
      BY <3>6, Going DEF TimeOut, SeeCancel, CallPcs
    <3>7. CASE Approved(c)
      <4>1. AfterConsent(c) \in CallPcs /\ Goto(c, AfterConsent(c))
        BY <3>7 DEF Approved, AfterConsent, CallPcs
      <4> QED BY <4>1, Going
    <3>8. CASE Unapproved(c)
      BY <3>8, Ending DEF Unapproved, Results
    <3>9. CASE Rebind(c)
      BY <3>9, Rebinding, Ending DEF Rebind, Results
    <3>10. CASE Execute(c)
      BY <3>10, Running
    <3>11. CASE Record(c)
      BY <3>11, Going DEF Record, CallPcs
    <3> QED
      BY <2>1, <3>1, <3>2, <3>3, <3>4, <3>5, <3>6, <3>7, <3>8, <3>9, <3>10,
         <3>11 DEF CallStep
  <2>4. ran' \in [Calls -> BOOLEAN]
    <3>1. CASE Execute(c)
      BY <3>1 DEF Execute, Typed
    <3>2. CASE ~Execute(c)
      <4>1. UNCHANGED ran
        BY <2>1, <3>2 DEF CallStep, Bind, Check, Deny, Ask, Announce, Answered,
           TimeOut, SeeCancel, Approved, Unapproved, Rebind, Record, history
      <4> QED BY <4>1 DEF Typed
    <3> QED BY <3>1, <3>2
  <2> QED BY <2>2, <2>3, <2>4 DEF Typed, policy
<1>2. CASE UserStep
  BY <1>2, UserApproval, UserDecisions, UserPolicy DEF Typed
<1>3. CASE \E k \in Callers : BeginCall(k)
  BY <1>3, Beginning DEF BeginCall, Typed, policy, history
<1>6. CASE \E k \in Callers : OtherCall(k)
  BY <1>6, CallingOther DEF OtherCall, Typed, policy, history
<1>4. ASSUME NEW k \in Callers, Close(k) PROVE Typed'
  <2>1. Closed(k)
    BY <1>4 DEF Close
  <2>2. UNCHANGED <<scene, policy, audit, decision, history>>
    BY <2>1 DEF Closed
  <2> QED BY <2>1, <2>2, Closing DEF Typed, policy, history
<1>5. CASE Frozen
  BY <1>5 DEF Frozen, toolVars, Typed, policy, history
<1> QED
  BY <1>1, <1>2, <1>3, <1>4, <1>5, <1>6, NextCases

LEMMA DecidedNext == ChatInv /\ [Next]_vars => Decided'
<1> SUFFICES ASSUME ChatInv, [Next]_vars PROVE Decided'
  OBVIOUS
<1> USE DEF ChatInv, Chat
<1>1. CASE \E c \in Calls : CallStep(c)
  <2>1. PICK c \in Calls : CallStep(c)
    BY <1>1
  <2>2. UNCHANGED <<scene, decision>>
    BY <2>1, CallFrame
  <2>3. \A d \in Calls :
            /\ approval'[d].pending /\ Chat(d) => approval'[d].configured \in Modes
            /\ approval[d].configured \in Modes /\ Chat(d) =>
                    approval'[d].configured \in Modes
    BY <2>1, CallApproval DEF Decided
  <2> QED BY <2>2, <2>3 DEF Decided
<1>2. CASE UserStep
  BY <1>2, UserApproval, UserDecisions DEF Decided
<1>3. CASE \E k \in Callers : BeginCall(k)
  BY <1>3 DEF BeginCall, Decided
<1>6. CASE \E k \in Callers : OtherCall(k)
  BY <1>6 DEF OtherCall, Decided
<1>4. ASSUME NEW k \in Callers, Close(k) PROVE Decided'
  <2>1. Closed(k) /\ UNCHANGED <<scene, decision>>
    BY <1>4 DEF Close, Closed
  <2> QED BY <2>1, Closing DEF Decided
<1>5. CASE Frozen
  BY <1>5 DEF Frozen, toolVars, Decided
<1> QED
  BY <1>1, <1>2, <1>3, <1>4, <1>5, <1>6, NextCases

\* The way of a call that is past its check, or before it.
Moves(c) ==
    LET from == call[c].pc
        to   == call'[c].pc
    IN  \/ from = "bind" /\ to \in {"check", "done"}
        \/ from = "deny" /\ to = "done"
        \/ from = "ask" /\ to = "announce"
        \/ from = "announce" /\ to = "wait"
        \/ from = "wait" /\ to \in {"refused", "late", "cancel"}
        \/ from = "wait" /\ to = "approved" /\ approval[c].answer = "yes"
        \/ from = "approved" /\ to = AfterConsent(c)
        \/ from \in {"refused", "late", "cancel"} /\ to = "done"
        \/ from = "rebind" /\ to = "done"
        \/ from = "rebind" /\ to = "execute" /\ connected
        \/ from = "execute" /\ to = "record"
        \/ from = "record" /\ to = "done"

LEMMA CallMoves ==
    ASSUME Typed, NEW c \in Calls, CallStep(c), ~Check(c)
    PROVE  /\ Moves(c)
           /\ call'[c].configured = call[c].configured
           /\ call'[c].effective = call[c].effective
           /\ call'[c].granted = call[c].granted
           /\ call'[c].other = call[c].other
           /\ \/ call'[c].result = call[c].result
              \/ /\ call'[c].pc = "done" /\ call[c].pc # "record"
                 /\ call'[c].result \in {"denied", "cancelled"}
              \/ /\ call[c].pc = "execute"
                 /\ call'[c].result \in {"completed", "failed"}
           /\ \A d \in Calls \ {c} : call'[d] = call[d]
           /\ ran' = IF call[c].pc = "execute"
                     THEN [ran EXCEPT ![c] = TRUE] ELSE ran
<1> USE DEF Typed, At, Moves
<1>1. CASE Bind(c)
  BY <1>1, Rebinding, Ending DEF Bind, Results, history
<1>2. CASE Deny(c)
  BY <1>2, Ending DEF Deny, Results, history
<1>3. CASE Ask(c) \/ Announce(c)
  BY <1>3, Going DEF Ask, Announce, CallPcs, history
<1>4. CASE Answered(c)
  <2> DEFINE p == IF c[1] \in cancelled THEN "cancel"
                  ELSE IF approval[c].answer = "yes" THEN "approved"
                  ELSE "refused"
  <2>1. /\ p \in CallPcs /\ Goto(c, p) /\ p \in {"cancel", "approved", "refused"}
        /\ p = "approved" => approval[c].answer = "yes"
    BY <1>4 DEF Answered, CallPcs
  <2>2. At(c, "wait") /\ ran' = ran
    BY <1>4 DEF Answered, history
  <2> HIDE DEF p
  <2> QED BY <2>1, <2>2, Going
<1>5. CASE TimeOut(c) \/ SeeCancel(c)
  BY <1>5, Going DEF TimeOut, SeeCancel, CallPcs, history
<1>6. CASE Approved(c)
  <2>1. AfterConsent(c) \in CallPcs /\ Goto(c, AfterConsent(c))
    BY <1>6 DEF Approved, AfterConsent, CallPcs
  <2> QED BY <1>6, <2>1, Going DEF Approved, history
<1>7. CASE Unapproved(c)
  BY <1>7, Ending DEF Unapproved, Results, history
<1>8. CASE Rebind(c)
  BY <1>8, Rebinding, Ending DEF Rebind, Results, history, Usable
<1>9. CASE Execute(c)
  BY <1>9, Running DEF Execute
<1>10. CASE Record(c)
  BY <1>10, Going DEF Record, CallPcs, history
<1> QED
  BY <1>1, <1>2, <1>3, <1>4, <1>5, <1>6, <1>7, <1>8, <1>9, <1>10 DEF CallStep

LEMMA CheckMoves ==
    ASSUME Typed, NEW c \in Calls, Check(c)
    PROVE  call[c].pc = "check" /\ ran' = ran
  BY DEF Check, At, history

\* What of a call Consent, and the agreement in it, depend on.
LEMMA ConsentNext == ChatInv /\ [Next]_vars => Consent'
<1> SUFFICES ASSUME ChatInv, [Next]_vars PROVE Consent'
  OBVIOUS
<1> USE DEF ChatInv
<1>1. CASE \E c \in Calls : CallStep(c)
  <2>1. PICK c \in Calls : CallStep(c)
    BY <1>1
  <2>2. UNCHANGED scene
    BY <2>1, CallFrame
  <2>3. \A d \in Calls : \/ approval'[d].answer = approval[d].answer
                         \/ d = c /\ call[c].pc = "ask"
    BY <2>1, CallApproval
  <2>4. CASE Check(c)
    <3>1. /\ call[c].pc = "check" /\ ran' = ran
          /\ \A d \in Calls \ {c} : call'[d] = call[d]
          /\ call'[c].pc \in {"deny", "ask", "rebind", "execute"}
      BY <2>4, Checking, CheckMoves
    <3>2. ~ran[c]
      BY <3>1 DEF Told
    <3>3. call'[c].pc = "ask" => /\ call'[c].configured \in {"allow", "ask"}
                                /\ call'[c].effective # "deny"
      BY <2>4, Checking, ModeIsMode DEF Typed, Modes
    <3>4. call'[c].pc \in {"rebind", "execute"} => Agreed(c)'
      <4>1. SUFFICES ASSUME call'[c].pc \in {"rebind", "execute"}
                     PROVE  Agreed(c)'
        OBVIOUS
      <4>2. Mode(c) = "allow"
        BY <2>4, <4>1, Checking, ModeIsMode DEF Modes
      <4> QED BY <2>2, <2>4, <4>2, Checking, ModeIsMode DEF Agreed, Chat, Shape
    <3> QED BY <2>2, <2>3, <3>1, <3>2, <3>3, <3>4 DEF Consent, Agreed, Chat
  <2>5. CASE ~Check(c)
    <3>1. /\ Moves(c)
          /\ call'[c].configured = call[c].configured
          /\ call'[c].effective = call[c].effective
          /\ call'[c].granted = call[c].granted
          /\ call'[c].other = call[c].other
          /\ \A d \in Calls \ {c} : call'[d] = call[d]
          /\ ran' = IF call[c].pc = "execute"
                    THEN [ran EXCEPT ![c] = TRUE] ELSE ran
      BY <2>1, <2>5, CallMoves
    <3>2. AfterConsent(c) \in {"rebind", "execute"}
      BY DEF AfterConsent
    <3>3. ASSUME NEW d \in Calls \ {c}
          PROVE  /\ call'[d] = call[d] /\ ran'[d] = ran[d]
                 /\ approval'[d].answer = approval[d].answer
                 /\ Agreed(d) => Agreed(d)'
      BY <2>2, <2>3, <3>1, <3>3 DEF Agreed, Chat, Typed
    <3>4. call[c].pc # "ask" /\ Agreed(c) => Agreed(c)'
      BY <2>2, <2>3, <3>1 DEF Agreed, Chat
    <3>5. call[c].pc = "approved" => Agreed(c)
      BY DEF Consent, Agreed
    <3>6. ran'[c] => ran[c] \/ call[c].pc = "execute"
      BY <3>1
    <3>7. /\ ran[c] => call[c].pc \in {"record", "done", "closed"}
          /\ ran'[c] => call[c].pc \in {"execute", "record"}
      BY <3>1, <3>6 DEF Told, Moves
    <3> QED BY <2>3, <3>1, <3>2, <3>3, <3>4, <3>5, <3>7 DEF Consent, Moves
  <2> QED BY <2>4, <2>5
<1>2. CASE UserStep
  <2>1. ASSUME NEW c \in Calls, Agreed(c) PROVE Agreed(c)'
    BY <1>2, <2>1, UserApproval DEF Agreed, Chat
  <2> QED BY <1>2, <2>1, UserApproval DEF Consent
<1>3. CASE \E k \in Callers : BeginCall(k)
  <2>1. PICK k \in Callers : BeginCall(k)
    BY <1>3
  <2>2. UNCHANGED <<scene, approval, ran>>
    BY <2>1 DEF BeginCall, history
  <2>3. PICK c \in Calls :
           /\ call[c].pc = "idle" /\ call'[c].pc \in {"bind", "check"}
           /\ \A d \in Calls \ {c} : call'[d] = call[d]
    BY <2>1, Beginning
  <2>4. ~ran[c]
    BY <2>3 DEF Told
  <2> QED BY <2>2, <2>3, <2>4 DEF Consent, Agreed, Chat
<1>6. CASE \E k \in Callers : OtherCall(k)
  <2>1. PICK k \in Callers : OtherCall(k)
    BY <1>6
  <2>2. UNCHANGED <<scene, approval, ran>>
    BY <2>1 DEF OtherCall, history
  <2>3. PICK c \in Calls :
           /\ call[c].pc = "idle" /\ call'[c].pc = "done"
           /\ \A d \in Calls \ {c} : call'[d] = call[d]
    BY <2>1, CallingOther
  <2>4. ~ran[c]
    BY <2>3 DEF Told
  <2> QED BY <2>2, <2>3, <2>4 DEF Consent, Agreed, Chat
<1>4. ASSUME NEW k \in Callers, Close(k) PROVE Consent'
  <2>1. Closed(k) /\ UNCHANGED <<scene, ran>>
    BY <1>4 DEF Close, Closed, history
  <2> QED BY <2>1, Closing DEF Consent, Agreed, Chat
<1>5. CASE Frozen
  BY <1>5 DEF Frozen, toolVars, Consent, Agreed, Chat, history
<1> QED
  BY <1>1, <1>2, <1>3, <1>4, <1>5, <1>6, NextCases

LEMMA StoppedNext == ChatInv /\ [Next]_vars => Stopped'
<1> SUFFICES ASSUME ChatInv, [Next]_vars PROVE Stopped'
  OBVIOUS
<1> USE DEF ChatInv, External
<1>1. CASE \E c \in Calls : CallStep(c)
  <2>1. PICK c \in Calls : CallStep(c)
    BY <1>1
  <2>2. UNCHANGED <<scene, connected, stranded>>
    BY <2>1, CallFrame DEF policy
  <2>3. CASE Check(c)
    <3>1. /\ call[c].pc = "check" /\ ran' = ran
          /\ \A d \in Calls \ {c} : call'[d] = call[d]
      BY <2>3, Checking, CheckMoves
    <3> QED BY <2>2, <3>1 DEF Stopped, Chat
  <2>4. CASE ~Check(c)
    <3>1. /\ Moves(c)
          /\ \A d \in Calls \ {c} : call'[d] = call[d]
          /\ ran' = IF call[c].pc = "execute"
                    THEN [ran EXCEPT ![c] = TRUE] ELSE ran
      BY <2>1, <2>4, CallMoves
    <3>2. Chat(c) /\ External => AfterConsent(c) = "rebind"
      BY DEF AfterConsent
    <3>3. \A d \in Calls \ {c} : ran'[d] = ran[d]
      BY <3>1 DEF Typed
    <3>4. stranded[c] =>
            /\ call'[c].pc \notin {"idle", "bind", "check", "execute", "record"}
            /\ ~ran'[c]
      BY <3>1, <3>2 DEF Stopped, Moves
    <3> QED BY <2>2, <3>1, <3>3, <3>4 DEF Stopped, Chat
  <2> QED BY <2>3, <2>4
<1>2. CASE UserStep
  <2>1. UNCHANGED <<scene, call, ran>>
    BY <1>2, UserApproval
  <2>2. CASE Disconnect
    <3>1. /\ External /\ ~connected'
          /\ \A c \in Calls :
                stranded'[c] = (stranded[c] \/ (Chat(c) /\ StillAsked(c)))
      BY <2>2 DEF Disconnect, Typed
    <3>2. ASSUME NEW c \in Calls, StillAsked(c)
          PROVE  call[c].pc \in {"ask", "announce", "wait"} /\ ~ran[c]
      BY <3>2 DEF StillAsked, At, Told
    <3> QED BY <2>1, <3>1, <3>2 DEF Stopped, Chat
  <2>4. CASE Reconnect
    <3>1. \A c \in Calls : ~stranded'[c]
      BY <2>4 DEF Reconnect
    <3> QED BY <3>1 DEF Stopped
  <2>3. CASE ~Disconnect /\ ~Reconnect
    <3>1. UNCHANGED <<stranded, connected>>
      BY <1>2, <2>3 DEF UserStep, User, Decide, Store, Resolve, SetPermission,
                        ClearGrants, CancelAgent, history, policy
    <3> QED BY <2>1, <3>1 DEF Stopped, Chat
  <2> QED BY <2>2, <2>3, <2>4
<1>3. CASE \E k \in Callers : BeginCall(k)
  <2>1. PICK k \in Callers : BeginCall(k)
    BY <1>3
  <2>2. UNCHANGED <<scene, connected, stranded, ran>>
    BY <2>1 DEF BeginCall, history, policy
  <2>3. PICK c \in Calls :
           /\ call[c].pc = "idle"
           /\ \A d \in Calls \ {c} : call'[d] = call[d]
    BY <2>1, Beginning
  <2> QED BY <2>2, <2>3 DEF Stopped, Chat
<1>6. CASE \E k \in Callers : OtherCall(k)
  <2>1. PICK k \in Callers : OtherCall(k)
    BY <1>6
  <2>2. UNCHANGED <<scene, connected, stranded, ran>>
    BY <2>1 DEF OtherCall, history, policy
  <2>3. PICK c \in Calls :
           /\ call[c].pc = "idle" /\ call'[c].pc = "done"
           /\ \A d \in Calls \ {c} : call'[d] = call[d]
    BY <2>1, CallingOther
  <2> QED BY <2>2, <2>3 DEF Stopped, Chat
<1>4. ASSUME NEW k \in Callers, Close(k) PROVE Stopped'
  <2>1. Closed(k) /\ UNCHANGED <<scene, ran, connected, stranded>>
    BY <1>4 DEF Close, Closed, history, policy
  <2> QED BY <2>1, Closing DEF Stopped, Chat
<1>5. CASE Frozen
  BY <1>5 DEF Frozen, toolVars, Stopped, Chat, history, policy
<1> QED
  BY <1>1, <1>2, <1>3, <1>4, <1>5, <1>6, NextCases

\* What a step of a call says of it in the audit.
LEMMA CallTold ==
    ASSUME ChatInv, NEW c \in Calls, CallStep(c)
    PROVE  /\ \/ audit'[c] = audit[c]
              \/ audit'[c] \in Open
              \/ /\ audit'[c] \in {"completed", "failed"} /\ ran[c]
                 /\ call[c].pc = "record"
              \/ /\ audit'[c] \in {"denied", "timed_out", "cancelled"}
                 /\ call[c].pc # "record" /\ call[c].pc # "execute"
                 /\ call'[c].pc = "done"
              \/ /\ audit'[c] = "denied" /\ call[c].pc = "check"
                 /\ call'[c].pc = "deny"
           /\ audit'[c] # audit[c] => call[c].pc \notin {"done", "closed", "idle"}
<1> USE DEF ChatInv
<1>0. audit \in [Calls -> Statuses] /\ call \in [Calls -> CallType]
  BY DEF Typed
<1>1. call[c].pc \notin {"done", "closed", "idle"}
  BY DEF CallStep, Bind, Check, Deny, Ask, Announce, Answered, TimeOut,
         SeeCancel, Approved, Unapproved, Rebind, Execute, Record, At
<1>2. CASE UNCHANGED audit
  BY <1>1, <1>2
<1>3. CASE Check(c)
  <2>1. CASE Chat(c)
    BY <1>0, <1>1, <1>3, <2>1 DEF Check, Log, Open
  <2>2. CASE ~Chat(c)
    <3>1. Mode(c) = permission /\ permission \in Modes
      BY <2>2 DEF Mode, Effective, Typed
    <3>2. /\ call'[c].pc = "deny" <=> permission = "deny"
          /\ call[c].pc = "check"
      BY <1>3, <3>1, Checking, CheckMoves
    <3>3. audit'[c] = CASE permission = "deny"  -> "denied"
                        [] permission = "ask"   -> "awaiting_approval"
                        [] permission = "allow" -> "approved"
      BY <1>0, <1>3, <2>2 DEF Check, Log
    <3> QED BY <1>1, <3>1, <3>2, <3>3 DEF Modes, Open
  <2> QED BY <2>1, <2>2
<1>4. CASE Deny(c) \/ Unapproved(c)
  BY <1>0, <1>1, <1>4, Ending DEF Deny, Unapproved, Log, At, Results
<1>5. CASE Announce(c) \/ Approved(c)
  BY <1>0, <1>1, <1>5 DEF Announce, Approved, Log, Open
<1>6. CASE Rebind(c)
  BY <1>0, <1>1, <1>2, <1>6, Ending DEF Rebind, Log, At, Results
<1>7. CASE Record(c)
  BY <1>0, <1>1, <1>7 DEF Record, Log, At, Told
<1> QED
  BY <1>2, <1>3, <1>4, <1>5, <1>6, <1>7
     DEF CallStep, Bind, Ask, Answered, TimeOut, SeeCancel, Execute

LEMMA ToldNext == ChatInv /\ [Next]_vars => Told'
<1> SUFFICES ASSUME ChatInv, [Next]_vars PROVE Told'
  OBVIOUS
<1> USE DEF ChatInv
<1>1. CASE \E c \in Calls : CallStep(c)
  <2>1. PICK c \in Calls : CallStep(c)
    BY <1>1
  <2>2. \A d \in Calls \ {c} : audit'[d] = audit[d]
    BY <2>1, CallAudit
  <2>3. CASE Check(c)
    <3>1. /\ call[c].pc = "check" /\ ran' = ran
          /\ \A d \in Calls \ {c} : call'[d] = call[d]
          /\ call'[c].pc \in {"deny", "ask", "rebind", "execute"}
          /\ call'[c].result = call[c].result
      BY <2>3, Checking, CheckMoves
    <3>2. ~ran[c] /\ audit[c] \in Open /\ call[c].result # "completed"
      BY <3>1 DEF Told
    <3>3. \/ audit'[c] \in Open
          \/ audit'[c] = "denied" /\ call'[c].pc = "deny"
      BY <2>1, <3>1, <3>2, CallTold
    <3> QED BY <2>2, <3>1, <3>2, <3>3 DEF Told, Open
  <2>4. CASE ~Check(c)
    <3>1. /\ Moves(c)
          /\ \/ call'[c].result = call[c].result
             \/ /\ call'[c].pc = "done" /\ call[c].pc # "record"
                /\ call'[c].result \in {"denied", "cancelled"}
             \/ /\ call[c].pc = "execute"
                /\ call'[c].result \in {"completed", "failed"}
          /\ \A d \in Calls \ {c} : call'[d] = call[d]
          /\ ran' = IF call[c].pc = "execute"
                    THEN [ran EXCEPT ![c] = TRUE] ELSE ran
      BY <2>1, <2>4, CallMoves
    <3>2. /\ \A d \in Calls \ {c} : ran'[d] = ran[d]
          /\ ran'[c] <=> ran[c] \/ call[c].pc = "execute"
      BY <3>1 DEF Typed
    <3>3. call[c].pc = "execute" => call'[c].result \in {"completed", "failed"}
      <4>1. CASE Execute(c)
        BY <4>1, Running DEF Typed
      <4>2. CASE ~Execute(c)
        BY <2>1, <2>4, <4>2 DEF CallStep, Bind, Deny, Ask, Announce, Answered,
           TimeOut, SeeCancel, Approved, Unapproved, Rebind, Record, At
      <4> QED BY <4>1, <4>2
    <3>4. AfterConsent(c) \in {"rebind", "execute"}
      BY DEF AfterConsent
    <3>5. call'[c].pc \notin {"done", "deny"} => audit'[c] \in Open
      BY <2>1, <3>1, <3>4, CallTold DEF Told, Moves
    <3>6. CASE call[c].pc = "execute"
      BY <2>2, <3>1, <3>2, <3>3, <3>5, <3>6 DEF Told, Moves
    <3>7. CASE call[c].pc = "record"
      <4>1. /\ call'[c].pc = "done" /\ ran[c] /\ call'[c].result = call[c].result
            /\ audit'[c] \in Open \cup {"completed", "failed"}
        BY <2>1, <3>1, <3>7, CallTold DEF Told, Moves
      <4> QED BY <2>2, <3>1, <3>2, <3>7, <4>1 DEF Told, Open
    <3>8. CASE call[c].pc \notin {"execute", "record"}
      <4>1. ~ran[c] /\ ~ran'[c] /\ call[c].result # "completed"
        BY <3>1, <3>2, <3>8 DEF Told, Moves
      <4>2. /\ call'[c].pc \notin {"record", "deny"}
            /\ call'[c].result # "completed"
        BY <3>1, <3>4, <3>8, <4>1 DEF Moves
      <4>3. audit'[c] \in Open \cup {"denied", "timed_out", "cancelled"}
        BY <2>1, <3>8, <4>1, CallTold DEF Told, Open, Typed, Statuses
      <4> QED BY <2>2, <3>1, <3>2, <3>5, <4>1, <4>2, <4>3 DEF Told, Open
    <3> QED BY <3>6, <3>7, <3>8
  <2> QED BY <2>3, <2>4
<1>2. CASE UserStep
  BY <1>2, UserApproval DEF Told
<1>3. CASE \E k \in Callers : BeginCall(k)
  <2>1. PICK k \in Callers : BeginCall(k)
    BY <1>3
  <2>2. UNCHANGED <<audit, ran>>
    BY <2>1 DEF BeginCall, history
  <2>3. PICK c \in Calls :
           /\ call[c].pc = "idle" /\ call'[c].pc \in {"bind", "check"}
           /\ call'[c].result = call[c].result
           /\ \A d \in Calls \ {c} : call'[d] = call[d]
    BY <2>1, Beginning
  <2> QED BY <2>2, <2>3 DEF Told
<1>6. CASE \E k \in Callers : OtherCall(k)
  <2>1. PICK k \in Callers : OtherCall(k)
    BY <1>6
  <2>2. UNCHANGED <<audit, ran>>
    BY <2>1 DEF OtherCall, history
  <2>3. PICK c \in Calls :
           /\ call[c].pc = "idle" /\ call'[c].pc = "done"
           /\ \A d \in Calls \ {c} : call'[d] = call[d]
    BY <2>1, CallingOther
  <2>4. ~ran[c] /\ audit[c] \in Open
    BY <2>3 DEF Told
  <2> QED BY <2>2, <2>3, <2>4 DEF Told
<1>4. ASSUME NEW k \in Callers, Close(k) PROVE Told'
  <2>1. Closed(k) /\ UNCHANGED <<ran, audit>>
    BY <1>4 DEF Close, Closed, history
  <2> QED BY <2>1, Closing DEF Told
<1>5. CASE Frozen
  BY <1>5 DEF Frozen, toolVars, Told, history
<1> QED
  BY <1>1, <1>2, <1>3, <1>4, <1>5, <1>6, NextCases

-----------------------------------------------------------------------------
(* Turns.                                                                  *)

Conclusion == {"none", "prose", "question", "refusal", "error", "last",
               "accepted", "closed"}

\* What a step of a turn must do to its record to keep Turns.
TurnMoved(k, new) ==
    /\ turn' = [turn EXCEPT ![k] = new]
    /\ new \in TurnType
    /\ new.pc = "call" =>
            new.batch >= 1 /\ new.next + new.batch <= MaxCalls + 1
    /\ new.completed =>
            \E c \in Calls : c[1] = k /\ Confirming(c)'
    /\ Wants(k, "write") /\ new.answer = "prose" => new.completed

\* The results of the calls stay, and so does the scene.
Steady == /\ UNCHANGED scene
          /\ \A c \in Calls : /\ call'[c].result = call[c].result
                              /\ call'[c].other = call[c].other

LEMMA OneTurn ==
    ASSUME Turns, Steady, NEW k \in Callers, NEW new,
           TurnMoved(k, new)
    PROVE  Turns'
  BY DEF Turns, TurnMoved, Wants, Steady, Confirming

LEMMA Finishing ==
    ASSUME Turns, Steady, NEW k \in Callers,
           NEW answer \in Conclusion, Finish(k, answer),
           answer = "prose" /\ Wants(k, "write") => turn[k].completed
    PROVE  Turns'
<1> DEFINE new == [turn[k] EXCEPT !.pc = "done", !.answer = answer]
<1>1. turn' = [turn EXCEPT ![k] = new]
  BY DEF Finish
<1>2. turn[k] \in TurnType
  BY DEF Turns
<1>3. /\ new \in TurnType /\ new.pc = "done" /\ new.answer = answer
      /\ new.completed = turn[k].completed
  BY <1>2 DEF TurnType, Conclusion
<1> HIDE DEF new
<1>4. TurnMoved(k, new)
  BY <1>1, <1>3 DEF TurnMoved, Turns, Steady, Confirming
<1> QED
  BY <1>4, OneTurn

LEMMA Asking ==
    ASSUME Turns, Steady, NEW k \in Callers, Turning(k),
           NEW why \in Reasons, Again(k, why)
    PROVE  Turns'
<1> DEFINE retries == [turn[k].retries EXCEPT ![why] = @ + 1]
           new == [turn[k] EXCEPT !.steps = @ + 1, !.retries = retries]
<1>1. turn' = [turn EXCEPT ![k] = new]
  BY DEF Again
<1>2. turn[k] \in TurnType /\ turn[k].steps + 1 \in 0..MaxSteps
  BY ChatTurnsAssumption DEF Turns, TurnType, Turning
<1>3. retries \in RetriesType
  BY <1>2 DEF TurnType, RetriesType
<1> HIDE DEF retries
<1>4. /\ new \in TurnType /\ new.pc = turn[k].pc
      /\ new.batch = turn[k].batch /\ new.next = turn[k].next
      /\ new.answer = turn[k].answer /\ new.completed = turn[k].completed
  BY <1>2, <1>3 DEF TurnType
<1> HIDE DEF new
<1>5. TurnMoved(k, new)
  BY <1>1, <1>4 DEF TurnMoved, Turns, Steady, Confirming
<1> QED
  BY <1>5, OneTurn

LEMMA CallingOn ==
    ASSUME Turns, Steady, NEW k \in Callers, Turning(k),
           NEW n \in 1..MaxCalls, turn[k].next + n <= MaxCalls + 1,
           Calling(k, n)
    PROVE  Turns'
<1> DEFINE empty == [turn[k].retries EXCEPT !.empty = 0]
           retries == [empty EXCEPT !.cut = 0]
           steps == turn[k].steps + 1
           new == [turn[k] EXCEPT !.steps = steps, !.pc = "call", !.batch = n,
                                  !.retries = retries]
<1>1. turn' = [turn EXCEPT ![k] = new]
  BY DEF Calling
<1>2. turn[k] \in TurnType /\ steps \in 0..MaxSteps
  BY ChatTurnsAssumption DEF Turns, TurnType, Turning
<1>3. retries \in RetriesType
  BY <1>2 DEF TurnType, RetriesType, Reasons
<1> HIDE DEF retries, steps
<1>4. /\ new \in TurnType /\ new.pc = "call"
      /\ new.batch = n /\ new.next = turn[k].next
      /\ new.answer = turn[k].answer /\ new.completed = turn[k].completed
  <2>1. n \in 0..MaxCalls
    BY ToolCallsAssumption
  <2> QED BY <1>2, <1>3, <2>1 DEF TurnType
<1> HIDE DEF new
<1>5. TurnMoved(k, new)
  BY <1>1, <1>4 DEF TurnMoved, Turns, Steady, Confirming
<1> QED
  BY <1>5, OneTurn

LEMMA CallEnded ==
    ASSUME Turns, Typed, Frozen, NEW k \in Callers, EndCall(k)
    PROVE  Turns'
<1> DEFINE c == call[Current(k)]
           next == turn[k].next + 1
           batch == turn[k].batch - 1
           attempted == turn[k].attempted \/ (c.announced /\ ~c.other)
           completed == turn[k].completed
                        \/ (c.result = "completed" /\ ~c.other)
           pc == IF turn[k].batch = 1 THEN "model" ELSE "call"
           new == [turn[k] EXCEPT !.next = next, !.batch = batch,
                                  !.attempted = attempted,
                                  !.completed = completed, !.pc = pc]
<1>1. turn' = [turn EXCEPT ![k] = new]
  BY DEF EndCall
<1>2. turn[k] \in TurnType /\ turn[k].pc = "call"
  BY DEF Turns, EndCall
<1>3. Current(k) \in Calls /\ Current(k)[1] = k /\ c \in CallType
  BY <1>2, NextCall DEF Current, Typed
<1>4. /\ next \in 1..(MaxCalls + 1) /\ batch \in 0..MaxCalls
      /\ pc \in {"model", "call"}
      /\ pc = "call" => batch >= 1 /\ next + batch <= MaxCalls + 1
  BY <1>2, ToolCallsAssumption DEF Turns, TurnType
<1>5. attempted \in BOOLEAN /\ completed \in BOOLEAN
  BY <1>2, <1>3 DEF TurnType, CallType
<1>6. completed => \E d \in Calls : d[1] = k /\ Confirming(d)'
  BY <1>3 DEF Turns, Frozen, toolVars, Confirming
<1>7. turn[k].completed => completed
  OBVIOUS
<1> HIDE DEF c, next, batch, attempted, completed, pc
<1>8. /\ new \in TurnType /\ new.pc = pc /\ new.batch = batch
      /\ new.next = next /\ new.completed = completed
      /\ new.answer = turn[k].answer
  BY <1>2, <1>4, <1>5 DEF TurnType
<1> HIDE DEF new
<1>9. TurnMoved(k, new)
  BY <1>1, <1>4, <1>6, <1>7, <1>8 DEF TurnMoved, Turns
<1> QED
  BY <1>9, OneTurn DEF Steady, Frozen, toolVars

LEMMA Concluded ==
    ASSUME Turns, Frozen, NEW k \in Callers, Conclude(k)
    PROVE  Turns'
<1>0. Steady
  BY DEF Steady, Frozen, toolVars
<1>1. PICK text \in Texts \ {"empty"}, cut \in BOOLEAN, repaired \in Texts :
        LET draft == Draft(k, text)
            fixes == cut /\ turn[k].retries.cut < 1
            final == IF fixes /\ Used(k) /\ repaired # "empty" THEN repaired
                     ELSE draft
            retries == [turn[k].retries EXCEPT
                            !.write = @ + 1, !.cut = IF fixes THEN @ + 1 ELSE @]
        IN  \E conclusion \in Conclusions(k, final) :
                    IF conclusion = "again"
                    THEN turn' = [turn EXCEPT ![k] = [turn[k] EXCEPT
                                    !.steps = @ + 1, !.retries = retries]]
                    ELSE Finish(k, conclusion)
  BY DEF Conclude
<1> DEFINE draft == Draft(k, text)
           fixes == cut /\ turn[k].retries.cut < 1
           final == IF fixes /\ Used(k) /\ repaired # "empty" THEN repaired
                    ELSE draft
           retries == [turn[k].retries EXCEPT
                           !.write = @ + 1, !.cut = IF fixes THEN @ + 1 ELSE @]
<1>2. final \in {"prose", "question", "refusal"}
  BY DEF Draft, Texts
<1>3. PICK conclusion \in Conclusions(k, final) :
        IF conclusion = "again"
        THEN turn' = [turn EXCEPT ![k] = [turn[k] EXCEPT
                                    !.steps = @ + 1, !.retries = retries]]
        ELSE Finish(k, conclusion)
  BY <1>1
<1> HIDE DEF draft, fixes, final, retries
<1>4. CASE conclusion = "again"
  <2> DEFINE steps == turn[k].steps + 1
             new == [turn[k] EXCEPT !.steps = steps, !.retries = retries]
  <2>1. turn[k] \in TurnType /\ steps \in 0..MaxSteps
    BY ChatTurnsAssumption
       DEF Turns, TurnType, Conclude, Concluding, Prose, Turning
  <2>2. turn' = [turn EXCEPT ![k] = new]
    BY <1>3, <1>4
  <2>3. retries \in RetriesType
    <3> DEFINE write == [turn[k].retries EXCEPT !.write = @ + 1]
    <3>1. write \in RetriesType
      BY <2>1 DEF TurnType, RetriesType, Reasons
    <3>2. retries = [write EXCEPT !.cut = IF fixes THEN @ + 1 ELSE @]
      BY DEF retries
    <3> HIDE DEF write
    <3> QED BY <3>1, <3>2 DEF RetriesType, Reasons
  <2> HIDE DEF steps
  <2>4. /\ new \in TurnType /\ new.pc = turn[k].pc
        /\ new.batch = turn[k].batch /\ new.next = turn[k].next
        /\ new.answer = turn[k].answer /\ new.completed = turn[k].completed
    BY <2>1, <2>3 DEF TurnType
  <2> HIDE DEF new
  <2>5. TurnMoved(k, new)
    BY <1>0, <2>2, <2>4 DEF TurnMoved, Turns, Steady, Confirming
  <2> QED BY <1>0, <2>5, OneTurn
<1>5. CASE conclusion # "again"
  <2>1. /\ conclusion \in {"prose", "question", "refusal"}
        /\ conclusion = "prose" /\ Wants(k, "write") => turn[k].completed
    BY <1>2, <1>5 DEF Conclusions
  <2>2. Finish(k, conclusion)
    BY <1>3, <1>5
  <2> QED BY <1>0, <2>1, <2>2, Finishing DEF Conclusion
<1> QED
  BY <1>4, <1>5

LEMMA TurnsNext == ChatInv /\ [Next]_vars => Turns'
<1> SUFFICES ASSUME ChatInv, [Next]_vars PROVE Turns'
  OBVIOUS
<1> USE DEF ChatInv
<1>1. ASSUME UNCHANGED <<scene, turn>>,
             \A c \in Calls : Confirming(c) => Confirming(c)'
      PROVE  Turns'
  BY <1>1 DEF Turns, Wants
<1>2. CASE (\E c \in Calls : CallStep(c)) /\ UNCHANGED turn
  <2>1. PICK c \in Calls : CallStep(c)
    BY <1>2
  <2>2. call[c].result = "completed" => call[c].pc \in {"record", "done", "closed"}
    BY DEF Told
  <2>3. CASE Check(c)
    BY <1>1, <1>2, <2>1, <2>3, CallFrame, Checking DEF Confirming
  <2>4. CASE ~Check(c)
    <3>1. /\ \/ call'[c].result = call[c].result
             \/ call[c].result # "completed"
          /\ call'[c].other = call[c].other
          /\ \A d \in Calls \ {c} : call'[d] = call[d]
      BY <2>1, <2>2, <2>4, CallMoves DEF Moves
    <3> QED BY <1>1, <1>2, <2>1, <3>1, CallFrame DEF Confirming
  <2> QED BY <2>3, <2>4
<1>3. CASE UserStep /\ UNCHANGED turn
  BY <1>1, <1>3, UserApproval DEF Confirming
<1>4. CASE (\E k \in Callers : BeginCall(k)) /\ UNCHANGED turn
  BY <1>1, <1>4, Beginning DEF BeginCall, Confirming
<1>8. CASE (\E k \in Callers : OtherCall(k)) /\ UNCHANGED turn
  <2>1. PICK k \in Callers : OtherCall(k)
    BY <1>8
  <2>2. PICK c \in Calls :
           /\ call[c].pc = "idle"
           /\ \A d \in Calls \ {c} : call'[d] = call[d]
    BY <2>1, CallingOther
  <2>3. call[c].result # "completed"
    BY <2>2 DEF Told
  <2> QED BY <1>1, <1>8, <2>1, <2>2, <2>3 DEF OtherCall, Confirming
<1>5. ASSUME NEW k \in Callers, Close(k) PROVE Turns'
  <2>1. Closed(k) /\ UNCHANGED scene /\ Finish(k, "closed")
    BY <1>5 DEF Close, Closed
  <2>2. Steady
    BY <2>1, Closing DEF Steady
  <2> QED BY <2>1, <2>2, Finishing DEF Conclusion
<1>6. ASSUME NEW k \in Callers, TurnStep(k), Frozen PROVE Turns'
  <2>0. Steady
    BY <1>6 DEF Steady, Frozen, toolVars
  <2>1. CASE ModelCalls(k)
    BY <2>0, <2>1, CallingOn DEF ModelCalls
  <2>2. CASE AutoCall(k)
    <3>1. /\ Turning(k) /\ Calling(k, 1) /\ turn[k].next + 1 <= MaxCalls + 1
          /\ 1 \in 1..MaxCalls
      BY <2>2, ToolCallsAssumption DEF AutoCall, Turns, TurnType
    <3> QED BY <2>0, <3>1, CallingOn
  <2>3. CASE AskForTool(k)
    BY <2>0, <2>3, Asking DEF AskForTool, Prose, Reasons
  <2>4. CASE AskForText(k)
    BY <2>0, <2>4, Asking, Finishing
       DEF AskForText, Concluding, Prose, Reasons, Conclusion
  <2>5. CASE AskForRest(k)
    BY <2>0, <2>5, Asking DEF AskForRest, Concluding, Prose, Reasons
  <2>6. CASE Conclude(k)
    BY <1>6, <2>6, Concluded
  <2>7. CASE Limit(k)
    BY <2>0, <2>7, Finishing DEF Limit, Conclusion
  <2>8. CASE BeginCall(k)
    BY <1>1, <1>6, <2>8 DEF BeginCall, Frozen, toolVars, Confirming
  <2>11. CASE OtherCall(k)
    BY <1>1, <1>6, <2>11 DEF OtherCall, Frozen, toolVars, Confirming
  <2>9. CASE EndCall(k)
    BY <1>6, <2>9, CallEnded
  <2>10. CASE Acknowledge(k) \/ AgentReturns(k)
    BY <2>0, <2>10, Finishing DEF Acknowledge, AgentReturns, Conclusion
  <2> QED
    BY <1>6, <2>1, <2>2, <2>3, <2>4, <2>5, <2>6, <2>7, <2>8, <2>9, <2>10,
       <2>11 DEF TurnStep
<1>7. CASE Frozen /\ UNCHANGED turn
  BY <1>1, <1>7 DEF Frozen, toolVars, Confirming
<1> QED
  BY <1>2, <1>3, <1>4, <1>5, <1>6, <1>7, <1>8, NextCases

-----------------------------------------------------------------------------
(* The initial states, and the invariant for good.                         *)

LEMMA ChatInit == Init => ChatInv
<1> SUFFICES ASSUME Init PROVE ChatInv
  OBVIOUS
<1> USE DEF Init, ToolInit
<1>1. /\ NoCall \in CallType /\ NoCall.pc = "idle" /\ NoCall.result = "none"
      /\ NoApproval \in ApprovalType /\ NoApproval.pending = FALSE
      /\ NoDecision \in DecisionType /\ NoDecision.pc = "idle"
  BY DEF NoCall, CallType, CallPcs, Modes, Results, NoApproval, ApprovalType,
         NoDecision, DecisionType
<1>2. Typed
  <2>1. permission \in Modes /\ capability \in Modes
    BY ToolCallsAssumption
  <2> QED BY <1>1, <2>1 DEF Typed, Statuses
<1>3. Decided
  BY <1>1 DEF Decided
<1>4. Consent /\ Stopped /\ Told
  BY <1>1 DEF Consent, Stopped, Told, Open
<1>5. Turns
  <2>1. NoRetries \in RetriesType
    BY DEF NoRetries, RetriesType, Reasons
  <2>2. /\ 0 \in 0..MaxSteps /\ 1 \in 1..(MaxCalls + 1)
        /\ {0, 1} \subseteq 0..MaxCalls /\ 2 <= MaxCalls + 1
    BY ToolCallsAssumption, ChatTurnsAssumption
  <2>3. ASSUME NEW k \in Callers
        PROVE  /\ NewTurn(k) \in TurnType /\ NewTurn(k).pc = "model"
               /\ NewTurn(k).next = 1 /\ NewTurn(k).completed = FALSE
               /\ NewTurn(k).answer = "none"
    BY <2>1, <2>2 DEF NewTurn, TurnType
  <2>4. ASSUME NEW k \in Callers
        PROVE  /\ Started(k) \in TurnType
               /\ Started(k).completed = FALSE /\ Started(k).answer = "none"
               /\ Started(k).pc = "call" =>
                    Started(k).batch = 1 /\ Started(k).next = 1
    BY <2>2, <2>3 DEF Started, TurnType
  <2>5. /\ turn \in [Callers -> TurnType]
        /\ \A k \in Callers : turn[k] = Started(k)
    BY <2>4
  <2>6. MaxCalls \in Nat /\ 1 + 1 <= MaxCalls + 1 /\ 1 >= 1
    BY ToolCallsAssumption
  <2> QED BY <2>4, <2>5, <2>6 DEF Turns
<1> QED
  BY <1>2, <1>3, <1>4, <1>5 DEF ChatInv

\* The invariant is inductive.
LEMMA ChatInvAlways == Spec => []ChatInv
<1>1. ChatInv /\ [Next]_vars => ChatInv'
  BY TypedNext, DecidedNext, ConsentNext, StoppedNext, ToldNext, TurnsNext
     DEF ChatInv
<1> QED
  BY ChatInit, <1>1, PTL DEF Spec

-----------------------------------------------------------------------------
(* The theorems.                                                           *)

\* Every variable keeps its type; a turn never exceeds its steps and calls.
THEOREM TypeCorrect == Spec => []TypeOK
<1>1. ChatInv => TypeOK
  BY DEF ChatInv, Typed, Turns, TypeOK, CallType, ApprovalType, TurnType
<1> QED
  BY ChatInvAlways, <1>1, PTL

\* No tool is run that was found denied, or that had to be asked for and was
\* not agreed to, whatever the user changes or answers meanwhile.
THEOREM AlwaysRunsAsAgreed == Spec => []RunsAsAgreed
<1>1. ChatInv => RunsAsAgreed
  BY DEF ChatInv, Consent, Agreed, RunsAsAgreed
<1> QED
  BY ChatInvAlways, <1>1, PTL

\* An action that waits for the user when its connection goes is not carried
\* out, as long as the same account has not been connected again.
THEOREM LostConnectionAlwaysStops == Spec => []LostConnectionStops
<1>1. ChatInv => LostConnectionStops
  BY DEF ChatInv, Stopped, LostConnectionStops
<1> QED
  BY ChatInvAlways, <1>1, PTL

\* A calendar turn confirms in prose only after a call of its write tool was
\* completed; another tool's does not count.
THEOREM AlwaysConfirmedOrRefused == Spec => []ConfirmedOrRefused
<1>1. ChatInv => ConfirmedOrRefused
  BY DEF ChatInv, Turns, ConfirmedOrRefused, Confirming
<1> QED
  BY ChatInvAlways, <1>1, PTL

\* The audit answers for a call as AnswerOnce promises: once, for good, and
\* with the truth about whether the tool ran.
THEOREM AuditAnswersOnce == Spec => AuditedOnce
<1> DEFINE answer == [c \in Calls |-> IF audit[c] \in Open THEN <<>>
                                      ELSE <<audit[c], ran[c]>>]
           Answers == ({"completed", "failed"} \X {TRUE})
                      \cup ({"denied", "timed_out", "cancelled"} \X {FALSE})
<1>1. Init => Audit!Init
  <2> SUFFICES ASSUME Init PROVE answer = [r \in Calls |-> <<>>]
    BY DEF Audit!Init, Open
  <2> QED BY DEF Init, ToolInit, Open
<1>2. ChatInv /\ [Next]_vars => [Audit!Next]_answer
  <2> SUFFICES ASSUME ChatInv, [Next]_vars
               PROVE  \/ answer' = answer
                      \/ \E c \in Calls :
                            /\ answer[c] = <<>> /\ answer'[c] \in Answers
                            /\ answer' = [answer EXCEPT ![c] = answer'[c]]
    BY DEF Audit!Next, Audit!Answer, Open
  <2> USE DEF ChatInv
  <2>1. CASE UNCHANGED <<audit, ran>>
    BY <2>1
  <2>2. CASE \E c \in Calls : CallStep(c)
    <3>1. PICK c \in Calls : CallStep(c)
      BY <2>2
    <3>2. \A d \in Calls \ {c} : audit'[d] = audit[d] /\ ran'[d] = ran[d]
      <4>1. CASE Check(c)
        BY <3>1, <4>1, CallAudit, CheckMoves
      <4>2. CASE ~Check(c)
        BY <3>1, <4>2, CallAudit, CallMoves DEF Typed
      <4> QED BY <4>1, <4>2
    <3>3. \A d \in Calls \ {c} : answer'[d] = answer[d]
      BY <3>2
    <3>4. answer' = [answer EXCEPT ![c] = answer'[c]]
      BY <3>3
    <3>5. CASE audit[c] \in Open
      <4>1. CASE audit'[c] \in Open
        <5>1. answer'[c] = answer[c]
          BY <3>5, <4>1
        <5> QED BY <3>4, <5>1
      <4>2. CASE audit'[c] \notin Open
        <5>1. audit'[c] \in Statuses /\ ran'[c] \in BOOLEAN
          BY TypedNext DEF Typed
        <5>2. ran'[c] <=> audit'[c] \in {"completed", "failed"}
          BY <4>2, ToldNext DEF Told
        <5>3. answer'[c] \in Answers
          BY <4>2, <5>1, <5>2 DEF Statuses, Open
        <5>4. answer[c] = <<>>
          BY <3>5
        <5> QED BY <3>4, <5>3, <5>4
      <4> QED BY <4>1, <4>2
    <3>6. CASE audit[c] \notin Open
      <4>1. call[c].pc = "deny" /\ audit[c] = "denied" /\ ~ran[c]
        <5>1. call[c].pc \in {"deny", "done", "closed"}
          BY <3>6 DEF Told
        <5>2. call[c].pc \notin {"done", "closed"}
          BY <3>1 DEF CallStep, Bind, Check, Deny, Ask, Announce, Answered,
             TimeOut, SeeCancel, Approved, Unapproved, Rebind, Execute, Record,
             At
        <5> QED BY <3>6, <5>1, <5>2 DEF Told
      <4>2. audit' = audit /\ ran' = ran
        <5>1. Deny(c)
          BY <3>1, <4>1 DEF CallStep, Bind, Check, Ask, Announce, Answered,
             TimeOut, SeeCancel, Approved, Unapproved, Rebind, Execute, Record,
             At
        <5> QED BY <4>1, <5>1 DEF Deny, Log, history, Typed
      <4> QED BY <4>2
    <3> QED BY <3>5, <3>6
  <2>3. CASE UserStep
    BY <2>1, <2>3, UserApproval
  <2>4. CASE \E k \in Callers : BeginCall(k)
    BY <2>1, <2>4 DEF BeginCall, history
  <2>7. CASE \E k \in Callers : OtherCall(k)
    BY <2>1, <2>7 DEF OtherCall, history
  <2>5. CASE \E k \in Callers : Close(k)
    BY <2>1, <2>5 DEF Close, Closed, history
  <2>6. CASE Frozen
    BY <2>1, <2>6 DEF Frozen, toolVars, history
  <2> QED BY <2>2, <2>3, <2>4, <2>5, <2>6, <2>7, NextCases
<1> QED
  BY <1>1, <1>2, ChatInvAlways, PTL DEF Spec, AuditedOnce, Audit!Spec, Open
=============================================================================
