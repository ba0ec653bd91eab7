----------------------------- MODULE ToolCalls -----------------------------
(***************************************************************************)
(* Tool calls at the MCP boundary: create_candidate with its approval      *)
(* (approval.py) and its two audit emissions (audit.py), and the read      *)
(* tools with their single one.  Their requests go through the client's    *)
(* contract: CallContract is composed in, one "invocation" per call, so    *)
(* what is shown here rests only on what Resilience is proved to keep.     *)
(*                                                                         *)
(* One action is what one asyncio task does between two awaits: the        *)
(* elicitation, the client's request, the closing of the client.           *)
(* Jobvite acts on its own: a POST that was sent may create its row at     *)
(* any time, even after the caller was answered.                           *)
(***************************************************************************)
EXTENDS CallContract

VARIABLES
    pc,       \* per call: where its coroutine is
    tool,     \* per call: which kind of tool was called
    host,     \* per call: the protocol era, and the response the host gave
    trail,    \* per call: the audit record written in each phase
    reply,    \* per call: what the caller received
    landed    \* per call: has Jobvite created a row for its POST

tvars == <<pc, tool, host, trail, reply, landed>>
allvars == <<cvars, tvars>>

-----------------------------------------------------------------------------
(* Values *)

Eras == {"modern", "handshake", "unknown"}

\* A response's action, and the value under "approve" in its content.
Responses == [action : {"accept", "decline"}, approve : {"true", "false", "truthy", "absent"}]

NoResponse == [action |-> "none", approve |-> "absent"]        \* not asked, or not answered
NoHandler  == [action |-> "no_handler", approve |-> "absent"]  \* the host cannot be asked

Phases == {"before", "read", "after"}         \* AuditPhase
NoRecord == [approval |-> "none", mechanism |-> "none", status |-> "none"]

Records == [approval  : {"none", "pending", "approved", "refused", "unavailable"},
            mechanism : {"none", "mrtr", "elicitation", "no_handler"},
            status    : {"success", "error"}]

Problems == {"forbidden", "conflict", "upstream", "unavailable", "internal"}

\* "warned" is success with a warnings array; the two errors are exceptions
\* that leave the tool; "gone" is a caller that cancelled.
Results == {"pending", "result", "warned", "audit_error", "host_error", "gone"} \cup Problems

TInit ==
    /\ CInit
    /\ pc = [c \in Invocations |-> "idle"]
    /\ tool = [c \in Invocations |-> "none"]
    /\ host = [c \in Invocations |-> [era |-> "unknown", response |-> NoResponse]]
    /\ trail = [c \in Invocations |-> [p \in Phases |-> NoRecord]]
    /\ reply = [c \in Invocations |-> "none"]
    /\ landed = [c \in Invocations |-> FALSE]

-----------------------------------------------------------------------------
(* approval.py *)

\* Mutant: an accepted response is an approval whatever it carries.
ApprovesActionOnly(r) == r.action = "accept"

\* _approved_by_conjunction, and the same conjunction on the elicitation leg.
Approves(r) == r.action = "accept" /\ r.approve = "true"

\* ApprovalMechanism of a call on this era.
Mechanism(era) == CASE era = "modern"    -> "mrtr"
                    [] era = "handshake" -> "elicitation"
                    [] OTHER             -> "no_handler"

\* ApprovalState of a settled decision.
Decision(era, r) ==
    IF era = "unknown" THEN "unavailable"
    ELSE IF Approves(r) THEN "approved" ELSE "refused"

-----------------------------------------------------------------------------
(* audit.py *)

\* emit, when the sink takes the record and when it does not.
Emit(c, phase, written, approval, mechanism, status) ==
    trail' = IF written
             THEN [trail EXCEPT ![c][phase] =
                     [approval |-> approval, mechanism |-> mechanism, status |-> status]]
             ELSE trail

End(c, result) ==
    /\ pc' = [pc EXCEPT ![c] = "done"]
    /\ reply' = [reply EXCEPT ![c] = result]

-----------------------------------------------------------------------------
(* create_candidate *)

\* The MRTR first leg is returned to the caller.
FirstLeg(c, written) ==
    /\ Emit(c, "before", written, "pending", "mrtr", "success")
    /\ End(c, IF written THEN "pending" ELSE "audit_error")
    /\ UNCHANGED <<cvars, landed>>

\* Every refusal path: audited, answered, and no client call made.
RefuseWrite(c, era, r, written) ==
    /\ Emit(c, "before", written, Decision(era, r), Mechanism(era), "error")
    /\ End(c, IF written THEN "forbidden" ELSE "audit_error")
    /\ UNCHANGED <<cvars, landed>>

\* The client is called: refused at once, or on its way.
CallClient(c, m) ==
    /\ Start(c) \/ Refuse(c)
    /\ method'[c] = m
    /\ pc' = [pc EXCEPT ![c] = IF waiting'[c] THEN "requesting" ELSE "closing"]
    /\ UNCHANGED <<reply, landed>>

\* Approved: no audit, no write.
PerformWrite(c, era, r, written) ==
    /\ Emit(c, "before", written, "approved", Mechanism(era), "success")
    /\ IF written THEN CallClient(c, "POST")
       ELSE End(c, "audit_error") /\ UNCHANGED <<cvars, landed>>

\* A settled answer r on a call of this era.
Settle(c, era, r) ==
    \E written \in BOOLEAN :
        IF Decision(era, r) = "approved" THEN PerformWrite(c, era, r, written)
                                         ELSE RefuseWrite(c, era, r, written)

\* create_candidate is called.  On the modern era the response, if there is
\* one, arrives with the call; the handshake era asks and waits; an era
\* nobody has measured is refused.
CreateCandidate(c, era, r) ==
    /\ pc[c] = "idle"
    /\ era # "modern" => r = NoResponse
    /\ tool' = [tool EXCEPT ![c] = "write"]
    /\ host' = [host EXCEPT ![c] = [era |-> era, response |-> r]]
    /\ CASE era = "modern" /\ r = NoResponse -> \E written \in BOOLEAN : FirstLeg(c, written)
         [] era = "handshake"                -> /\ pc' = [pc EXCEPT ![c] = "eliciting"]
                                                /\ UNCHANGED <<cvars, trail, reply, landed>>
         [] OTHER                            -> Settle(c, era, r)

\* ctx.elicit returns.
HostAnswers(c, r) ==
    /\ pc[c] = "eliciting"
    /\ host' = [host EXCEPT ![c].response = r]
    /\ Settle(c, "handshake", r)
    /\ UNCHANGED tool

\* ctx.elicit raises: the host has no handler, or its content does not
\* validate under the strict schema.  Nothing in the tool catches it.
ElicitRaises(c, r) ==
    /\ pc[c] = "eliciting"
    /\ r = NoHandler \/ (r.action = "accept" /\ r.approve \in {"truthy", "absent"})
    /\ host' = [host EXCEPT ![c].response = r]
    /\ End(c, "host_error")
    /\ UNCHANGED <<cvars, tool, trail, landed>>

-----------------------------------------------------------------------------
(* The read tools *)

ReadTool(c) ==
    /\ pc[c] = "idle"
    /\ tool' = [tool EXCEPT ![c] = "read"]
    /\ CallClient(c, "GET")
    /\ UNCHANGED <<host, trail>>

-----------------------------------------------------------------------------
(* The request, and what follows it *)

\* Jobvite creates the row of a POST it has received: before or after it
\* answers, or with an answer that never arrives or cannot be read, but not
\* when it reports the candidate as a duplicate.
Land(c) ==
    /\ method[c] = "POST" /\ sent[c] > 0 /\ ~landed[c]
    /\ reply[c] # "conflict"
    /\ landed' = [landed EXCEPT ![c] = TRUE]
    /\ UNCHANGED <<cvars, pc, tool, host, trail, reply>>

\* The client sends a read again.
ClientResends(c) == Resend(c) /\ UNCHANGED tvars

\* The request returns or raises; the client is then closed.
ClientAnswers(c) ==
    /\ pc[c] = "requesting"
    /\ Finish(c)
    /\ answer'[c] # "cancelled"
    /\ method[c] = "POST" /\ answer'[c] = "ok" => landed[c]
    /\ pc' = [pc EXCEPT ![c] = "closing"]
    /\ UNCHANGED <<tool, host, trail, reply, landed>>

\* problem_from_exception of what request() raised.
ProblemOf(o) == CASE o \in Refusals \cup {"unreachable", "rate_limited"} -> "unavailable"
                  [] OTHER                                               -> "upstream"

\* A read is answered: the sink's failure costs the record, not the answer.
\* A payload the tool cannot map is a problem too.
AnswerRead(c) ==
    /\ pc[c] = "closing" /\ tool[c] = "read"
    /\ \E written \in BOOLEAN, result \in {"result", ProblemOf(answer[c]), "internal"} :
          /\ result = ProblemOf(answer[c]) <=> answer[c] # "ok"
          /\ Emit(c, "read", written, "none", "none", IF result = "result" THEN "success" ELSE "error")
          /\ End(c, result)
    /\ UNCHANGED <<cvars, tool, host, landed>>

\* Mutant: an audit failure after the write is answered with a problem object.
AfterSuccessRaises(c, written) == IF written THEN "result" ELSE "internal"

\* attach_audit_warnings: success with a warning, never an error.
AfterSuccess(c, written) == IF written THEN "result" ELSE "warned"

\* Mutant: the failure branch returns emit's warning like the success branch.
AfterFailureWarns(c, written, result) == IF written THEN result ELSE "warned"

\* On the failure path emit's return value is discarded.
AfterFailure(c, written, result) == result

\* Mutant: result_status keeps its default on the failure path.
StatusAfterStale(o) == "success"

\* result_status of the record that follows a request.
StatusAfter(o) == IF o = "ok" THEN "success" ELSE "error"

\* The write has an outcome.  A 409 among the rejections is a conflict.
AnswerWrite(c) ==
    LET decided == trail[c]["before"]
    IN  /\ pc[c] = "closing" /\ tool[c] = "write"
        /\ \E written \in BOOLEAN :
              /\ Emit(c, "after", written, decided.approval, decided.mechanism,
                      StatusAfter(answer[c]))
              /\ IF answer[c] = "ok" THEN End(c, AfterSuccess(c, written))
                 ELSE \E result \in {ProblemOf(answer[c]), "conflict"} :
                        /\ result = "conflict" => answer[c] = "rejected" /\ ~landed[c]
                        /\ End(c, AfterFailure(c, written, result))
        /\ UNCHANGED <<cvars, tool, host, landed>>

\* The caller goes away: CancelledError at the await.  No except clause of a
\* tool catches it, so nothing more is audited.
CallerLeaves(c) ==
    /\ \/ pc[c] \in {"eliciting", "closing"} /\ UNCHANGED cvars
       \/ pc[c] = "requesting" /\ Finish(c) /\ answer'[c] = "cancelled"
    /\ End(c, "gone")
    /\ UNCHANGED <<tool, host, trail, landed>>

RecoveryPasses == HalfOpen /\ UNCHANGED tvars

Call(c) ==
    \/ \E era \in Eras, r \in Responses \cup {NoResponse} : CreateCandidate(c, era, r)
    \/ \E r \in Responses : HostAnswers(c, r)
    \/ \E r \in Responses \cup {NoHandler} : ElicitRaises(c, r)
    \/ ReadTool(c)
    \/ Land(c)
    \/ ClientResends(c)
    \/ ClientAnswers(c)
    \/ AnswerRead(c)
    \/ AnswerWrite(c)
    \/ CallerLeaves(c)

TNext == RecoveryPasses \/ \E c \in Invocations : Call(c)

TSpec == TInit /\ [][TNext]_allvars

-----------------------------------------------------------------------------
(* Properties *)

\* Every variable stays within its type.
TTypeOK ==
    /\ gate \in {"closed", "open", "half_open"}
    /\ waiting \in [Invocations -> BOOLEAN]
    /\ method \in [Invocations -> {"GET", "POST"}]
    /\ sent \in [Invocations -> 0..MaxSends]
    /\ answer \in [Invocations -> Answers \cup {"none"}]
    /\ pc \in [Invocations -> {"idle", "eliciting", "requesting", "closing", "done"}]
    /\ tool \in [Invocations -> {"none", "read", "write"}]
    /\ host \in [Invocations -> [era : Eras, response : Responses \cup {NoResponse, NoHandler}]]
    /\ trail \in [Invocations -> [Phases -> Records \cup {NoRecord}]]
    /\ reply \in [Invocations -> Results \cup {"none"}]
    /\ landed \in [Invocations -> BOOLEAN]

\* DESIGN 5.3 and 7.5: no row without an approving response on an era the
\* server recognises AND a record of that approval already written: whatever
\* the sink, the host, the network and Jobvite do, in any order.
NoRowUnauthorised ==
    \A c \in Invocations : landed[c] =>
        /\ host[c].response = [action |-> "accept", approve |-> "true"]
        /\ host[c].era # "unknown"
        /\ trail[c]["before"].approval = "approved"

\* What a caller is told of a write is true at that moment and stays true: a
\* success has its row, and a refusal (by the host, the audit, the breaker or
\* the budget), a first leg and a conflict never get one, although a row may
\* still appear after the answer.
ToldTheTruth ==
    \A c \in Invocations : tool[c] = "write" =>
        /\ reply[c] \in {"result", "warned"} => landed[c]
        /\ reply[c] \in {"pending", "forbidden", "conflict", "audit_error", "host_error"}
              => ~landed[c]
        /\ answer[c] \in Refusals => ~landed[c]

\* "Success with a warning, never an error" (DESIGN 5.3): a POST Jobvite
\* answered with success is never reported as a failure, whatever the sink
\* does, because the caller would repeat it; and the warning is given exactly
\* when the second record is missing.
SuccessStaysSuccess ==
    \A c \in Invocations : tool[c] = "write" /\ pc[c] = "done" =>
        /\ answer[c] = "ok" => reply[c] \in {"result", "warned", "gone"}
        /\ reply[c] = "warned" <=> answer[c] = "ok" /\ reply[c] # "gone"
                                   /\ trail[c]["after"] = NoRecord

\* The two records of a write belong together: the second repeats the
\* approval of the first, says success only of a row that exists, and a call
\* that was told of a plain success left both.
TrailConsistent ==
    \A c \in Invocations :
        LET before == trail[c]["before"]
            after == trail[c]["after"]
        IN  /\ after # NoRecord => /\ before.approval = "approved"
                                   /\ after.approval = before.approval
                                   /\ after.mechanism = before.mechanism
                                   /\ after.status = "success" => landed[c]
            /\ tool[c] = "write" /\ reply[c] = "result" =>
                  before.approval = "approved" /\ after.status = "success"

=============================================================================
