---------------------------- MODULE HttpBoundary ----------------------------
(***************************************************************************)
(* The HTTP boundary: the request-body limit, which is ASGI middleware     *)
(* around the whole application (BodySizeLimitMiddleware), and the request *)
(* id, which RequestIdMiddleware and audit_scope bind in a ContextVar so   *)
(* that code which never sees the call can log it.                         *)
(*                                                                         *)
(* A worker is a task's context that serves one request after another.  The*)
(* workers interleave at every await: of the body, of the application, of  *)
(* the tool.  The application between the two middleware layers is the     *)
(* framework's: it may begin its response at any time.                     *)
(***************************************************************************)
EXTENDS Integers, Sequences

CONSTANTS
    Workers,           \* contexts that serve requests
    CallerIds,         \* valid UUIDv4s that callers may send
    Minted,            \* the ids uuid4 may produce
    NoId,              \* no X-Request-ID, or one that is not a UUIDv4; nothing bound
    Limit,             \* MAX_REQUEST_BODY_BYTES
    Sizes,             \* sizes a body may really have
    NoLength           \* no usable Content-Length

ASSUME BoundaryAssumption ==
    /\ Limit \in Nat
    /\ Sizes \subseteq Nat
    /\ NoLength \notin Nat
    /\ CallerIds \cap Minted = {}
    /\ NoId \notin CallerIds \cup Minted

VARIABLES
    pc,       \* per worker: which layer it is in
    req,      \* per worker: the current, or last, request's headers and body
    body,     \* per worker: bytes counted, and given to the application
    starts,   \* per worker: response heads sent for the request
    outcome,  \* per worker: how the request ended, or "none"
    var,      \* per worker: request_id_var
    tokens,   \* per worker: what the open request_id_scopes will restore
    event,    \* per worker: AuditEvent.request_id of the tool call in progress
    lines,    \* per worker: ids on the lines logged for the request
    answer    \* per worker: the id on the last answer this worker gave

hvars == <<pc, req, body, starts, outcome, var, tokens, event, lines, answer>>

-----------------------------------------------------------------------------
(* Values *)

Headers == [inbound  : CallerIds \cup {NoId},
            declared : Sizes \cup {NoLength},
            size     : Sizes]

NoRequest == [inbound |-> NoId, declared |-> NoLength, size |-> 0]

HInit ==
    /\ pc = [w \in Workers |-> "idle"]
    /\ req = [w \in Workers |-> NoRequest]
    /\ body = [w \in Workers |-> [seen |-> 0, given |-> 0]]
    /\ starts = [w \in Workers |-> 0]
    /\ outcome = [w \in Workers |-> "none"]
    /\ var = [w \in Workers |-> NoId]
    /\ tokens = [w \in Workers |-> <<>>]
    /\ event = [w \in Workers |-> NoId]
    /\ lines = [w \in Workers |-> {}]
    /\ answer = [w \in Workers |-> NoId]

-----------------------------------------------------------------------------
(* Request ids *)

\* A uuid4 repeats nothing that anybody still holds.
Unused == Minted \ UNION {{var[w], event[w], answer[w]} \cup lines[w] : w \in Workers}

\* Mutant: a call that is given no header mints, whatever is bound (U9-F1).
ResolveMints(inbound, bound) == IF inbound \in CallerIds THEN {inbound} ELSE Unused

\* resolve_request_id: the caller's valid id, else the bound one, else a new one.
Resolve(inbound, bound) ==
    IF inbound \in CallerIds THEN {inbound}
    ELSE IF bound # NoId THEN {bound} ELSE Unused

\* Mutant: request_id_var is a module global.
BindGlobal(w, id) ==
    /\ var' = [v \in Workers |-> id]
    /\ tokens' = [tokens EXCEPT ![w] = Append(@, var[w])]

\* request_id_scope is entered.
Bind(w, id) ==
    /\ var' = [var EXCEPT ![w] = id]
    /\ tokens' = [tokens EXCEPT ![w] = Append(@, var[w])]

\* Mutant: the reset is not in a finally, so only an answered call makes it.
UnwindWithoutFinally(w, how) ==
    /\ var' = IF how = "served" /\ tokens[w] # <<>> THEN [var EXCEPT ![w] = Head(tokens[w])] ELSE var
    /\ tokens' = [tokens EXCEPT ![w] = <<>>]

\* Every open scope is left, innermost first: the oldest token has the last word.
Unwind(w, how) ==
    /\ var' = IF tokens[w] # <<>> THEN [var EXCEPT ![w] = Head(tokens[w])] ELSE var
    /\ tokens' = [tokens EXCEPT ![w] = <<>>]

-----------------------------------------------------------------------------
(* BodySizeLimitMiddleware *)

\* The request is over, however it ended; its scopes are left on the way out.
End(w, how) ==
    /\ pc' = [pc EXCEPT ![w] = "idle"]
    /\ outcome' = [outcome EXCEPT ![w] = how]
    /\ event' = [event EXCEPT ![w] = NoId]

\* _refuse: the 422, with an id resolved outside every scope.
Refuse(w, inbound, begun) ==
    /\ \E id \in Resolve(inbound, var[w]) : answer' = [answer EXCEPT ![w] = id]
    /\ starts' = [starts EXCEPT ![w] = begun + 1]
    /\ End(w, "refused")

\* A request begins on an idle worker: a declared length over the limit is
\* refused before the application is called.
Arrive(w, h) ==
    /\ pc[w] = "idle"
    /\ req' = [req EXCEPT ![w] = h]
    /\ body' = [body EXCEPT ![w] = [seen |-> 0, given |-> 0]]
    /\ lines' = [lines EXCEPT ![w] = {}]
    /\ IF h.declared # NoLength /\ h.declared > Limit
       THEN Refuse(w, h.inbound, 0)
       ELSE /\ pc' = [pc EXCEPT ![w] = "reading"]
            /\ starts' = [starts EXCEPT ![w] = 0]
            /\ outcome' = [outcome EXCEPT ![w] = "none"]
            /\ UNCHANGED <<event, answer>>
    /\ UNCHANGED <<var, tokens>>

\* Mutant: a declared length within the limit is believed.
TripsIfUndeclared(w, seen) == req[w].declared = NoLength /\ seen > Limit

\* Mutant: a body of exactly the limit is refused.
TripsAtLimit(w, seen) == seen >= Limit

\* counting_receive's comparison, whatever was declared.
Trips(w, seen) == seen > Limit

\* Mutant: the refusal is sent whether or not a response has begun.
TrippedAlwaysRefuses(w) == Refuse(w, req[w].inbound, starts[w])

\* _BodyTooLarge has unwound the application: answered with the 422, or
\* raised again when the application had begun its own response.
Tripped(w) ==
    IF starts[w] = 0 THEN Refuse(w, req[w].inbound, starts[w])
    ELSE End(w, "dropped") /\ UNCHANGED <<starts, answer>>

\* counting_receive: n more bytes, given to the application unless they cross
\* the limit.
Receive(w, n) ==
    LET seen == body[w].seen + n
    IN  /\ pc[w] = "reading" /\ seen <= req[w].size
        /\ body' = [body EXCEPT ![w] = [seen |-> seen,
                                        given |-> IF Trips(w, seen) THEN @.given ELSE seen]]
        /\ IF Trips(w, seen) THEN Tripped(w)
           ELSE UNCHANGED <<pc, starts, outcome, event, answer>>
        /\ UNCHANGED <<req, var, tokens, lines>>

\* The application sends the head of its response (watching_send) while the
\* body is still arriving.
BeginResponse(w) ==
    /\ pc[w] = "reading" /\ starts[w] = 0
    /\ starts' = [starts EXCEPT ![w] = 1]
    /\ UNCHANGED <<pc, req, body, outcome, var, tokens, event, lines, answer>>

-----------------------------------------------------------------------------
(* RequestIdMiddleware, audit_scope and the tool *)

\* The body is complete: on_request binds the caller's id, or one of ours.
OnRequest(w) ==
    /\ pc[w] = "reading" /\ body[w].seen = req[w].size
    /\ \E id \in Resolve(req[w].inbound, var[w]) : Bind(w, id)
    /\ pc' = [pc EXCEPT ![w] = "handling"]
    /\ UNCHANGED <<req, body, starts, outcome, event, lines, answer>>

\* The tool opens its audit_scope, which is given no header.
OpenAudit(w) ==
    /\ pc[w] = "handling"
    /\ \E id \in Resolve(NoId, var[w]) :
          /\ Bind(w, id)
          /\ event' = [event EXCEPT ![w] = id]
    /\ pc' = [pc EXCEPT ![w] = "tool"]
    /\ UNCHANGED <<req, body, starts, outcome, lines, answer>>

\* Under the tool a retry, a breaker transition or a scan's warning is logged
\* by code that reads request_id_var; the audit record takes the event's id.
Log(w, id) ==
    /\ pc[w] = "tool"
    /\ id \in {var[w], event[w]}
    /\ lines' = [lines EXCEPT ![w] = @ \cup {id}]
    /\ UNCHANGED <<pc, req, body, starts, outcome, var, tokens, event, answer>>

\* The tool answers with the event's id, in _meta or in its problem object.
Answer(w) ==
    /\ pc[w] = "tool"
    /\ starts' = [starts EXCEPT ![w] = 1]
    /\ answer' = [answer EXCEPT ![w] = event[w]]
    /\ Unwind(w, "served")
    /\ End(w, "served")
    /\ UNCHANGED <<req, body, lines>>

\* The caller goes away, or something raises, at any await.
Abort(w) ==
    /\ pc[w] # "idle"
    /\ Unwind(w, "aborted")
    /\ End(w, "aborted")
    /\ UNCHANGED <<req, body, starts, lines, answer>>

Work(w) ==
    \/ \E h \in Headers : Arrive(w, h)
    \/ \E n \in Sizes \ {0} : Receive(w, n)
    \/ BeginResponse(w)
    \/ OnRequest(w)
    \/ OpenAudit(w)
    \/ \E id \in CallerIds \cup Minted \cup {NoId} : Log(w, id)
    \/ Answer(w)
    \/ Abort(w)

HNext == \E w \in Workers : Work(w)

HSpec == HInit /\ [][HNext]_hvars

-----------------------------------------------------------------------------
(* Properties *)

RequestIds == CallerIds \cup Minted

\* Every variable stays within its type.
HTypeOK ==
    /\ pc \in [Workers -> {"idle", "reading", "handling", "tool"}]
    /\ req \in [Workers -> Headers \cup {NoRequest}]
    /\ body \in [Workers -> [seen : Nat, given : Nat]]
    /\ starts \in [Workers -> 0..1]
    /\ outcome \in [Workers -> {"none", "refused", "dropped", "aborted", "served"}]
    /\ var \in [Workers -> RequestIds \cup {NoId}]
    /\ tokens \in [Workers -> Seq(RequestIds \cup {NoId})]
    /\ event \in [Workers -> RequestIds \cup {NoId}]
    /\ lines \in [Workers -> SUBSET RequestIds]
    /\ answer \in [Workers -> RequestIds \cup {NoId}]

\* DESIGN 2.1, the 1 MiB cap: the application never holds more than the
\* limit, whatever length was declared and however the body is cut into
\* chunks, and no tool runs for a request whose body is larger.
BodyBounded ==
    \A w \in Workers :
        /\ body[w].given <= Limit
        /\ pc[w] \in {"handling", "tool"} \/ outcome[w] = "served" => req[w].size <= Limit

\* "A body of exactly this size is ACCEPTED": nothing is refused or dropped
\* but a body that is, or declares itself, over the limit.
OnlyOversizeRefused ==
    \A w \in Workers :
        outcome[w] \in {"refused", "dropped"} =>
            \/ req[w].size > Limit
            \/ req[w].declared # NoLength /\ req[w].declared > Limit

\* DESIGN 5.3 (B40, B42): every line logged on behalf of a request and the
\* answer to it carry one id, which is the caller's own when it sent a valid
\* one - under any interleaving with other requests.
OneIdPerRequest ==
    \A w \in Workers :
        LET own == IF req[w].inbound \in CallerIds THEN {req[w].inbound}
                   ELSE IF outcome[w] = "served" THEN {answer[w]}
                   ELSE IF pc[w] = "tool" THEN {event[w]} ELSE lines[w]
        IN  /\ lines[w] \subseteq own
            /\ pc[w] = "tool" => event[w] \in own
            /\ outcome[w] \in {"served", "refused"} /\ req[w].inbound \in CallerIds
                  => answer[w] \in own

\* This step answers w's request.
Answers(w) ==
    /\ outcome'[w] \in {"served", "refused"}
    /\ outcome'[w] # outcome[w] \/ answer'[w] # answer[w]

\* "An id cannot leak into the next invocation on a reused worker task"
\* (DESIGN 5.3): a request that brought no valid id is never answered with an
\* id any request was answered with before, nor with another's in progress.
NoIdReused ==
    [][\A w \in Workers :
         Answers(w) /\ req'[w].inbound \notin CallerIds =>
             \A v \in Workers : answer'[w] # answer[v] /\ (v # w => answer'[w] # var[v])]_hvars

=============================================================================
