------------------------------ MODULE Verdicts ------------------------------
(***************************************************************************)
(* From Jobvite's response to the tool's answer.  evaluate_response        *)
(* (services/jobvite_client.py) decides whether a response is a success:   *)
(* Jobvite puts errors into 200 bodies, and answers in plain text, HTML    *)
(* and XML as well as in JSON.  A failure becomes an exception, the        *)
(* exception a registry row (errors.py), and the row the problem object a  *)
(* tool returns (tools/candidates.py, tools/jobs.py).                      *)
(*                                                                         *)
(* One call of a tool, from the request on the wire to its answer.  When   *)
(* a retryable reply is repeated and when the loop gives up is Resilience; *)
(* here the client may do either.  A request that gets no response at all  *)
(* (transport failure, open breaker) stays there too.                      *)
(***************************************************************************)
EXTENDS Integers

CONSTANTS
    HttpStatuses,    \* what the HTTP status line may say
    EnvelopeCodes,   \* what a status.code, or an HR-XML Error code, may say
    Hints            \* the Retry-After values Jobvite may send

None == -1           \* no code, no status, no hint
Odd == -2            \* a code that Python's int() or isinstance(_, int) refuses

ASSUME VerdictsAssumption ==
    HttpStatuses \subseteq Nat /\ EnvelopeCodes \subseteq Nat /\ Hints \subseteq Nat

VARIABLES
    stage,      \* "idle", "sent", "judged" or "answered"
    tool,       \* "read" or "create"
    response,   \* Jobvite's last response to the call
    verdict,    \* what evaluate_response returned or raised on it
    answer      \* what the tool returned

vvars == <<stage, tool, response, verdict, answer>>

-----------------------------------------------------------------------------
(* Values *)

ERROR_STATUS_THRESHOLD == 400
SERVER_ERROR_STATUS_FLOOR == 500
RATE_LIMITED_STATUS == 429
DUPLICATE_CANDIDATE_STATUS == 409

\* object: a JSON object; json: any other JSON value; deep: JSON nested beyond
\* the decoder's recursion limit; text: not JSON; error_xml: well-formed XML
\* with an Error element; markup: anything else that starts with "<".
Forms == {"object", "json", "deep", "text", "error_xml", "markup"}

\* code is the status.code of an object, the code of an Error.  legible: the
\* text the error would quote goes through redact_text, which raises on a URL
\* that urlsplit refuses.  typed: the records have the types the models declare.
Bodies == [form : Forms, code : EnvelopeCodes \cup {None, Odd},
           legible : BOOLEAN, typed : BOOLEAN]

Responses == [http : HttpStatuses, body : Bodies, hint : Hints \cup {None}]

Payload == [kind |-> "payload", status |-> None]
Upstream(s) == [kind |-> "upstream", status |-> s]   \* JobviteUpstreamError
Stray == [kind |-> "stray", status |-> None]         \* outside the hierarchy
Abandoned == [kind |-> "abandoned", status |-> None] \* the budget ended the retries

Errors == {"JobviteUpstreamError", "JobviteRetryLaterError", "DuplicateCandidateError", "other"}

\* The rows of the registry that these exceptions name.
Registry == [JobviteUpstreamError    |-> [type |-> "external-service-error", status |-> 502],
             JobviteRetryLaterError  |-> [type |-> "service-unavailable", status |-> 503],
             DuplicateCandidateError |-> [type |-> "conflict", status |-> 409],
             other                   |-> [type |-> "internal-error", status |-> 500]]

NoAnswer == [kind |-> "none"]
Result == [kind |-> "result"]

-----------------------------------------------------------------------------
(* evaluate_response *)

\* _upstream_status_or_none: the HTTP status, when it says a failure.
UpstreamStatusOrNone(http) == IF http >= ERROR_STATUS_THRESHOLD THEN http ELSE None

\* _envelope_status_code: a code that is not an integer is no code.
EnvelopeStatusCode(b) == IF b.code = Odd THEN None ELSE b.code

\* The error quotes the body, redacted.
Quoting(b, v) == IF b.legible THEN v ELSE Stray

\* _raise_from_markup, on XML with an Error element: the code is read with
\* isdigit() and int(), which disagree on some digits.
FromErrorElement(b) == IF b.code = Odd THEN Stray ELSE Upstream(b.code)

\* _decode_json_object on a body that is not a JSON object.
Undecodable(r) ==
    CASE r.body.form = "deep"      -> Stray
      [] r.body.form = "json"      -> Upstream(UpstreamStatusOrNone(r.http))
      [] r.body.form = "error_xml" -> Quoting(r.body, FromErrorElement(r.body))
      [] OTHER                     -> Quoting(r.body, Upstream(UpstreamStatusOrNone(r.http)))

\* Mutant: the HTTP line is looked at first, and believed.
EvaluateHttpFirst(r) ==
    IF r.http < ERROR_STATUS_THRESHOLD /\ r.body.form = "object" THEN Payload
    ELSE IF r.body.form # "object" THEN Undecodable(r)
    ELSE Quoting(r.body, Upstream(r.http))

\* Both arms, the body's own code before the HTTP status.
Evaluate(r) ==
    IF r.body.form # "object" THEN Undecodable(r)
    ELSE IF EnvelopeStatusCode(r.body) >= ERROR_STATUS_THRESHOLD
         THEN Quoting(r.body, Upstream(EnvelopeStatusCode(r.body)))
    ELSE IF r.http >= ERROR_STATUS_THRESHOLD THEN Quoting(r.body, Upstream(r.http))
    ELSE Payload

-----------------------------------------------------------------------------
(* From the verdict to the problem *)

IsRetryableStatus(s) == s >= SERVER_ERROR_STATUS_FLOOR \/ s = RATE_LIMITED_STATUS

Retryable(v) == v.kind = "upstream" /\ IsRetryableStatus(v.status)

\* A 429 and a spent budget are a 503 of ours.
ErrorClass(v) ==
    CASE v.kind = "stray" -> "other"
      [] v.kind = "abandoned" \/ v.status = RATE_LIMITED_STATUS -> "JobviteRetryLaterError"
      [] OTHER -> "JobviteUpstreamError"

\* Mutant: every error carries the header of the response it came with.
PublicErrorHintsAlways(v, hint) ==
    [class |-> ErrorClass(v),
     status |-> v.status, hint |-> hint]

\* What leaves the client: a retryable failure carries the Retry-After that
\* came with it, any other leaves as it was raised.
PublicError(v, hint) ==
    [class |-> ErrorClass(v),
     status |-> v.status, hint |-> IF Retryable(v) THEN hint ELSE None]

\* conflict_or_original, in create_candidate alone.
ConflictOrOriginal(e) ==
    IF tool = "create" /\ e.class = "JobviteUpstreamError" /\ e.status = DUPLICATE_CANDIDATE_STATUS
    THEN [e EXCEPT !.class = "DuplicateCandidateError", !.hint = None] ELSE e

\* problem_from_exception: the row is the exception's, never Jobvite's status.
ProblemFromException(e) ==
    [kind |-> "problem", type |-> Registry[e.class].type, status |-> Registry[e.class].status,
     retry_after |-> e.hint]

\* A record that does not fit its model raises pydantic's ValidationError.
Unfit == [class |-> "other", status |-> None, hint |-> None]

-----------------------------------------------------------------------------
(* Actions *)

VInit ==
    /\ stage = "idle"
    /\ tool = "read"
    /\ response = [http |-> 0, body |-> [form |-> "object", code |-> None, legible |-> TRUE,
                                         typed |-> TRUE], hint |-> None]
    /\ verdict = Payload
    /\ answer = NoAnswer

\* A tool calls request().
Send ==
    /\ stage = "idle"
    /\ stage' = "sent"
    /\ tool' \in {"read", "create"}
    /\ UNCHANGED <<response, verdict, answer>>

\* Jobvite answers and _attempt evaluates what it said.
Respond ==
    /\ stage = "sent"
    /\ stage' = "judged"
    /\ response' \in Responses
    /\ verdict' = Evaluate(response')
    /\ UNCHANGED <<tool, answer>>

\* The client repeats a read.
Repeat ==
    /\ stage = "judged"
    /\ tool = "read"
    /\ Retryable(verdict)
    /\ stage' = "sent"
    /\ UNCHANGED <<tool, response, verdict, answer>>

\* The outbound budget is spent when the retry loop ends (_attempt_with_retry).
Abandon ==
    /\ stage = "judged"
    /\ tool = "read"
    /\ Retryable(verdict)
    /\ verdict' = Abandoned
    /\ UNCHANGED <<stage, tool, response, answer>>

\* The tool builds its result, or the problem of the exception it caught.
\* build_create_result reads two identifiers and raises on nothing.
Reply ==
    /\ stage = "judged"
    /\ stage' = "answered"
    /\ answer' = IF verdict.kind # "payload"
                 THEN ProblemFromException(ConflictOrOriginal(PublicError(verdict, response.hint)))
                 ELSE IF tool = "read" /\ ~response.body.typed THEN ProblemFromException(Unfit)
                 ELSE Result
    /\ UNCHANGED <<tool, response, verdict>>

VNext == Send \/ Respond \/ Repeat \/ Abandon \/ Reply

VSpec == VInit /\ [][VNext]_vvars

-----------------------------------------------------------------------------
(* Properties *)

\* Every variable stays within its type.
VTypeOK ==
    /\ stage \in {"idle", "sent", "judged", "answered"}
    /\ tool \in {"read", "create"}
    /\ stage \in {"judged", "answered"} => response \in Responses
    /\ verdict.kind \in {"payload", "upstream", "stray", "abandoned"}

\* DESIGN 4.2: a response is successful only if its body carries no code of
\* 400 or more AND the HTTP status is below 400; a body that is no JSON object
\* is never one.
Successful(r) ==
    /\ r.body.form = "object"
    /\ r.body.code < ERROR_STATUS_THRESHOLD
    /\ r.http < ERROR_STATUS_THRESHOLD

\* What a failed response says of its own failure: the code in its body,
\* before the one on the status line.
Says(r) ==
    IF \/ r.body.form = "error_xml"
       \/ r.body.form = "object" /\ r.body.code >= ERROR_STATUS_THRESHOLD
    THEN r.body.code
    ELSE IF r.http >= ERROR_STATUS_THRESHOLD THEN r.http ELSE None

\* The client could make sense of it: it can be decoded and quoted.
Readable(r) ==
    /\ r.body.form # "deep"
    /\ r.body.form = "error_xml" => r.body.code # Odd
    /\ r.body.form # "json" => r.body.legible

\* No failure in disguise: a tool answers with a result exactly when the
\* response was a success (and, on a read, its records fit the models).  A
\* wrong zero, an empty result made of an error, cannot happen.
NoWrongZero ==
    answer.kind = "result" <=>
        Successful(response) /\ (tool = "read" => response.body.typed)

\* A readable failure has one meaning, whatever encoding it came in: a 429 is
\* our 503, a 409 on the write the conflict, anything else a 502.  Only the
\* retries of a read may end in a 503 instead, when the budget does.  Jobvite's
\* status never becomes the problem's.
FailureNamed ==
    ~Successful(response) =>
        \/ answer.status = IF ~Readable(response) THEN 500
                           ELSE IF Says(response) = RATE_LIMITED_STATUS THEN 503
                           ELSE IF Says(response) = DUPLICATE_CANDIDATE_STATUS /\ tool = "create"
                                THEN 409
                           ELSE 502
        \/ /\ tool = "read" /\ IsRetryableStatus(Says(response))
           /\ answer.status = 503 /\ answer.retry_after = None

\* ADR-0030: a retry_after is the one Jobvite sent with this very failure, of
\* which it said that it would pass.
HintIsJobvites ==
    answer.kind = "problem" /\ answer.retry_after # None =>
        answer.retry_after = response.hint /\ IsRetryableStatus(Says(response))

\* The answer of a call is what the last response to it means.
AnswerMatchesResponse ==
    stage = "answered" => NoWrongZero /\ FailureNamed /\ HintIsJobvites

=============================================================================
