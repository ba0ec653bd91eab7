-------------------------- MODULE DecisionsProofs --------------------------
(***************************************************************************)
(* Proofs about Verdicts, for every set of statuses, codes and hints, and  *)
(* about Payloads, for every set of records and arguments that json.loads  *)
(* may return.                                                             *)
(***************************************************************************)
EXTENDS Verdicts, Payloads, Induction, FiniteSetTheorems, SequenceTheorems, TLAPS

-----------------------------------------------------------------------------
(* Verdicts: what a tool answers *)

\* What is known of a verdict until the tool answers: it is the one on the
\* response at hand, or the budget ended the retries of a read.
Judged ==
    stage = "judged" =>
        \/ verdict = Evaluate(response)
        \/ verdict = Abandoned /\ tool = "read" /\ Retryable(Evaluate(response))

VInv == VTypeOK /\ Judged /\ AnswerMatchesResponse

-----------------------------------------------------------------------------
(* The rule *)

\* A response comes with a status, a form, a code and a legibility.
LEMMA ResponseFields ==
    ASSUME NEW r \in Responses
    PROVE  /\ r.http \in Nat
           /\ r.body.form \in Forms
           /\ r.body.code \in Nat \cup {None, Odd}
           /\ r.body.legible \in BOOLEAN
           /\ r.hint \in Nat \cup {None}
  BY VerdictsAssumption DEF Responses, Bodies

\* A response evaluates to its payload exactly when it is a success.
LEMMA PayloadIffSuccessful ==
    ASSUME NEW r \in Responses
    PROVE  Evaluate(r).kind = "payload" <=> Successful(r)
  <1>1. r.http \in Nat /\ r.body.code \in Nat \cup {None, Odd}
    BY ResponseFields
  <1>2. CASE r.body.form # "object"
    <2>1. Evaluate(r) = Undecodable(r)
      BY <1>2 DEF Evaluate
    <2>2. Undecodable(r).kind # "payload"
      BY <1>2 DEF Undecodable, Quoting, FromErrorElement, Upstream, Stray
    <2>3. QED
      BY <1>2, <2>1, <2>2 DEF Successful
  <1>3. CASE r.body.form = "object"
    BY <1>1, <1>3 DEF Evaluate, EnvelopeStatusCode, Quoting, Upstream, Stray, Payload, Successful,
                      None, Odd, ERROR_STATUS_THRESHOLD
  <1>4. QED
    BY <1>2, <1>3

\* A failure that can be read is raised with the status it says; one that
\* cannot is raised outside the hierarchy.
LEMMA FailureVerdict ==
    ASSUME NEW r \in Responses, ~Successful(r)
    PROVE  Evaluate(r) = IF Readable(r) THEN Upstream(Says(r)) ELSE Stray
  <1>1. /\ r.http \in Nat /\ r.body.form \in Forms /\ r.body.code \in Nat \cup {None, Odd}
    BY ResponseFields
  <1>2. CASE r.body.form = "object"
    <2>1. CASE r.body.code >= ERROR_STATUS_THRESHOLD
      BY <1>1, <1>2, <2>1 DEF Evaluate, EnvelopeStatusCode, Quoting, Says, Readable, Odd, None,
                              ERROR_STATUS_THRESHOLD
    <2>2. CASE ~(r.body.code >= ERROR_STATUS_THRESHOLD)
      <3>1. r.http >= ERROR_STATUS_THRESHOLD
        BY <1>1, <1>2, <2>2 DEF Successful, Odd, None, ERROR_STATUS_THRESHOLD
      <3>2. QED
        BY <1>1, <1>2, <2>2, <3>1 DEF Evaluate, EnvelopeStatusCode, Quoting, Says, Readable, Odd,
                                      None, ERROR_STATUS_THRESHOLD
    <2>3. QED
      BY <2>1, <2>2
  <1>3. CASE r.body.form # "object"
    <2>1. Evaluate(r) = Undecodable(r)
      BY <1>3 DEF Evaluate
    <2>2. CASE r.body.form = "deep"
      BY <2>1, <2>2 DEF Undecodable, Readable
    <2>3. CASE r.body.form = "json"
      BY <2>1, <2>3 DEF Undecodable, Readable, Says, UpstreamStatusOrNone
    <2>4. CASE r.body.form = "error_xml"
      BY <2>1, <2>4 DEF Undecodable, Quoting, FromErrorElement, Readable, Says
    <2>5. CASE r.body.form \in {"text", "markup"}
      BY <2>1, <2>5 DEF Undecodable, Quoting, Readable, Says, UpstreamStatusOrNone
    <2>6. QED
      BY <1>1, <1>3, <2>2, <2>3, <2>4, <2>5 DEF Forms
  <1>4. QED
    BY <1>2, <1>3

-----------------------------------------------------------------------------
(* The answer *)

\* The problem that a raised error becomes.
Problem(v) == ProblemFromException(ConflictOrOriginal(PublicError(v, response.hint)))

\* A readable failure, not abandoned: named for what it says.
LEMMA ReadableProblem ==
    ASSUME response \in Responses, ~Successful(response), Readable(response),
           verdict = Upstream(Says(response)), answer' = Problem(verdict)
    PROVE  /\ answer'.kind = "problem"
           /\ answer'.status = IF Says(response) = RATE_LIMITED_STATUS THEN 503
                               ELSE IF Says(response) = DUPLICATE_CANDIDATE_STATUS /\ tool = "create"
                                    THEN 409
                               ELSE 502
           /\ answer'.retry_after # None =>
                  answer'.retry_after = response.hint /\ IsRetryableStatus(Says(response))
  <1>1. verdict.kind = "upstream" /\ verdict.status = Says(response)
    BY DEF Upstream
  <1>2. DEFINE e == PublicError(verdict, response.hint)
  <1>3. /\ e.class = IF Says(response) = RATE_LIMITED_STATUS THEN "JobviteRetryLaterError"
                     ELSE "JobviteUpstreamError"
        /\ e.status = Says(response)
        /\ e.hint = IF IsRetryableStatus(Says(response)) THEN response.hint ELSE None
    <2>1. ErrorClass(verdict) = IF Says(response) = RATE_LIMITED_STATUS
                                THEN "JobviteRetryLaterError" ELSE "JobviteUpstreamError"
      BY <1>1 DEF ErrorClass
    <2>2. Retryable(verdict) <=> IsRetryableStatus(Says(response))
      BY <1>1 DEF Retryable
    <2>3. QED
      BY <1>1, <2>1, <2>2 DEF PublicError
  <1>4. DEFINE c == ConflictOrOriginal(e)
  <1>5. /\ c.class = IF Says(response) = RATE_LIMITED_STATUS THEN "JobviteRetryLaterError"
                     ELSE IF Says(response) = DUPLICATE_CANDIDATE_STATUS /\ tool = "create"
                          THEN "DuplicateCandidateError"
                     ELSE "JobviteUpstreamError"
        /\ c.hint # None => c.hint = e.hint
    <2>1. CASE tool = "create" /\ e.class = "JobviteUpstreamError"
               /\ e.status = DUPLICATE_CANDIDATE_STATUS
      <3>1. c = [e EXCEPT !.class = "DuplicateCandidateError", !.hint = None]
        BY <2>1 DEF ConflictOrOriginal
      <3>2. e = [class |-> e.class, status |-> e.status, hint |-> e.hint]
        BY DEF PublicError
      <3>3. c.class = "DuplicateCandidateError" /\ c.hint = None
        BY <3>1, <3>2
      <3>4. QED
        BY <1>3, <2>1, <3>3 DEF RATE_LIMITED_STATUS, DUPLICATE_CANDIDATE_STATUS
    <2>2. CASE ~(tool = "create" /\ e.class = "JobviteUpstreamError"
                 /\ e.status = DUPLICATE_CANDIDATE_STATUS)
      <3>1. c = e
        BY <2>2 DEF ConflictOrOriginal
      <3>2. QED
        BY <1>3, <2>2, <3>1
    <2>3. QED
      BY <2>1, <2>2
  <1>6. /\ answer'.kind = "problem"
        /\ answer'.status = Registry[c.class].status
        /\ answer'.retry_after = c.hint
    BY DEF Problem, ProblemFromException
  <1>7. QED
    BY <1>3, <1>5, <1>6 DEF Registry

\* An error outside the hierarchy is an internal error, without a hint.
LEMMA StrayProblem ==
    ASSUME verdict = Stray, answer' = Problem(verdict)
    PROVE  answer'.kind = "problem" /\ answer'.status = 500 /\ answer'.retry_after = None
  <1>1. PublicError(verdict, response.hint) = [class |-> "other", status |-> None, hint |-> None]
    BY DEF PublicError, ErrorClass, Retryable, Stray, None, RATE_LIMITED_STATUS
  <1>2. ConflictOrOriginal(PublicError(verdict, response.hint)) = PublicError(verdict, response.hint)
    BY <1>1 DEF ConflictOrOriginal
  <1>3. QED
    BY <1>1, <1>2 DEF Problem, ProblemFromException, Registry

\* A spent budget is a 503 without a hint.
LEMMA AbandonedProblem ==
    ASSUME verdict = Abandoned, answer' = Problem(verdict)
    PROVE  answer'.kind = "problem" /\ answer'.status = 503 /\ answer'.retry_after = None
  <1>1. PublicError(verdict, response.hint)
            = [class |-> "JobviteRetryLaterError", status |-> None, hint |-> None]
    BY DEF PublicError, ErrorClass, Retryable, Abandoned
  <1>2. ConflictOrOriginal(PublicError(verdict, response.hint)) = PublicError(verdict, response.hint)
    BY <1>1 DEF ConflictOrOriginal
  <1>3. QED
    BY <1>1, <1>2 DEF Problem, ProblemFromException, Registry

\* Whatever was judged, the answer is what the response means.
LEMMA ReplyMatches ==
    ASSUME VTypeOK, Judged, Reply
    PROVE  NoWrongZero' /\ FailureNamed' /\ HintIsJobvites'
  <1>1. /\ stage = "judged" /\ response \in Responses /\ tool' = tool /\ response' = response
        /\ verdict' = verdict
    BY DEF Reply, VTypeOK
  <1>2. CASE verdict = Abandoned /\ tool = "read" /\ Retryable(Evaluate(response))
    <2>1. answer' = Problem(verdict)
      BY <1>2 DEF Reply, Problem, Abandoned
    <2>2. answer'.kind = "problem" /\ answer'.status = 503 /\ answer'.retry_after = None
      BY <1>2, <2>1, AbandonedProblem
    <2>3. Evaluate(response).kind = "upstream" /\ IsRetryableStatus(Evaluate(response).status)
      BY <1>2 DEF Retryable
    <2>4. ~Successful(response)
      BY <1>1, <2>3, PayloadIffSuccessful
    <2>5. Evaluate(response) = Upstream(Says(response))
      BY <1>1, <2>3, <2>4, FailureVerdict DEF Stray
    <2>6. IsRetryableStatus(Says(response))
      BY <2>3, <2>5 DEF Upstream
    <2>7. QED
      BY <1>1, <1>2, <2>2, <2>4, <2>6 DEF NoWrongZero, FailureNamed, HintIsJobvites
  <1>3. CASE verdict = Evaluate(response) /\ Successful(response)
    <2>1. verdict.kind = "payload"
      BY <1>1, <1>3, PayloadIffSuccessful
    <2>2. CASE tool = "read" /\ ~response.body.typed
      <3>1. answer' = ProblemFromException(Unfit)
        BY <2>1, <2>2 DEF Reply
      <3>2. answer'.kind = "problem" /\ answer'.retry_after = None
        BY <3>1 DEF ProblemFromException, Unfit
      <3>3. QED
        BY <1>1, <1>3, <2>2, <3>2 DEF NoWrongZero, FailureNamed, HintIsJobvites
    <2>3. CASE ~(tool = "read" /\ ~response.body.typed)
      <3>1. answer'.kind = "result"
        BY <2>1, <2>3 DEF Reply, Result
      <3>2. QED
        BY <1>1, <1>3, <2>3, <3>1 DEF NoWrongZero, FailureNamed, HintIsJobvites
    <2>4. QED
      BY <2>2, <2>3
  <1>4. CASE verdict = Evaluate(response) /\ ~Successful(response)
    <2>1. verdict.kind # "payload"
      BY <1>1, <1>4, PayloadIffSuccessful
    <2>2. answer' = Problem(verdict)
      BY <2>1 DEF Reply, Problem
    <2>3. CASE Readable(response)
      <3>1. verdict = Upstream(Says(response))
        BY <1>1, <1>4, <2>3, FailureVerdict
      <3>2. QED
        BY <1>1, <1>4, <2>2, <2>3, <3>1, ReadableProblem DEF NoWrongZero, FailureNamed, HintIsJobvites
    <2>4. CASE ~Readable(response)
      <3>1. verdict = Stray
        BY <1>1, <1>4, <2>4, FailureVerdict
      <3>2. QED
        BY <1>1, <1>4, <2>2, <2>4, <3>1, StrayProblem DEF NoWrongZero, FailureNamed, HintIsJobvites
    <2>5. QED
      BY <2>3, <2>4
  <1>5. QED
    BY <1>1, <1>2, <1>3, <1>4 DEF Judged

-----------------------------------------------------------------------------
(* The invariant *)

\* Nothing has been answered yet.
LEMMA VInitial ==
    VInit => VInv
  BY DEF VInit, VInv, VTypeOK, Judged, AnswerMatchesResponse, Payload

\* Every response evaluates to one of three verdicts.
LEMMA EvaluateKinds ==
    ASSUME NEW r \in Responses
    PROVE  Evaluate(r).kind \in {"payload", "upstream", "stray"}
  <1>1. CASE Successful(r)
    BY <1>1, PayloadIffSuccessful
  <1>2. CASE ~Successful(r)
    BY <1>2, FailureVerdict DEF Upstream, Stray
  <1>3. QED
    BY <1>1, <1>2

\* Every step keeps the invariant.
LEMMA VInductive ==
    VInv /\ [VNext]_vvars => VInv'
  <1>1. SUFFICES ASSUME VInv, [VNext]_vvars PROVE VInv'
    OBVIOUS
  <1>2. VTypeOK /\ Judged /\ AnswerMatchesResponse
    BY <1>1 DEF VInv
  <1>3. CASE Send
    BY <1>2, <1>3 DEF Send, VInv, VTypeOK, Judged, AnswerMatchesResponse
  <1>4. CASE Respond
    <2>1. response' \in Responses /\ verdict' = Evaluate(response') /\ stage' = "judged" /\ tool' = tool
      BY <1>4 DEF Respond
    <2>2. verdict'.kind \in {"payload", "upstream", "stray"}
      BY <2>1, EvaluateKinds
    <2>3. VTypeOK'
      BY <1>2, <2>1, <2>2 DEF VTypeOK
    <2>4. Judged' /\ AnswerMatchesResponse'
      BY <2>1 DEF Judged, AnswerMatchesResponse
    <2>5. QED
      BY <2>3, <2>4 DEF VInv
  <1>5. CASE Repeat
    BY <1>2, <1>5 DEF Repeat, VInv, VTypeOK, Judged, AnswerMatchesResponse
  <1>6. CASE Abandon
    <2>1. /\ stage = "judged" /\ stage' = stage /\ tool = "read" /\ tool' = tool
          /\ response' = response /\ verdict' = Abandoned /\ Retryable(verdict)
      BY <1>6 DEF Abandon
    <2>2. Retryable(Evaluate(response))
      BY <1>2, <2>1 DEF Judged, Retryable, Abandoned
    <2>3. VTypeOK'
      BY <1>2, <2>1 DEF VTypeOK, Abandoned
    <2>4. Judged' /\ AnswerMatchesResponse'
      BY <2>1, <2>2 DEF Judged, AnswerMatchesResponse
    <2>5. QED
      BY <2>3, <2>4 DEF VInv
  <1>7. CASE Reply
    <2>1. /\ stage = "judged" /\ stage' = "answered"
          /\ tool' = tool /\ response' = response /\ verdict' = verdict
      BY <1>7 DEF Reply
    <2>2. VTypeOK' /\ Judged'
      BY <1>2, <2>1 DEF VTypeOK, Judged
    <2>3. NoWrongZero' /\ FailureNamed' /\ HintIsJobvites'
      BY <1>2, <1>7, ReplyMatches
    <2>4. QED
      BY <2>2, <2>3 DEF VInv, AnswerMatchesResponse
  <1>8. CASE UNCHANGED vvars
    BY <1>2, <1>8 DEF vvars, VInv, VTypeOK, Judged, AnswerMatchesResponse, NoWrongZero, FailureNamed,
                      HintIsJobvites
  <1>9. QED
    BY <1>1, <1>3, <1>4, <1>5, <1>6, <1>7, <1>8 DEF VNext

\* So it holds always.
LEMMA VInvariant ==
    VSpec => []VInv
  BY VInitial, VInductive, PTL DEF VSpec

-----------------------------------------------------------------------------
(* The theorems *)

\* Every variable of a call stays within its type.
THEOREM VerdictsTyped ==
    VSpec => []VTypeOK
  <1>1. VInv => VTypeOK
    BY DEF VInv
  <1>2. QED
    BY <1>1, VInvariant, PTL

\* Whatever Jobvite may answer, in whatever encoding and with whatever codes,
\* the tool's answer is what the last response means.
THEOREM VerdictsAnswer ==
    VSpec => []AnswerMatchesResponse
  <1>1. VInv => AnswerMatchesResponse
    BY DEF VInv
  <1>2. QED
    BY <1>1, VInvariant, PTL

-----------------------------------------------------------------------------
(* Payloads: the walks *)

\* What is inside a JSON value is one, and nests less deep.
LEMMA Inside ==
    ASSUME NEW v \in Json, NEW p \in Parts(v)
    PROVE  p \in Json /\ Depth(p) \in Nat /\ Depth(v) \in Nat /\ Depth(p) < Depth(v)
<1>1. p \in Json /\ Depth(p) < Depth(v)
  BY PayloadsAssumption
<1>2. Depth(p) \in 1..RecursionLimit /\ Depth(v) \in 1..RecursionLimit /\ RecursionLimit \in Nat
  BY <1>1, PayloadsAssumption
<1> QED BY <1>1, <1>2

\* JSON values nest no deeper than json.loads reads them.
LEMMA DepthBounded ==
    ASSUME NEW v \in Json
    PROVE  Depth(v) \in 1..RecursionLimit /\ RecursionLimit \in Nat
BY PayloadsAssumption

-----------------------------------------------------------------------------
(* The walks exist *)

\* What is shown of a value depends on what is inside it alone.
LEMMA RedactOneLocal ==
    ASSUME NEW v \in Json, NEW f, NEW g, \A p \in Parts(v) : f[p] = g[p]
    PROVE  RedactOne(v, f) = RedactOne(v, g)
<1>1. CASE v.kind = "dict"
  <2>1. \A k \in DOMAIN v.fields : f[v.fields[k]] = g[v.fields[k]]
    BY <1>1 DEF Parts
  <2> QED BY <1>1, <2>1 DEF RedactOne, Dict
<1>2. CASE v.kind = "list"
  <2>1. \A j \in DOMAIN v.items : f[v.items[j]] = g[v.items[j]]
    BY <1>2 DEF Parts
  <2> QED BY <1>2, <2>1 DEF RedactOne, List
<1>3. CASE v.kind # "dict" /\ v.kind # "list"
  BY <1>3 DEF RedactOne
<1> QED BY <1>1, <1>2, <1>3

\* redact_arguments of a value is what one call does, given its own results on
\* what is inside: the walk ends, because each step goes down.
LEMMA RedactArgumentsIs ==
    ASSUME NEW a \in Json
    PROVE  RedactArguments(a) = RedactOne(a, [v \in Json |-> RedactArguments(v)])
<1> DEFINE Solves(f, n) == \A v \in Json : Depth(v) <= n => f[v] = RedactOne(v, f)
           Bad == {n \in 0..RecursionLimit : ~ \E f : Solves(f, n)}
<1>1. Bad = {}
  <2> SUFFICES ASSUME Bad # {} PROVE FALSE
    OBVIOUS
  <2>1. PICK n \in Bad : \A m \in Bad : n <= m
    <3>1. Bad \subseteq Nat
      BY PayloadsAssumption
    <3> HIDE DEF Bad
    <3> QED BY <3>1, LeastNat
  <2>2. n # 0
    <3>1. Solves([v \in Json |-> v], 0)
      BY DepthBounded
    <3> HIDE DEF Solves
    <3> QED BY <2>1, <3>1
  <2>3. n \in Nat /\ n - 1 \in 0..RecursionLimit /\ n - 1 \notin Bad
    <3>1. n \in 0..RecursionLimit
      OBVIOUS
    <3> HIDE DEF Bad
    <3> QED BY <2>1, <2>2, <3>1, PayloadsAssumption
  <2>4. PICK f : Solves(f, n - 1)
    BY <2>3
  <2> DEFINE g == [v \in Json |-> IF Depth(v) <= n - 1 THEN f[v] ELSE RedactOne(v, f)]
  <2>5. ASSUME NEW v \in Json, Depth(v) <= n PROVE g[v] = RedactOne(v, g)
    <3>1. \A p \in Parts(v) : f[p] = g[p]
      BY <2>3, <2>5, Inside
    <3>2. g[v] = RedactOne(v, f)
      BY <2>4
    <3> HIDE DEF g
    <3> QED BY <3>1, <3>2, RedactOneLocal
  <2>6. Solves(g, n)
    BY <2>5
  <2> HIDE DEF Solves
  <2> QED BY <2>1, <2>6
<1>2. PICK f : \A v \in Json : f[v] = RedactOne(v, f)
  <2>1. RecursionLimit \in 0..RecursionLimit /\ \A v \in Json : Depth(v) <= RecursionLimit
    BY PayloadsAssumption, DepthBounded
  <2>2. PICK f : Solves(f, RecursionLimit)
    <3> HIDE DEF Solves
    <3> QED BY <1>1, <2>1
  <2> QED BY <2>1, <2>2
<1> DEFINE Redacts(h) == h = [v \in Json |-> RedactOne(v, h)]
           h0 == [v \in Json |-> f[v]]
           c == CHOOSE h : Redacts(h)
<1>3. Redacts(h0)
  <2>1. ASSUME NEW v \in Json PROVE h0[v] = RedactOne(v, h0)
    <3>1. \A p \in Parts(v) : f[p] = h0[p]
      BY Inside
    <3>2. h0[v] = RedactOne(v, f)
      BY <1>2
    <3> HIDE DEF h0
    <3> QED BY <3>1, <3>2, RedactOneLocal
  <2>2. h0 = [v \in Json |-> h0[v]]
    OBVIOUS
  <2> HIDE DEF h0
  <2> QED BY <2>1, <2>2
<1>4. c = [v \in Json |-> RedactOne(v, c)]
  <2> HIDE DEF h0
  <2>1. Redacts(c)
    <3> HIDE DEF Redacts
    <3> QED BY <1>3
  <2> QED BY <2>1
<1>5. \A v \in Json : RedactArguments(v) = c[v]
  BY DEF RedactArguments
<1> HIDE DEF c
<1>6. c = [v \in Json |-> RedactArguments(v)]
  BY <1>4, <1>5
<1>7. c[a] = RedactOne(a, c)
  BY <1>4
<1> QED BY <1>5, <1>6, <1>7

\* What is measured of a value, given what is measured of what is inside it.
MeasureOne(v, measured) ==
    [d \in Nat |-> WithinLimits(v, d) /\ \A p \in Parts(v) : measured[p][d + 1]]

\* What is measured of a value depends on what is inside it alone.
LEMMA MeasureOneLocal ==
    ASSUME NEW v \in Json, NEW f, NEW g, \A p \in Parts(v) : f[p] = g[p]
    PROVE  MeasureOne(v, f) = MeasureOne(v, g)
<1>1. \A d : (\A p \in Parts(v) : f[p][d + 1]) <=> (\A p \in Parts(v) : g[p][d + 1])
  BY Zenon
<1> QED BY <1>1, Zenon DEF MeasureOne

\* _measure accepts a value if the value is within the limits and everything
\* inside it is accepted one level further down.
LEMMA MeasuredIs ==
    ASSUME NEW a \in Json, NEW d \in Nat
    PROVE  Measured(a, d) = (WithinLimits(a, d) /\ \A p \in Parts(a) : Measured(p, d + 1))
<1> DEFINE Solves(f, n) == \A v \in Json : Depth(v) <= n => f[v] = MeasureOne(v, f)
           Bad == {n \in 0..RecursionLimit : ~ \E f : Solves(f, n)}
<1>1. Bad = {}
  <2> SUFFICES ASSUME Bad # {} PROVE FALSE
    OBVIOUS
  <2>1. PICK n \in Bad : \A m \in Bad : n <= m
    <3>1. Bad \subseteq Nat
      BY PayloadsAssumption
    <3> HIDE DEF Bad
    <3> QED BY <3>1, LeastNat
  <2>2. n # 0
    <3>1. Solves([v \in Json |-> v], 0)
      BY DepthBounded
    <3> HIDE DEF Solves
    <3> QED BY <2>1, <3>1
  <2>3. n \in Nat /\ n - 1 \in 0..RecursionLimit /\ n - 1 \notin Bad
    <3>1. n \in 0..RecursionLimit
      OBVIOUS
    <3> HIDE DEF Bad
    <3> QED BY <2>1, <2>2, <3>1, PayloadsAssumption
  <2>4. PICK f : Solves(f, n - 1)
    BY <2>3
  <2> DEFINE g == [v \in Json |-> IF Depth(v) <= n - 1 THEN f[v] ELSE MeasureOne(v, f)]
  <2>5. ASSUME NEW v \in Json, Depth(v) <= n PROVE g[v] = MeasureOne(v, g)
    <3>1. \A p \in Parts(v) : f[p] = g[p]
      BY <2>3, <2>5, Inside
    <3>2. g[v] = MeasureOne(v, f)
      BY <2>4
    <3> HIDE DEF g
    <3> QED BY <3>1, <3>2, MeasureOneLocal
  <2>6. Solves(g, n)
    BY <2>5
  <2> HIDE DEF Solves
  <2> QED BY <2>1, <2>6
<1>2. PICK f : \A v \in Json : f[v] = MeasureOne(v, f)
  <2>1. RecursionLimit \in 0..RecursionLimit /\ \A v \in Json : Depth(v) <= RecursionLimit
    BY PayloadsAssumption, DepthBounded
  <2>2. PICK f : Solves(f, RecursionLimit)
    <3> HIDE DEF Solves
    <3> QED BY <1>1, <2>1
  <2> QED BY <2>1, <2>2
<1> DEFINE Measures(h) == h = [v \in Json |-> MeasureOne(v, h)]
           h0 == [v \in Json |-> f[v]]
           c == CHOOSE h : Measures(h)
<1>3. Measures(h0)
  <2>1. ASSUME NEW v \in Json PROVE h0[v] = MeasureOne(v, h0)
    <3>1. \A p \in Parts(v) : f[p] = h0[p]
      BY Inside
    <3>2. h0[v] = MeasureOne(v, f)
      BY <1>2
    <3> HIDE DEF h0
    <3> QED BY <3>1, <3>2, MeasureOneLocal
  <2>2. h0 = [v \in Json |-> h0[v]]
    OBVIOUS
  <2> HIDE DEF h0
  <2> QED BY <2>1, <2>2
<1>4. c = [v \in Json |-> MeasureOne(v, c)]
  <2> HIDE DEF h0
  <2>1. Measures(c)
    <3> HIDE DEF Measures
    <3> QED BY <1>3
  <2> QED BY <2>1
<1>5. \A v \in Json : \A e \in Nat : Measured(v, e) = c[v][e]
  BY DEF Measured, MeasureOne
<1> HIDE DEF c
<1>6. c[a] = [e \in Nat |-> WithinLimits(a, e) /\ \A p \in Parts(a) : c[p][e + 1]]
  BY <1>4 DEF MeasureOne
<1>7. c[a][d] = (WithinLimits(a, d) /\ \A p \in Parts(a) : c[p][d + 1])
  BY <1>6, Zenon
<1>8. d + 1 \in Nat /\ \A p \in Parts(a) : p \in Json
  BY Inside
<1>9. \A p \in Parts(a) : Measured(p, d + 1) = c[p][d + 1]
  BY <1>5, <1>8
<1>10. Measured(a, d) = c[a][d]
  BY <1>5
<1> QED BY <1>7, <1>9, <1>10, Zenon

\* What becomes of an object depends on the objects further in alone.
LEMMA FenceObjectLocal ==
    ASSUME NEW v \in Objects, NEW path, NEW f, NEW g,
           \A x \in Objects : Depth(x) < Depth(v) => f[x] = g[x]
    PROVE  FenceObject(v, path, f) = FenceObject(v, path, g)
<1> DEFINE Fenced(x, p, h) == IF x.kind = "dict" THEN Dict(h[x][p])
                              ELSE IF "fence" \in Lookup(p) THEN Str(FenceText(Text(x)))
                              ELSE x
           Element(x, p, h) == IF AdmittedElement(x, p) THEN Fenced(x, p, h) ELSE Undone
           FenceList(items, p, h) == SelectSeq([j \in DOMAIN items |-> Element(items[j], p, h)],
                                               LAMBDA y : y # Undone)
           Field(x, p, h) == IF x.kind = "list" THEN List(FenceList(x.items, Append(p, "[]"), h))
                             ELSE Fenced(x, p, h)
           kept == {k \in DOMAIN v.fields : Admitted(v.fields[k], Append(path, k))}
<1>1. ASSUME NEW x \in Json, Depth(x) < Depth(v), NEW p
      PROVE  Fenced(x, p, f) = Fenced(x, p, g)
  <2>1. CASE x.kind = "dict"
    <3>1. f[x] = g[x]
      BY <1>1, <2>1 DEF Objects
    <3> QED BY <2>1, <3>1
  <2> QED BY <2>1
<1> HIDE DEF Fenced
<1>2. ASSUME NEW x \in Json, Depth(x) < Depth(v), NEW p
      PROVE  Field(x, p, f) = Field(x, p, g)
  <2>1. CASE x.kind = "list"
    <3>1. \A j \in DOMAIN x.items : x.items[j] \in Json /\ Depth(x.items[j]) < Depth(v)
      <4>1. \A j \in DOMAIN x.items : x.items[j] \in Parts(x)
        BY <2>1 DEF Parts
      <4>2. Depth(v) \in Nat
        BY DepthBounded DEF Objects
      <4> QED BY <1>2, <4>1, <4>2, Inside
    <3>2. \A j \in DOMAIN x.items :
             Element(x.items[j], Append(p, "[]"), f) = Element(x.items[j], Append(p, "[]"), g)
      BY <1>1, <3>1
    <3> HIDE DEF Element
    <3>3. [j \in DOMAIN x.items |-> Element(x.items[j], Append(p, "[]"), f)]
          = [j \in DOMAIN x.items |-> Element(x.items[j], Append(p, "[]"), g)]
      BY <3>2
    <3> QED BY <2>1, <3>3
  <2>2. CASE x.kind # "list"
    BY <1>1, <1>2, <2>2
  <2> QED BY <2>1, <2>2
<1>3. \A k \in kept : v.fields[k] \in Json /\ Depth(v.fields[k]) < Depth(v)
  <2>1. \A k \in DOMAIN v.fields : v.fields[k] \in Parts(v)
    BY DEF Objects, Parts
  <2> QED BY <2>1, Inside DEF Objects
<1>4. \A k \in kept : Field(v.fields[k], Append(path, k), f) = Field(v.fields[k], Append(path, k), g)
  BY <1>2, <1>3
<1>5. \A h : FenceObject(v, path, h) = [k \in kept |-> Field(v.fields[k], Append(path, k), h)]
  BY Zenon DEF FenceObject, Fenced
<1> HIDE DEF Field, kept
<1> QED BY <1>4, <1>5

\* What becomes of an object, at every path.
FenceAll(v, fence) == [path \in Paths |-> FenceObject(v, path, fence)]

\* The same at every path at once.
LEMMA FenceAllLocal ==
    ASSUME NEW v \in Objects, NEW f, NEW g,
           \A x \in Objects : Depth(x) < Depth(v) => f[x] = g[x]
    PROVE  FenceAll(v, f) = FenceAll(v, g)
<1>1. \A path \in Paths : FenceObject(v, path, f) = FenceObject(v, path, g)
  BY FenceObjectLocal
<1> QED BY <1>1 DEF FenceAll

\* fence_payload of an object is what one call does, given its own results on the
\* objects inside.
LEMMA FencePayloadIs ==
    ASSUME NEW a \in Objects, NEW at \in Paths
    PROVE  FencePayload(a, at)
           = FenceObject(a, at, [v \in Objects |-> [path \in Paths |-> FencePayload(v, path)]])
<1> DEFINE Solves(f, n) == \A v \in Objects : Depth(v) <= n => f[v] = FenceAll(v, f)
           Bad == {n \in 0..RecursionLimit : ~ \E f : Solves(f, n)}
<1>1. Bad = {}
  <2> SUFFICES ASSUME Bad # {} PROVE FALSE
    OBVIOUS
  <2>1. PICK n \in Bad : \A m \in Bad : n <= m
    <3>1. Bad \subseteq Nat
      BY PayloadsAssumption
    <3> HIDE DEF Bad
    <3> QED BY <3>1, LeastNat
  <2>2. n # 0
    <3>1. Solves([v \in Objects |-> v], 0)
      BY DepthBounded DEF Objects
    <3> HIDE DEF Solves
    <3> QED BY <2>1, <3>1
  <2>3. n \in Nat /\ n - 1 \in 0..RecursionLimit /\ n - 1 \notin Bad
    <3>1. n \in 0..RecursionLimit
      OBVIOUS
    <3> HIDE DEF Bad
    <3> QED BY <2>1, <2>2, <3>1, PayloadsAssumption
  <2>4. PICK f : Solves(f, n - 1)
    BY <2>3
  <2> DEFINE g == [v \in Objects |-> IF Depth(v) <= n - 1 THEN f[v] ELSE FenceAll(v, f)]
  <2>5. ASSUME NEW v \in Objects, Depth(v) <= n PROVE g[v] = FenceAll(v, g)
    <3>1. \A x \in Objects : Depth(x) < Depth(v) => f[x] = g[x]
      BY <2>3, <2>5, DepthBounded DEF Objects
    <3>2. g[v] = FenceAll(v, f)
      BY <2>4
    <3> HIDE DEF g
    <3> QED BY <3>1, <3>2, FenceAllLocal
  <2>6. Solves(g, n)
    BY <2>5
  <2> HIDE DEF Solves
  <2> QED BY <2>1, <2>6
<1>2. PICK f : \A v \in Objects : f[v] = FenceAll(v, f)
  <2>1. RecursionLimit \in 0..RecursionLimit /\ \A v \in Objects : Depth(v) <= RecursionLimit
    BY PayloadsAssumption, DepthBounded DEF Objects
  <2>2. PICK f : Solves(f, RecursionLimit)
    <3> HIDE DEF Solves
    <3> QED BY <1>1, <2>1
  <2> QED BY <2>1, <2>2
<1> DEFINE Fences(h) == h = [v \in Objects |-> FenceAll(v, h)]
           h0 == [v \in Objects |-> f[v]]
           c == CHOOSE h : Fences(h)
<1>3. Fences(h0)
  <2>1. ASSUME NEW v \in Objects PROVE h0[v] = FenceAll(v, h0)
    <3>1. \A x \in Objects : Depth(x) < Depth(v) => f[x] = h0[x]
      OBVIOUS
    <3>2. h0[v] = FenceAll(v, f)
      BY <1>2
    <3> HIDE DEF h0
    <3> QED BY <3>1, <3>2, FenceAllLocal
  <2>2. h0 = [v \in Objects |-> h0[v]]
    OBVIOUS
  <2> HIDE DEF h0
  <2> QED BY <2>1, <2>2
<1>4. c = [v \in Objects |-> FenceAll(v, c)]
  <2> HIDE DEF h0
  <2>1. Fences(c)
    <3> HIDE DEF Fences
    <3> QED BY <1>3
  <2> QED BY <2>1
<1>5. \A v \in Objects : \A path \in Paths : FencePayload(v, path) = c[v][path]
  BY DEF FencePayload, FenceAll
<1> HIDE DEF c
<1>6. \A v \in Objects : c[v] = [path \in Paths |-> FenceObject(v, path, c)]
  BY <1>4 DEF FenceAll
<1>7. c = [v \in Objects |-> [path \in Paths |-> FencePayload(v, path)]]
  <2>1. \A v \in Objects : c[v] = [path \in Paths |-> FencePayload(v, path)]
    BY <1>5, <1>6
  <2>2. c = [v \in Objects |-> c[v]]
    BY <1>4
  <2> QED BY <2>1, <2>2
<1>8. c[a][at] = FenceObject(a, at, c)
  BY <1>6
<1> QED BY <1>5, <1>7, <1>8

-----------------------------------------------------------------------------
(* The registry *)

\* The four models, field by field.
LEMMA ModelFields ==
    /\ DOMAIN Models = {"CandidateJob", "CandidateResume", "CandidateApplication", "Candidate"}
    /\ Models["CandidateJob"] = JobModel /\ Models["CandidateResume"] = ResumeModel
    /\ Models["CandidateApplication"] = ApplicationModel /\ Models["Candidate"] = CandidateModel
    /\ DOMAIN JobModel = {"title"} /\ DOMAIN ResumeModel = {"content"}
    /\ DOMAIN ApplicationModel = {"sentDate", "resume", "job"}
    /\ DOMAIN CandidateModel = {"eId", "title", "application"}
<1>1. DOMAIN Models = {"CandidateJob", "CandidateResume", "CandidateApplication", "Candidate"}
  BY DEF Models
<1>2. /\ Models["CandidateJob"] = JobModel /\ Models["CandidateResume"] = ResumeModel
      /\ Models["CandidateApplication"] = ApplicationModel /\ Models["Candidate"] = CandidateModel
  BY DEF Models
<1>3. DOMAIN JobModel = {"title"} /\ DOMAIN ResumeModel = {"content"}
  BY DEF JobModel, ResumeModel
<1>4. DOMAIN ApplicationModel = {"sentDate", "resume", "job"}
  BY DEF ApplicationModel
<1>5. DOMAIN CandidateModel = {"eId", "title", "application"}
  BY DEF CandidateModel
<1> QED BY <1>1, <1>2, <1>3, <1>4, <1>5

\* The paths of a model without nested ones, and of the two that have some.
LEMMA PathsOfEach ==
    ASSUME NEW at, NEW f
    PROVE  /\ PathsOfModel("CandidateJob", at, f) = {<<Append(at, "title"), "not_free_text">>}
           /\ PathsOfModel("CandidateResume", at, f) = {<<Append(at, "content"), "fence">>}
           /\ PathsOfModel("CandidateApplication", at, f)
              = {<<Append(at, "sentDate"), "not_free_text">>, <<Append(at, "resume"), "not_free_text">>,
                 <<Append(at, "job"), "not_free_text">>}
                \cup f["CandidateResume"][Append(at, "resume")]
                \cup f["CandidateJob"][Append(at, "job")]
           /\ PathsOfModel("Candidate", at, f)
              = {<<Append(at, "eId"), "not_free_text">>, <<Append(at, "title"), "fence">>,
                 <<Append(at, "application"), "not_free_text">>}
                \cup f["CandidateApplication"][Append(at, "application")]
<1> DEFINE Of(field, p) == {<<p, field.decision>>} \cup IF field.model = "none" THEN {} ELSE f[field.model][p]
<1>1. \A m : PathsOfModel(m, at, f) = UNION {Of(Models[m][x], Append(at, x)) : x \in DOMAIN Models[m]}
  BY DEF PathsOfModel
<1>2. /\ JobModel["title"] = Leaf("not_free_text") /\ ResumeModel["content"] = Leaf("fence")
      /\ ApplicationModel["sentDate"] = Leaf("not_free_text")
      /\ ApplicationModel["resume"] = Nested("CandidateResume")
      /\ ApplicationModel["job"] = Nested("CandidateJob")
      /\ CandidateModel["eId"] = Leaf("not_free_text") /\ CandidateModel["title"] = Leaf("fence")
      /\ CandidateModel["application"] = Nested("CandidateApplication")
  BY DEF JobModel, ResumeModel, ApplicationModel, CandidateModel
<1>3. \A d, p : Of(Leaf(d), p) = {<<p, d>>}
  BY DEF Leaf
<1>4. \A p : Of(Nested("CandidateResume"), p) = {<<p, "not_free_text">>} \cup f["CandidateResume"][p]
  BY DEF Nested
<1>5. \A p : Of(Nested("CandidateJob"), p) = {<<p, "not_free_text">>} \cup f["CandidateJob"][p]
  BY DEF Nested
<1>6. \A p : Of(Nested("CandidateApplication"), p)
             = {<<p, "not_free_text">>} \cup f["CandidateApplication"][p]
  BY DEF Nested
<1> HIDE DEF Of
<1>7. PathsOfModel("CandidateJob", at, f) = Of(Leaf("not_free_text"), Append(at, "title"))
  <2>1. {Of(Models["CandidateJob"][x], Append(at, x)) : x \in DOMAIN Models["CandidateJob"]}
        = {Of(Leaf("not_free_text"), Append(at, "title"))}
    BY <1>2, ModelFields
  <2> DEFINE S == Of(Leaf("not_free_text"), Append(at, "title"))
  <2>2. UNION {S} = S
    <3> HIDE DEF S
    <3> QED OBVIOUS
  <2>3. PathsOfModel("CandidateJob", at, f) = UNION {S}
    BY <1>1, <2>1
  <2> QED BY <2>2, <2>3
<1>8. PathsOfModel("CandidateResume", at, f) = Of(Leaf("fence"), Append(at, "content"))
  <2>1. {Of(Models["CandidateResume"][x], Append(at, x)) : x \in DOMAIN Models["CandidateResume"]}
        = {Of(Leaf("fence"), Append(at, "content"))}
    BY <1>2, ModelFields
  <2> DEFINE S == Of(Leaf("fence"), Append(at, "content"))
  <2>2. UNION {S} = S
    <3> HIDE DEF S
    <3> QED OBVIOUS
  <2>3. PathsOfModel("CandidateResume", at, f) = UNION {S}
    BY <1>1, <2>1
  <2> QED BY <2>2, <2>3
<1>9. PathsOfModel("CandidateApplication", at, f)
      = Of(Leaf("not_free_text"), Append(at, "sentDate"))
        \cup Of(Nested("CandidateResume"), Append(at, "resume"))
        \cup Of(Nested("CandidateJob"), Append(at, "job"))
  BY <1>1, <1>2, ModelFields
<1>10. PathsOfModel("Candidate", at, f)
      = Of(Leaf("not_free_text"), Append(at, "eId")) \cup Of(Leaf("fence"), Append(at, "title"))
        \cup Of(Nested("CandidateApplication"), Append(at, "application"))
  BY <1>1, <1>2, ModelFields
<1>11. PathsOfModel("CandidateApplication", at, f)
       = {<<Append(at, "sentDate"), "not_free_text">>}
         \cup ({<<Append(at, "resume"), "not_free_text">>} \cup f["CandidateResume"][Append(at, "resume")])
         \cup ({<<Append(at, "job"), "not_free_text">>} \cup f["CandidateJob"][Append(at, "job")])
  BY <1>3, <1>4, <1>5, <1>9
<1>12. PathsOfModel("Candidate", at, f)
       = {<<Append(at, "eId"), "not_free_text">>} \cup {<<Append(at, "title"), "fence">>}
         \cup ({<<Append(at, "application"), "not_free_text">>}
               \cup f["CandidateApplication"][Append(at, "application")])
  BY <1>3, <1>6, <1>10
<1> QED BY <1>3, <1>7, <1>8, <1>11, <1>12

\* A path goes on with any name, and tells it from every other.
LEMMA Names ==
    ASSUME NEW p \in Paths, NEW s \in Strings
    PROVE  /\ Append(p, s) \in Paths
           /\ Len(Append(p, s)) = Len(p) + 1
           /\ \A q \in Paths, r \in Strings : Append(p, s) = Append(q, r) <=> p = q /\ s = r
<1>1. Append(p, s) \in Seq(Strings) /\ Len(Append(p, s)) = Len(p) + 1
  BY AppendProperties DEF Paths
<1>2. ASSUME NEW q \in Paths, NEW r \in Strings
      PROVE  Append(p, s) = Append(q, r) <=> p = q /\ s = r
  BY AppendInjective DEF Paths
<1> QED BY <1>1, <1>2 DEF Paths

\* Every field of a model has a name of a string.
LEMMA FieldNames ==
    {"candidates", "[]", "title", "content", "sentDate", "resume", "job", "eId", "application"}
    \subseteq Strings
<1>1. {"candidates", "[]"} \subseteq Strings
      /\ \A m \in DOMAIN Models : DOMAIN Models[m] \subseteq Strings
  BY PayloadsAssumption
<1> QED BY <1>1, ModelFields

\* The paths of every model, given those of the models nested in it.
PathsOfAll(f) == [k \in DOMAIN Models |-> [p \in Paths |-> PathsOfModel(k, p, f)]]

\* One round gives a model its paths by those of the last.
LEMMA PathsOfAllAt ==
    ASSUME NEW f, NEW k \in DOMAIN Models, NEW p \in Paths
    PROVE  PathsOfAll(f)[k][p] = PathsOfModel(k, p, f)
BY DEF PathsOfAll

\* After one round it no longer matters to the innermost models where the walk
\* started, after two to the next, after three to any.
LEMMA RoundsEnough ==
    ASSUME NEW f, NEW g, NEW p \in Paths
    PROVE  /\ PathsOfAll(f)["CandidateJob"][p] = PathsOfAll(g)["CandidateJob"][p]
           /\ PathsOfAll(f)["CandidateResume"][p] = PathsOfAll(g)["CandidateResume"][p]
           /\ PathsOfAll(PathsOfAll(f))["CandidateApplication"][p]
              = PathsOfAll(PathsOfAll(g))["CandidateApplication"][p]
           /\ PathsOfAll(PathsOfAll(PathsOfAll(f)))["Candidate"][p]
              = PathsOfAll(PathsOfAll(PathsOfAll(g)))["Candidate"][p]
<1>1. ASSUME NEW q \in Paths
      PROVE  /\ PathsOfAll(f)["CandidateJob"][q] = PathsOfAll(g)["CandidateJob"][q]
             /\ PathsOfAll(f)["CandidateResume"][q] = PathsOfAll(g)["CandidateResume"][q]
  <2>1. PathsOfModel("CandidateJob", q, f) = PathsOfModel("CandidateJob", q, g)
    BY PathsOfEach
  <2>2. PathsOfModel("CandidateResume", q, f) = PathsOfModel("CandidateResume", q, g)
    BY PathsOfEach
  <2> QED BY <2>1, <2>2, PathsOfAllAt, ModelFields
<1> DEFINE f2 == PathsOfAll(f)
           g2 == PathsOfAll(g)
<1>2. ASSUME NEW q \in Paths
      PROVE  PathsOfAll(f2)["CandidateApplication"][q] = PathsOfAll(g2)["CandidateApplication"][q]
  <2>1. /\ f2["CandidateResume"][Append(q, "resume")] = g2["CandidateResume"][Append(q, "resume")]
        /\ f2["CandidateJob"][Append(q, "job")] = g2["CandidateJob"][Append(q, "job")]
    <3>1. Append(q, "resume") \in Paths /\ Append(q, "job") \in Paths
      BY Names, FieldNames
    <3> QED BY <1>1, <3>1
  <2> HIDE DEF f2, g2
  <2>2. PathsOfModel("CandidateApplication", q, f2) = PathsOfModel("CandidateApplication", q, g2)
    <3> DEFINE Own == {<<Append(q, "sentDate"), "not_free_text">>,
                       <<Append(q, "resume"), "not_free_text">>, <<Append(q, "job"), "not_free_text">>}
    <3>1. PathsOfModel("CandidateApplication", q, f2)
          = Own \cup f2["CandidateResume"][Append(q, "resume")] \cup f2["CandidateJob"][Append(q, "job")]
      BY PathsOfEach
    <3>2. PathsOfModel("CandidateApplication", q, g2)
          = Own \cup g2["CandidateResume"][Append(q, "resume")] \cup g2["CandidateJob"][Append(q, "job")]
      BY PathsOfEach
    <3> HIDE DEF Own
    <3> QED BY <2>1, <3>1, <3>2
  <2> QED BY <2>2, PathsOfAllAt, ModelFields
<1> DEFINE f3 == PathsOfAll(f2)
           g3 == PathsOfAll(g2)
<1>3. ASSUME NEW q \in Paths
      PROVE  PathsOfAll(f3)["Candidate"][q] = PathsOfAll(g3)["Candidate"][q]
  <2>1. f3["CandidateApplication"][Append(q, "application")]
        = g3["CandidateApplication"][Append(q, "application")]
    <3>1. Append(q, "application") \in Paths
      BY Names, FieldNames
    <3> QED BY <1>2, <3>1
  <2> HIDE DEF f3, g3
  <2>2. PathsOfModel("Candidate", q, f3) = PathsOfModel("Candidate", q, g3)
    <3> DEFINE Own == {<<Append(q, "eId"), "not_free_text">>, <<Append(q, "title"), "fence">>,
                       <<Append(q, "application"), "not_free_text">>}
    <3>1. PathsOfModel("Candidate", q, f3)
          = Own \cup f3["CandidateApplication"][Append(q, "application")]
      BY PathsOfEach
    <3>2. PathsOfModel("Candidate", q, g3)
          = Own \cup g3["CandidateApplication"][Append(q, "application")]
      BY PathsOfEach
    <3> HIDE DEF Own
    <3> QED BY <2>1, <3>1, <3>2
  <2> QED BY <2>2, PathsOfAllAt, ModelFields
<1> QED BY <1>1, <1>2, <1>3

\* The walk over the models exists: they are nested three deep.
LEMMA FencingPathsIs ==
    ASSUME NEW m \in DOMAIN Models, NEW at \in Paths
    PROVE  FencingPaths(m, at)
           = PathsOfModel(m, at, [k \in DOMAIN Models |-> [p \in Paths |-> FencingPaths(k, p)]])
<1> DEFINE one == PathsOfAll(Models)
           two == PathsOfAll(one)
           three == PathsOfAll(two)
           four == PathsOfAll(three)
           c == CHOOSE f : f = PathsOfAll(f)
<1>1. three = four
  <2>1. ASSUME NEW p \in Paths
        PROVE  /\ three["CandidateJob"][p] = four["CandidateJob"][p]
               /\ three["CandidateResume"][p] = four["CandidateResume"][p]
               /\ three["CandidateApplication"][p] = four["CandidateApplication"][p]
               /\ three["Candidate"][p] = four["Candidate"][p]
    <3>1. /\ PathsOfAll(two)["CandidateJob"][p] = PathsOfAll(three)["CandidateJob"][p]
          /\ PathsOfAll(two)["CandidateResume"][p] = PathsOfAll(three)["CandidateResume"][p]
      BY RoundsEnough
    <3>2. PathsOfAll(PathsOfAll(one))["CandidateApplication"][p]
          = PathsOfAll(PathsOfAll(two))["CandidateApplication"][p]
      BY RoundsEnough
    <3>3. PathsOfAll(PathsOfAll(PathsOfAll(Models)))["Candidate"][p]
          = PathsOfAll(PathsOfAll(PathsOfAll(one)))["Candidate"][p]
      BY RoundsEnough
    <3> QED BY <3>1, <3>2, <3>3
  <2> HIDE DEF two
  <2>2. \A k \in DOMAIN Models, p \in Paths : PathsOfModel(k, p, two) = PathsOfModel(k, p, three)
    <3> HIDE DEF three
    <3>1. \A k \in DOMAIN Models, p \in Paths :
             three[k][p] = PathsOfModel(k, p, two) /\ four[k][p] = PathsOfModel(k, p, three)
      BY PathsOfAllAt DEF three
    <3> QED BY <2>1, <3>1, ModelFields
  <2> HIDE DEF three
  <2>3. four = [k \in DOMAIN Models |-> [p \in Paths |-> PathsOfModel(k, p, three)]]
    BY DEF PathsOfAll
  <2>4. three = [k \in DOMAIN Models |-> [p \in Paths |-> PathsOfModel(k, p, two)]]
    BY DEF PathsOfAll, three
  <2> HIDE DEF four
  <2> QED BY <2>2, <2>3, <2>4
<1>2. c = PathsOfAll(c)
  <2> HIDE DEF three
  <2> QED BY <1>1
<1>3. \A k \in DOMAIN Models, p \in Paths : FencingPaths(k, p) = c[k][p]
  BY DEF FencingPaths, PathsOfAll
<1> HIDE DEF c
<1>4. c = [k \in DOMAIN Models |-> [p \in Paths |-> PathsOfModel(k, p, c)]]
  BY <1>2 DEF PathsOfAll
<1>5. \A k \in DOMAIN Models, p \in Paths : c[k][p] = PathsOfModel(k, p, c)
  BY <1>4
<1>6. c = [k \in DOMAIN Models |-> [p \in Paths |-> FencingPaths(k, p)]]
  BY <1>3, <1>4, <1>5
<1> QED BY <1>3, <1>5, <1>6

\* The paths the walks below meet.
Top == <<"candidates", "[]">>
InApplication == Append(Top, "application")
InResume == Append(InApplication, "resume")
InJob == Append(InApplication, "job")

\* Each of them is a path, and no two are the same.
LEMMA Walked ==
    /\ Top \in Paths /\ InApplication \in Paths /\ InResume \in Paths /\ InJob \in Paths
    /\ Len(Top) = 2 /\ Len(InApplication) = 3 /\ Len(InResume) = 4 /\ Len(InJob) = 4
    /\ InResume # InJob
<1>1. Top \in Paths /\ Len(Top) = 2
  BY FieldNames DEF Top, Paths
<1>2. InApplication \in Paths /\ Len(InApplication) = 3
  <2>1. Append(Top, "application") \in Paths /\ Len(Append(Top, "application")) = Len(Top) + 1
    BY <1>1, Names, FieldNames
  <2> QED BY <1>1, <2>1 DEF InApplication
<1>3. InResume \in Paths /\ Len(InResume) = 4 /\ InJob \in Paths /\ Len(InJob) = 4
  <2>1. ASSUME NEW s \in {"resume", "job"}
        PROVE  Append(InApplication, s) \in Paths /\ Len(Append(InApplication, s)) = 4
    <3>1. s \in Strings
      BY FieldNames
    <3>2. Append(InApplication, s) \in Paths /\ Len(Append(InApplication, s)) = Len(InApplication) + 1
      BY <1>2, <3>1, Names
    <3> QED BY <1>2, <3>2
  <2> QED BY <2>1 DEF InResume, InJob
<1>4. InResume # InJob
  BY <1>2, Names, FieldNames DEF InResume, InJob
<1> QED BY <1>1, <1>2, <1>3, <1>4

\* What fencing_paths generates from the four models.
LEMMA FencingRegistry ==
    CANDIDATE_FENCING_PATHS =
        {<<Append(Top, "eId"), "not_free_text">>, <<Append(Top, "title"), "fence">>,
         <<InApplication, "not_free_text">>,
         <<Append(InApplication, "sentDate"), "not_free_text">>,
         <<InResume, "not_free_text">>, <<InJob, "not_free_text">>,
         <<Append(InResume, "content"), "fence">>, <<Append(InJob, "title"), "not_free_text">>}
<1> DEFINE f == [k \in DOMAIN Models |-> [p \in Paths |-> FencingPaths(k, p)]]
<1>1. \A k \in DOMAIN Models, p \in Paths :
         f[k][p] = FencingPaths(k, p) /\ FencingPaths(k, p) = PathsOfModel(k, p, f)
  BY FencingPathsIs
<1> HIDE DEF f
<1>2. f["CandidateJob"][InJob] = {<<Append(InJob, "title"), "not_free_text">>}
  BY <1>1, PathsOfEach, ModelFields, Walked
<1>3. f["CandidateResume"][InResume] = {<<Append(InResume, "content"), "fence">>}
  BY <1>1, PathsOfEach, ModelFields, Walked
<1>4. f["CandidateApplication"][InApplication]
      = {<<Append(InApplication, "sentDate"), "not_free_text">>, <<InResume, "not_free_text">>,
         <<InJob, "not_free_text">>}
        \cup f["CandidateResume"][InResume] \cup f["CandidateJob"][InJob]
  <2>1. f["CandidateApplication"][InApplication] = PathsOfModel("CandidateApplication", InApplication, f)
    BY <1>1, ModelFields, Walked
  <2> QED BY <2>1, PathsOfEach DEF InResume, InJob
<1>5. FencingPaths("Candidate", Top)
      = {<<Append(Top, "eId"), "not_free_text">>, <<Append(Top, "title"), "fence">>,
         <<InApplication, "not_free_text">>} \cup f["CandidateApplication"][InApplication]
  <2>1. FencingPaths("Candidate", Top) = PathsOfModel("Candidate", Top, f)
    BY <1>1, ModelFields, Walked
  <2> QED BY <2>1, PathsOfEach DEF InApplication
<1>6. CANDIDATE_FENCING_PATHS = FencingPaths("Candidate", Top)
  BY DEF CANDIDATE_FENCING_PATHS, Top
<1> QED BY <1>2, <1>3, <1>4, <1>5, <1>6

\* One decision for each of them, and title has another one at each of its two depths.
LEMMA Decisions ==
    /\ Lookup(Append(Top, "eId")) = {"not_free_text"}
    /\ Lookup(Append(Top, "title")) = {"fence"}
    /\ Lookup(InApplication) = {"not_free_text"}
    /\ Lookup(Append(InApplication, "sentDate")) = {"not_free_text"}
    /\ Lookup(InResume) = {"not_free_text"}
    /\ Lookup(InJob) = {"not_free_text"}
    /\ Lookup(Append(InResume, "content")) = {"fence"}
    /\ Lookup(Append(InJob, "title")) = {"not_free_text"}
<1> DEFINE P == {<<Top, "eId">>, <<Top, "title">>, <<Top, "application">>,
                 <<InApplication, "sentDate">>, <<InApplication, "resume">>, <<InApplication, "job">>,
                 <<InResume, "content">>, <<InJob, "title">>}
           D(p) == IF p \in {<<Top, "title">>, <<InResume, "content">>} THEN "fence" ELSE "not_free_text"
<1>1. Top # InApplication /\ Top # InResume /\ Top # InJob /\ InApplication # InResume
      /\ InApplication # InJob /\ InResume # InJob
  BY Walked
<1>2. D(<<Top, "title">>) = "fence" /\ D(<<InResume, "content">>) = "fence"
      /\ D(<<Top, "eId">>) = "not_free_text" /\ D(<<Top, "application">>) = "not_free_text"
      /\ D(<<InApplication, "sentDate">>) = "not_free_text"
      /\ D(<<InApplication, "resume">>) = "not_free_text"
      /\ D(<<InApplication, "job">>) = "not_free_text" /\ D(<<InJob, "title">>) = "not_free_text"
  BY <1>1 DEF D
<1> HIDE DEF D
<1>3. \A p \in P : p[1] \in Paths /\ p[2] \in Strings /\ p = <<p[1], p[2]>>
  BY Walked, FieldNames
<1>4. CANDIDATE_FENCING_PATHS = {<<Append(p[1], p[2]), D(p)>> : p \in P}
  <2> DEFINE E(p) == <<Append(p[1], p[2]), D(p)>>
  <2>1. {E(p) : p \in P}
        = {E(<<Top, "eId">>), E(<<Top, "title">>), E(<<Top, "application">>),
           E(<<InApplication, "sentDate">>), E(<<InApplication, "resume">>),
           E(<<InApplication, "job">>), E(<<InResume, "content">>), E(<<InJob, "title">>)}
    <3> HIDE DEF E
    <3> QED OBVIOUS
  <2>2. \A x, y : E(<<x, y>>) = <<Append(x, y), D(<<x, y>>)>>
    OBVIOUS
  <2> HIDE DEF E
  <2>3. /\ E(<<Top, "eId">>) = <<Append(Top, "eId"), "not_free_text">>
        /\ E(<<Top, "title">>) = <<Append(Top, "title"), "fence">>
        /\ E(<<Top, "application">>) = <<InApplication, "not_free_text">>
        /\ E(<<InApplication, "sentDate">>) = <<Append(InApplication, "sentDate"), "not_free_text">>
        /\ E(<<InApplication, "resume">>) = <<InResume, "not_free_text">>
        /\ E(<<InApplication, "job">>) = <<InJob, "not_free_text">>
        /\ E(<<InResume, "content">>) = <<Append(InResume, "content"), "fence">>
        /\ E(<<InJob, "title">>) = <<Append(InJob, "title"), "not_free_text">>
    <3>1. E(<<Top, "eId">>) = <<Append(Top, "eId"), "not_free_text">>
      BY <1>2, <2>2
    <3>2. E(<<Top, "title">>) = <<Append(Top, "title"), "fence">>
      BY <1>2, <2>2
    <3>3. E(<<Top, "application">>) = <<InApplication, "not_free_text">>
      BY <1>2, <2>2 DEF InApplication
    <3>4. E(<<InApplication, "sentDate">>) = <<Append(InApplication, "sentDate"), "not_free_text">>
      BY <1>2, <2>2
    <3>5. E(<<InApplication, "resume">>) = <<InResume, "not_free_text">>
      BY <1>2, <2>2 DEF InResume
    <3>6. E(<<InApplication, "job">>) = <<InJob, "not_free_text">>
      BY <1>2, <2>2 DEF InJob
    <3>7. E(<<InResume, "content">>) = <<Append(InResume, "content"), "fence">>
      BY <1>2, <2>2
    <3>8. E(<<InJob, "title">>) = <<Append(InJob, "title"), "not_free_text">>
      BY <1>2, <2>2
    <3> QED BY <3>1, <3>2, <3>3, <3>4, <3>5, <3>6, <3>7, <3>8
  <2>4. CANDIDATE_FENCING_PATHS = {E(p) : p \in P}
    BY <2>1, <2>3, FencingRegistry
  <2> QED BY <2>4 DEF E
<1> HIDE DEF P
<1>5. ASSUME NEW p \in P PROVE Lookup(Append(p[1], p[2])) = {D(p)}
  <2>1. \A q \in P : Append(p[1], p[2]) = Append(q[1], q[2]) => p = q
    <3> SUFFICES ASSUME NEW q \in P, Append(p[1], p[2]) = Append(q[1], q[2]) PROVE p = q
      OBVIOUS
    <3>1. p[1] \in Paths /\ p[2] \in Strings /\ q[1] \in Paths /\ q[2] \in Strings
      BY <1>3, <1>5
    <3>2. p[1] = q[1] /\ p[2] = q[2]
      BY <3>1, Names
    <3> QED BY <1>3, <1>5, <3>2
  <2>2. D(p) \in {"fence", "not_free_text"}
    BY DEF D
  <2>3. \A d : <<Append(p[1], p[2]), d>> \in CANDIDATE_FENCING_PATHS <=> d = D(p)
    BY <1>5, <1>4, <2>1
  <2> QED BY <2>2, <2>3 DEF Lookup
<1>6. \A p, s : <<p, s>> \in P => Lookup(Append(p, s)) = {D(<<p, s>>)}
  BY <1>5
<1> USE DEF P
<1>7. Lookup(Append(Top, "eId")) = {"not_free_text"} /\ Lookup(Append(Top, "title")) = {"fence"}
      /\ Lookup(InApplication) = {"not_free_text"}
  BY <1>2, <1>6 DEF InApplication
<1>8. Lookup(Append(InApplication, "sentDate")) = {"not_free_text"}
      /\ Lookup(InResume) = {"not_free_text"} /\ Lookup(InJob) = {"not_free_text"}
  BY <1>2, <1>6 DEF InResume, InJob
<1>9. Lookup(Append(InResume, "content")) = {"fence"} /\ Lookup(Append(InJob, "title")) = {"not_free_text"}
  BY <1>2, <1>6
<1> QED BY <1>7, <1>8, <1>9

-----------------------------------------------------------------------------
(* What a record becomes *)

\* What stands at a name, and what its fields become when it is found at p.
Values == Json \cup {Scalar("null")}
FencedAt(x, p) == IF x.kind = "dict" THEN FencePayload(x, p) ELSE <<>>

\* A list that is admitted stays one.
LEMMA ListField ==
    ASSUME NEW object, NEW prefix, NEW fence, NEW k \in DOMAIN object.fields,
           Admitted(object.fields[k], Append(prefix, k)), object.fields[k].kind = "list"
    PROVE  FenceObject(object, prefix, fence)[k].kind = "list"
<1>1. \E items : FenceObject(object, prefix, fence)[k] = List(items)
  BY DEF FenceObject
<1> QED BY <1>1 DEF List

\* One field of an object, or of what is none.
LEMMA OneField ==
    ASSUME NEW x \in Values, NEW p \in Paths, NEW k \in Strings,
           NEW v, v = At(x, k), NEW out, out = Get(FencedAt(x, p), k),
           NEW d, d = Lookup(Append(p, k)), d = {"not_free_text"} \/ d = {"fence"}
    PROVE  /\ v \in Values
           /\ d = {"not_free_text"} => Fields(out) = FencedAt(v, Append(p, k))
           /\ Container(v) => out.kind = v.kind
           /\ ~Container(v) /\ d = {"not_free_text"} =>
                 out = IF v.kind \in {"null", "blank"} THEN Scalar("null") ELSE v
           /\ ~Container(v) /\ d = {"fence"} =>
                 out = IF v.kind = "str" THEN Str(FenceText(v.text)) ELSE Scalar("null")
<1> DEFINE path == Append(p, k)
<1>0. Scalar("null").kind = "null" /\ Fields(Scalar("null")) = <<>>
      /\ ~Container(Scalar("null"))
  BY DEF Scalar, Fields, Container
<1>1. CASE x.kind # "dict" \/ k \notin DOMAIN x.fields
  <2>1. v = Scalar("null")
    BY <1>1 DEF At, Get, Fields
  <2>2. out = Scalar("null")
    <3>1. CASE x.kind # "dict"
      BY <3>1 DEF FencedAt, Get
    <3>2. CASE x.kind = "dict"
      <4>1. x \in Objects
        BY <1>0, <3>2 DEF Values, Objects
      <4>2. k \notin DOMAIN FencePayload(x, p)
        <5>1. \E fence : FencePayload(x, p) = FenceObject(x, p, fence)
          BY <4>1, FencePayloadIs
        <5>2. \A fence : k \notin DOMAIN FenceObject(x, p, fence)
          BY <1>1, <3>2 DEF FenceObject
        <5> QED BY <5>1, <5>2
      <4> QED BY <3>2, <4>2 DEF FencedAt, Get
    <3> QED BY <3>1, <3>2
  <2>3. FencedAt(v, Append(p, k)) = <<>>
    BY <1>0, <2>1 DEF FencedAt
  <2> QED BY <1>0, <2>1, <2>2, <2>3 DEF Values
<1>2. CASE x.kind = "dict" /\ k \in DOMAIN x.fields
  <2>1. x \in Objects /\ x \in Json
    BY <1>0, <1>2 DEF Values, Objects
  <2>2. v = x.fields[k] /\ v \in Json
    <3>1. v = x.fields[k]
      BY <1>2 DEF At, Get, Fields
    <3>2. v \in Parts(x)
      BY <1>2, <3>1 DEF Parts
    <3> QED BY <2>1, <3>1, <3>2, Inside
  <2> DEFINE fence == [o \in Objects |-> [q \in Paths |-> FencePayload(o, q)]]
  <2>3. FencePayload(x, p) = FenceObject(x, p, fence)
    BY <2>1, FencePayloadIs
  <2>4. path \in Paths /\ \A o \in Objects : fence[o][path] = FencePayload(o, path)
    BY Names
  <2> HIDE DEF fence
  <2>5. k \in DOMAIN FencePayload(x, p) <=> Admitted(v, path)
    BY <1>2, <2>2, <2>3 DEF FenceObject
  <2>6. CASE ~Admitted(v, path)
    <3>1. out = Scalar("null")
      BY <1>2, <2>5, <2>6 DEF FencedAt, Get
    <3>2. ~Container(v) /\ (v.kind \in {"null", "blank"} \/ (d = {"fence"} /\ v.kind # "str"))
      BY <2>6 DEF Admitted
    <3>3. FencedAt(v, path) = <<>>
      BY <3>2 DEF FencedAt, Container
    <3>4. v.kind = "str" => v.kind \notin {"null", "blank"}
      OBVIOUS
    <3>5. "fence" # "not_free_text"
      OBVIOUS
    <3> QED BY <1>0, <2>2, <3>1, <3>2, <3>3, <3>4, <3>5 DEF Values
  <2>7. CASE Admitted(v, path)
    <3>1. out = FencePayload(x, p)[k]
      BY <1>2, <2>5, <2>7 DEF FencedAt, Get
    <3>2. CASE v.kind = "dict"
      <4>1. v \in Objects
        BY <2>2, <3>2 DEF Objects
      <4>2. out = Dict(fence[v][path])
        BY <1>2, <2>2, <2>3, <2>7, <3>1, <3>2 DEF FenceObject
      <4>3. out = Dict(FencePayload(v, path))
        BY <2>4, <4>1, <4>2
      <4>4. out.kind = "dict" /\ Fields(out) = FencePayload(v, path) /\ Container(v)
        BY <3>2, <4>3 DEF Dict, Fields, Container
      <4> QED BY <2>2, <3>2, <4>4 DEF FencedAt, Values
    <3>3. CASE v.kind = "list"
      <4>1. out.kind = "list"
        <5>1. k \in DOMAIN x.fields /\ x.fields[k] = v
          BY <1>2, <2>2
        <5>2. FenceObject(x, p, fence)[k].kind = "list"
          BY <2>7, <3>3, <5>1, ListField
        <5> QED BY <2>3, <3>1, <5>2
      <4>2. Fields(out) = <<>> /\ FencedAt(v, path) = <<>> /\ Container(v)
        BY <3>3, <4>1 DEF Fields, FencedAt, Container
      <4> QED BY <2>2, <3>3, <4>1, <4>2 DEF Values
    <3>4. CASE v.kind \notin {"dict", "list"}
      <4>1. ~Container(v) /\ FencedAt(v, path) = <<>>
        BY <3>4 DEF Container, FencedAt
      <4>2. v.kind \notin {"null", "blank"} /\ ("fence" \in d => v.kind = "str")
        BY <2>7, <4>1 DEF Admitted
      <4>3. out = IF "fence" \in Lookup(path) THEN Str(FenceText(Text(v))) ELSE v
        BY <1>2, <2>2, <2>3, <2>7, <3>1, <3>4 DEF FenceObject
      <4>4. CASE d = {"fence"}
        <5>1. v.kind = "str" /\ out = Str(FenceText(v.text))
          BY <4>2, <4>3, <4>4 DEF Text
        <5> QED BY <2>2, <4>1, <4>4, <5>1 DEF Values
      <4>5. CASE d = {"not_free_text"}
        <5>1. out = v
          BY <4>3, <4>5
        <5>2. Fields(out) = <<>>
          BY <3>4, <5>1 DEF Fields
        <5> QED BY <2>2, <4>1, <4>2, <4>5, <5>1, <5>2 DEF Values
      <4> QED BY <4>4, <4>5
    <3> QED BY <3>2, <3>3, <3>4
  <2> QED BY <2>6, <2>7
<1> QED BY <1>1, <1>2

-----------------------------------------------------------------------------
(* Texts *)

Pieces == Strings \cup {"[stripped]", "o1", "o2", "nl", "c1", "c2"}
IsToken(a, b) ==
    <<a, b>> \in ({"o1", "O1"} \X {"o2", "O2"}) \cup ({"c1", "C1"} \X {"c2", "C2"})
Tokens(s) == {j \in DOMAIN s : TokenAt(s, j)}

\* A delimiter is two pieces at two positions.
LEMMA TokenAtIs ==
    ASSUME NEW s, NEW j
    PROVE  TokenAt(s, j) <=> j \in 1..(Len(s) - 1) /\ IsToken(s[j], s[j + 1])
BY DEF TokenAt, IsToken

\* FlattenSeq joins the members of a sequence one after the other.
LEMMA FlattenSeqIs ==
    ASSUME NEW S, NEW s \in Seq(Seq(S))
    PROVE  \E f : /\ f[0] = <<>> /\ FlattenSeq(s) = f[Len(s)]
                  /\ \A i \in 0..Len(s) : f[i] \in Seq(S)
                  /\ \A i \in 1..Len(s) : f[i] = f[i - 1] \o s[i]
<1> DEFINE Joins(f, n) == /\ f[0] = <<>> /\ \A i \in 0..n : f[i] \in Seq(S)
                          /\ \A i \in 1..n : f[i] = f[i - 1] \o s[i]
           Bad == {n \in 0..Len(s) : ~ \E f : Joins(f, n)}
<1>1. Len(s) \in Nat /\ \A i \in 1..Len(s) : s[i] \in Seq(S)
  BY ElementOfSeq
<1>2. Bad = {}
  <2> SUFFICES ASSUME Bad # {} PROVE FALSE
    OBVIOUS
  <2>1. PICK n \in Bad : \A m \in Bad : n <= m
    <3>1. Bad \subseteq Nat
      <4>1. 0..Len(s) \subseteq Nat
        BY <1>1
      <4> HIDE DEF Joins
      <4> QED BY <4>1
    <3> HIDE DEF Bad
    <3> QED BY <3>1, LeastNat
  <2>2. n # 0
    <3>1. Joins([i \in {0} |-> <<>>], 0)
      OBVIOUS
    <3> HIDE DEF Joins
    <3> QED BY <2>1, <3>1
  <2>3. n \in 1..Len(s) /\ n - 1 \in 0..Len(s) /\ n - 1 \notin Bad
    <3>1. n \in 0..Len(s)
      OBVIOUS
    <3> HIDE DEF Bad
    <3> QED BY <1>1, <2>1, <2>2, <3>1
  <2>4. PICK f : Joins(f, n - 1)
    BY <2>3
  <2> DEFINE g == [i \in 0..n |-> IF i = n THEN f[n - 1] \o s[n] ELSE f[i]]
  <2>5. g[n] = f[n - 1] \o s[n] /\ \A i \in 0..(n - 1) : g[i] = f[i]
    <3>1. n \in 0..n /\ \A i \in 0..(n - 1) : i \in 0..n /\ i # n
      BY <1>1, <2>3
    <3> QED BY <3>1
  <2> HIDE DEF g
  <2>6. f[n - 1] \in Seq(S) /\ s[n] \in Seq(S) /\ n - 1 \in 0..(n - 1) /\ 0 \in 0..(n - 1)
    BY <1>1, <2>3, <2>4
  <2>7. g[n] \in Seq(S)
    BY <2>5, <2>6, ConcatProperties
  <2>8. ASSUME NEW i \in 0..n PROVE g[i] \in Seq(S)
    <3>1. i = n \/ i \in 0..(n - 1)
      BY <1>1, <2>3
    <3> QED BY <2>4, <2>5, <2>7, <3>1
  <2>9. ASSUME NEW i \in 1..n PROVE g[i] = g[i - 1] \o s[i]
    <3>1. i = n \/ i \in 1..(n - 1)
      BY <1>1, <2>3
    <3>2. i - 1 \in 0..(n - 1) /\ (i \in 1..(n - 1) => i \in 0..(n - 1))
      BY <1>1, <2>3
    <3> QED BY <2>4, <2>5, <3>1, <3>2
  <2>10. Joins(g, n)
    BY <2>4, <2>5, <2>6, <2>8, <2>9
  <2> HIDE DEF Joins
  <2> QED BY <2>1, <2>10
<1>3. PICK f : Joins(f, Len(s))
  <2>1. Len(s) \in 0..Len(s)
    BY <1>1
  <2> HIDE DEF Joins
  <2> QED BY <1>2, <2>1
<1>4. CASE Len(s) = 0
  <2>1. FlattenSeq(s) = s /\ s = <<>>
    BY <1>4, EmptySeq DEF FlattenSeq
  <2> QED BY <1>3, <1>4, <2>1
<1>5. CASE Len(s) # 0
  <2> DEFINE n == Len(s)
             Flat(h) == h = [i \in 1..n |-> IF i = 1 THEN s[i] ELSE h[i - 1] \o s[i]]
             c == CHOOSE h : Flat(h)
             h0 == [i \in 1..n |-> f[i]]
  <2>1. n \in Nat /\ n >= 1
    BY <1>1, <1>5
  <2>2. f[1] = s[1]
    <3>1. f[1] = <<>> \o s[1] /\ s[1] \in Seq(S)
      <4>1. 1 \in 1..n /\ 1 - 1 = 0
        BY <2>1
      <4>2. f[1] = f[1 - 1] \o s[1]
        BY <1>3, <4>1
      <4> QED BY <1>1, <1>3, <4>1, <4>2
    <3> QED BY <3>1, ConcatEmptySeq
  <2>3. Flat(h0)
    <3>1. ASSUME NEW i \in 1..n PROVE h0[i] = IF i = 1 THEN s[i] ELSE h0[i - 1] \o s[i]
      <4>1. i # 1 => i - 1 \in 1..n
        BY <2>1
      <4>2. f[i] = f[i - 1] \o s[i]
        BY <1>3
      <4> QED BY <2>2, <4>1, <4>2
    <3>2. h0 = [i \in 1..n |-> h0[i]]
      OBVIOUS
    <3> HIDE DEF h0
    <3> QED BY <3>1, <3>2
  <2>4. Flat(c)
    <3> HIDE DEF Flat, h0
    <3> QED BY <2>3
  <2>5. FlattenSeq(s) = c[n]
    BY <1>5 DEF FlattenSeq
  <2> HIDE DEF c
  <2>6. \A i \in 1..n : c[i] = IF i = 1 THEN s[i] ELSE c[i - 1] \o s[i]
    BY <2>4
  <2> DEFINE Off == {i \in 1..n : c[i] # f[i]}
  <2>7. Off = {}
    <3> SUFFICES ASSUME Off # {} PROVE FALSE
      OBVIOUS
    <3>1. PICK i \in Off : \A m \in Off : i <= m
      <4>1. Off \subseteq Nat
        BY <2>1
      <4> HIDE DEF Off
      <4> QED BY <4>1, LeastNat
    <3>2. i \in 1..n /\ c[i] # f[i]
      OBVIOUS
    <3>3. i # 1
      BY <2>2, <2>6, <3>2
    <3>4. i - 1 \in 1..n /\ i - 1 \notin Off
      <4>1. i - 1 \in 1..n /\ ~(i <= i - 1)
        BY <2>1, <3>2, <3>3
      <4> HIDE DEF Off
      <4> QED BY <3>1, <4>1
    <3>5. c[i - 1] = f[i - 1]
      BY <3>4
    <3>6. f[i] = f[i - 1] \o s[i] /\ c[i] = c[i - 1] \o s[i]
      BY <1>3, <2>6, <3>2, <3>3
    <3> QED BY <3>2, <3>5, <3>6
  <2>8. n \in 1..n
    BY <2>1
  <2>9. c[n] = f[n]
    BY <2>7, <2>8
  <2> QED BY <1>3, <2>5, <2>9
<1> QED BY <1>4, <1>5

\* What one more piece adds to a text.
LEMMA OneMore ==
    ASSUME NEW s \in Seq(Pieces), Len(s) >= 1, NEW e \in Pieces
    PROVE  /\ s \o <<e>> \in Seq(Pieces) /\ Len(s \o <<e>>) = Len(s) + 1
           /\ (s \o <<e>>)[Len(s) + 1] = e
           /\ \A j \in 1..Len(s) : (s \o <<e>>)[j] = s[j]
           /\ IsToken(s[Len(s)], e) => Tokens(s \o <<e>>) = Tokens(s) \cup {Len(s)}
           /\ ~IsToken(s[Len(s)], e) => Tokens(s \o <<e>>) = Tokens(s)
           /\ e = "w" => Cardinality(Words(s \o <<e>>)) = Cardinality(Words(s)) + 1
           /\ e # "w" => Cardinality(Words(s \o <<e>>)) = Cardinality(Words(s))
<1> DEFINE u == s \o <<e>>
<1>0. u = s \o <<e>>
  OBVIOUS
<1> HIDE DEF u
<1>1. /\ Len(s) \in Nat /\ u \in Seq(Pieces) /\ Len(u) = Len(s) + 1 /\ u[Len(u)] = e
      /\ \A j \in 1..Len(s) : u[j] = s[j]
  <2>1. u = Append(s, e)
    BY <1>0, AppendIsConcat
  <2> QED BY <2>1, AppendProperties, LenProperties
<1>2. DOMAIN s = 1..Len(s) /\ DOMAIN u = 1..Len(u)
  BY <1>1, LenProperties
<1>3. Tokens(u) = Tokens(s) \cup IF IsToken(s[Len(s)], e) THEN {Len(s)} ELSE {}
  <2>1. Tokens(s) = {j \in 1..(Len(s) - 1) : IsToken(s[j], s[j + 1])}
    BY <1>1, <1>2, TokenAtIs DEF Tokens
  <2>2. Tokens(u) = {j \in 1..Len(s) : IsToken(u[j], u[j + 1])}
    <3>1. Len(u) - 1 = Len(s) /\ 1..Len(s) \subseteq DOMAIN u
      BY <1>1, <1>2
    <3> QED BY <3>1, TokenAtIs DEF Tokens
  <2>3. \A j \in 1..(Len(s) - 1) : u[j] = s[j] /\ u[j + 1] = s[j + 1]
    BY <1>1
  <2>4. u[Len(s)] = s[Len(s)] /\ u[Len(s) + 1] = e
    BY <1>1
  <2>5. \A j : j \in 1..Len(s) <=> j \in 1..(Len(s) - 1) \/ j = Len(s)
    BY <1>1
  <2> QED BY <2>1, <2>2, <2>3, <2>4, <2>5
<1>4. Words(u) = Words(s) \cup IF e = "w" THEN {Len(u)} ELSE {}
  <2>1. \A j : j \in 1..Len(u) <=> j \in 1..Len(s) \/ j = Len(u)
    BY <1>1
  <2> QED BY <1>1, <1>2, <2>1 DEF Words
<1>5. IsFiniteSet(Words(s)) /\ Len(u) \notin Words(s)
  <2>1. Words(s) \subseteq 1..Len(s) /\ IsFiniteSet(1..Len(s))
    BY <1>1, <1>2, FS_Interval DEF Words
  <2> QED BY <1>1, <2>1, FS_Subset
<1>6. e = "w" => Cardinality(Words(u)) = Cardinality(Words(s)) + 1
  <2> SUFFICES ASSUME e = "w" PROVE Cardinality(Words(u)) = Cardinality(Words(s)) + 1
    OBVIOUS
  <2>1. Words(u) = Words(s) \cup {Len(u)}
    BY <1>4
  <2> QED BY <1>5, <2>1, FS_AddElement
<1>7. e # "w" => Words(u) = Words(s)
  BY <1>4
<1>8. /\ IsToken(s[Len(s)], e) => Tokens(u) = Tokens(s) \cup {Len(s)}
      /\ ~IsToken(s[Len(s)], e) => Tokens(u) = Tokens(s)
  BY <1>3
<1>9. u[Len(s) + 1] = e
  BY <1>1
<1> QED BY <1>0, <1>1, <1>6, <1>7, <1>8, <1>9

\* The words among the first pieces of a text.
WordsUpTo(t, n) == {j \in 1..n : t[j] = "w"}

\* A word more, when the next piece is one.
LEMMA CountOne ==
    ASSUME NEW t, NEW n \in Nat, n >= 1, t[n] = "w"
    PROVE  Cardinality(WordsUpTo(t, n)) = Cardinality(WordsUpTo(t, n - 1)) + 1
<1>1. IsFiniteSet(WordsUpTo(t, n - 1)) /\ n \notin WordsUpTo(t, n - 1)
  <2>1. WordsUpTo(t, n - 1) \subseteq 1..(n - 1) /\ IsFiniteSet(1..(n - 1)) /\ n \notin 1..(n - 1)
    BY FS_Interval DEF WordsUpTo
  <2> QED BY <2>1, FS_Subset
<1>2. \A j : j \in 1..n <=> j \in 1..(n - 1) \/ j = n
  OBVIOUS
<1>3. WordsUpTo(t, n) = WordsUpTo(t, n - 1) \cup {n}
  BY <1>2 DEF WordsUpTo
<1> QED BY <1>1, <1>3, FS_AddElement

\* No word more, when it is none.
LEMMA CountNone ==
    ASSUME NEW t, NEW n \in Nat, n >= 1, t[n] # "w"
    PROVE  Cardinality(WordsUpTo(t, n)) = Cardinality(WordsUpTo(t, n - 1))
<1>1. \A j : j \in 1..n <=> j \in 1..(n - 1) \/ j = n
  OBVIOUS
<1>2. WordsUpTo(t, n) = WordsUpTo(t, n - 1)
  BY <1>1 DEF WordsUpTo
<1> QED BY <1>2

\* A text g that starts as a fence does and goes on with the first n pieces of
\* t, stripped.  Its last piece cannot make a delimiter with what comes next.
Stripping(g, t, n) ==
    /\ g \in Seq(Pieces) /\ Len(g) >= 3 /\ g[1] = "o1" /\ g[2] = "o2"
    /\ Tokens(g) = {1}
    /\ \/ g[Len(g)] \in {"nl", "[stripped]"}
       \/ n >= 1 /\ g[Len(g)] = t[n] /\ ~TokenAt(t, n)
    /\ n >= 1 /\ TokenAt(t, n) => g[Len(g)] = "[stripped]"
    /\ Cardinality(Words(g)) = Cardinality(WordsUpTo(t, n))

Piece(t, j) == IF TokenAt(t, j) THEN FENCE_STRIPPED
               ELSE IF TokenAt(t, j - 1) THEN <<>> ELSE <<t[j]>>

\* The opening delimiter and the line break start a fence.
LEMMA Start ==
    ASSUME NEW t
    PROVE  Stripping(FENCE_OPEN \o <<"nl">>, t, 0)
<1> DEFINE g == FENCE_OPEN \o <<"nl">>
<1>1. /\ FENCE_OPEN \in Seq(Pieces) /\ Len(FENCE_OPEN) = 2 /\ DOMAIN FENCE_OPEN = 1..2
      /\ FENCE_OPEN[1] = "o1" /\ FENCE_OPEN[2] = "o2" /\ "nl" \in Pieces /\ "nl" # "w"
  BY DEF FENCE_OPEN, Pieces
<1>2. IsToken("o1", "o2") /\ ~IsToken("o2", "nl")
  BY DEF IsToken
<1>3. \A j : j \in 1..2 <=> j = 1 \/ j = 2
  OBVIOUS
<1>4. Tokens(FENCE_OPEN) = {1}
  <2>1. Tokens(FENCE_OPEN) = {j \in 1..1 : IsToken(FENCE_OPEN[j], FENCE_OPEN[j + 1])}
    <3>1. Len(FENCE_OPEN) - 1 = 1 /\ 1..1 \subseteq DOMAIN FENCE_OPEN
      BY <1>1
    <3> QED BY <3>1, TokenAtIs DEF Tokens
  <2>2. FENCE_OPEN[1 + 1] = "o2" /\ \A j : j \in 1..1 <=> j = 1
    BY <1>1
  <2> QED BY <1>1, <1>2, <2>1, <2>2
<1>5. Words(FENCE_OPEN) = {} /\ WordsUpTo(t, 0) = {}
  BY <1>1, <1>3 DEF Words, WordsUpTo
<1>6. /\ g \in Seq(Pieces) /\ Len(g) = 2 + 1 /\ g[2 + 1] = "nl" /\ g[1] = "o1" /\ g[2] = "o2"
      /\ Tokens(g) = {1} /\ Cardinality(Words(g)) = Cardinality(Words(FENCE_OPEN))
  <2> DEFINE o == FENCE_OPEN
  <2>1. g = o \o <<"nl">> /\ o = FENCE_OPEN /\ 1 \in 1..2 /\ 2 \in 1..2
    OBVIOUS
  <2> HIDE DEF g, o
  <2>2. o \in Seq(Pieces) /\ Len(o) = 2 /\ Len(o) >= 1 /\ ~IsToken(o[Len(o)], "nl")
    <3>1. o \in Seq(Pieces) /\ Len(o) = 2 /\ o[2] = "o2"
      BY <1>1, <2>1
    <3>2. o[Len(o)] = "o2"
      BY <3>1
    <3> QED BY <1>2, <3>1, <3>2
  <2>3. /\ g \in Seq(Pieces) /\ Len(g) = Len(o) + 1 /\ g[Len(o) + 1] = "nl"
        /\ \A j \in 1..Len(o) : g[j] = o[j]
        /\ Tokens(g) = Tokens(o) /\ Cardinality(Words(g)) = Cardinality(Words(o))
    BY <1>1, <2>1, <2>2, OneMore
  <2> QED BY <1>1, <1>4, <2>1, <2>2, <2>3
<1> HIDE DEF g
<1>7. g \in Seq(Pieces) /\ Len(g) >= 3 /\ g[Len(g)] = "nl" /\ ~(0 >= 1)
  BY <1>6
<1>8. Cardinality(Words(g)) = Cardinality(WordsUpTo(t, 0))
  BY <1>5, <1>6
<1>9. Stripping(g, t, 0)
  BY <1>6, <1>7, <1>8, Zenon DEF Stripping
<1> QED BY <1>9 DEF g

\* One more piece, stripped, keeps what Stripping says.
LEMMA StripOne ==
    ASSUME NEW t \in Seq(Strings), NEW n \in 1..Len(t), NEW g, Stripping(g, t, n - 1)
    PROVE  Stripping(g \o Piece(t, n), t, n)
<1>1. /\ Len(t) \in Nat /\ t[n] \in Strings /\ n \in Nat /\ n >= 1
      /\ g \in Seq(Pieces) /\ Len(g) \in Nat /\ Len(g) >= 3 /\ Tokens(g) = {1}
      /\ g[1] = "o1" /\ g[2] = "o2"
      /\ Cardinality(Words(g)) = Cardinality(WordsUpTo(t, n - 1))
  BY LenProperties, ElementOfSeq DEF Stripping
<1>2. /\ 1 \in 1..Len(g) /\ 2 \in 1..Len(g) /\ (n - 1) + 1 = n
      /\ n - 1 >= 1 => n - 1 \in 1..(Len(t) - 1)
  BY <1>1
<1>3. CASE TokenAt(t, n)
  <2> DEFINE u == g \o <<"[stripped]">>
  <2>1. Piece(t, n) = <<"[stripped]">> /\ "[stripped]" \in Pieces
    BY <1>3 DEF Piece, FENCE_STRIPPED, Pieces
  <2>2. t[n] # "w"
    BY <1>3, TokenAtIs DEF IsToken
  <2>3. ~IsToken(g[Len(g)], "[stripped]")
    BY DEF IsToken
  <2>4. /\ u \in Seq(Pieces) /\ Len(u) = Len(g) + 1 /\ u[Len(u)] = "[stripped]"
        /\ u[1] = "o1" /\ u[2] = "o2" /\ Tokens(u) = {1}
        /\ Cardinality(Words(u)) = Cardinality(Words(g))
    <3>1. u = g \o <<"[stripped]">> /\ Len(g) >= 1 /\ "[stripped]" # "w"
      BY <1>1
    <3> HIDE DEF u
    <3>2. /\ u \in Seq(Pieces) /\ Len(u) = Len(g) + 1 /\ u[Len(g) + 1] = "[stripped]"
          /\ \A j \in 1..Len(g) : u[j] = g[j]
          /\ Tokens(u) = Tokens(g) /\ Cardinality(Words(u)) = Cardinality(Words(g))
      BY <1>1, <2>1, <2>3, <3>1, OneMore
    <3> QED BY <1>1, <1>2, <3>2
  <2>5. Cardinality(Words(u)) = Cardinality(WordsUpTo(t, n))
    BY <1>1, <2>2, <2>4, CountNone
  <2> HIDE DEF u
  <2>6. Stripping(u, t, n)
    BY <1>1, <2>4, <2>5 DEF Stripping
  <2> QED BY <2>1, <2>6 DEF u
<1>4. CASE ~TokenAt(t, n) /\ TokenAt(t, n - 1)
  <2>1. g \o Piece(t, n) = g
    BY <1>1, <1>4, ConcatEmptySeq DEF Piece
  <2>2. n - 1 >= 1 /\ IsToken(t[n - 1], t[(n - 1) + 1])
    BY <1>1, <1>4, TokenAtIs
  <2>3. t[n] # "w"
    BY <1>2, <2>2 DEF IsToken
  <2>4. g[Len(g)] = "[stripped]"
    BY <1>4, <2>2 DEF Stripping
  <2>5. Cardinality(WordsUpTo(t, n)) = Cardinality(WordsUpTo(t, n - 1))
    BY <1>1, <2>3, CountNone
  <2> QED BY <1>1, <1>4, <2>1, <2>4, <2>5 DEF Stripping
<1>5. CASE ~TokenAt(t, n) /\ ~TokenAt(t, n - 1)
  <2> DEFINE u == g \o <<t[n]>>
  <2>1. Piece(t, n) = <<t[n]>> /\ t[n] \in Pieces
    BY <1>1, <1>5 DEF Piece, Pieces
  <2>2. ~IsToken(g[Len(g)], t[n])
    <3>1. CASE g[Len(g)] \in {"nl", "[stripped]"}
      BY <3>1 DEF IsToken
    <3>2. CASE n - 1 >= 1 /\ g[Len(g)] = t[n - 1]
      <4>1. TokenAt(t, n - 1) <=> IsToken(t[n - 1], t[(n - 1) + 1])
        BY <1>2, <3>2, TokenAtIs
      <4> QED BY <1>2, <1>5, <3>2, <4>1
    <3> QED BY <3>1, <3>2 DEF Stripping
  <2>3. /\ u \in Seq(Pieces) /\ Len(u) = Len(g) + 1 /\ u[Len(u)] = t[n]
        /\ u[1] = "o1" /\ u[2] = "o2" /\ Tokens(u) = {1}
        /\ t[n] = "w" => Cardinality(Words(u)) = Cardinality(Words(g)) + 1
        /\ t[n] # "w" => Cardinality(Words(u)) = Cardinality(Words(g))
    <3>1. u = g \o <<t[n]>> /\ Len(g) >= 1
      BY <1>1
    <3> HIDE DEF u
    <3>2. /\ u \in Seq(Pieces) /\ Len(u) = Len(g) + 1 /\ u[Len(g) + 1] = t[n]
          /\ \A j \in 1..Len(g) : u[j] = g[j]
          /\ Tokens(u) = Tokens(g)
      BY <1>1, <2>1, <2>2, <3>1, OneMore
    <3>3. /\ t[n] = "w" => Cardinality(Words(u)) = Cardinality(Words(g)) + 1
          /\ t[n] # "w" => Cardinality(Words(u)) = Cardinality(Words(g))
      BY <1>1, <2>1, <3>1, OneMore
    <3> QED BY <1>1, <1>2, <3>2, <3>3
  <2>4. Cardinality(Words(u)) = Cardinality(WordsUpTo(t, n))
    <3>1. CASE t[n] = "w"
      BY <1>1, <2>3, <3>1, CountOne
    <3>2. CASE t[n] # "w"
      BY <1>1, <2>3, <3>2, CountNone
    <3> QED BY <3>1, <3>2
  <2> HIDE DEF u
  <2>5. Stripping(u, t, n)
    BY <1>1, <1>5, <2>3, <2>4 DEF Stripping
  <2> QED BY <2>1, <2>5 DEF u
<1> QED BY <1>3, <1>4, <1>5

\* DESIGN 6.1: fenced content cannot close its own fence, and loses no word.
LEMMA FenceTextEncloses ==
    ASSUME NEW t \in Seq(Strings)
    PROVE  Encloses(FenceText(t), t)
<1> DEFINE s == [j \in DOMAIN t |-> Piece(t, j)]
           start == FENCE_OPEN \o <<"nl">>
<1>1. Len(t) \in Nat /\ DOMAIN t = 1..Len(t) /\ \A j \in 1..Len(t) : t[j] \in Strings
  BY LenProperties, ElementOfSeq
<1>2. s \in Seq(Seq(Pieces)) /\ Len(s) = Len(t) /\ \A j \in 1..Len(t) : s[j] = Piece(t, j)
  <2>1. \A j \in 1..Len(t) : Piece(t, j) \in Seq(Pieces)
    <3> SUFFICES ASSUME NEW j \in 1..Len(t) PROVE Piece(t, j) \in Seq(Pieces)
      OBVIOUS
    <3>1. t[j] \in Pieces /\ "[stripped]" \in Pieces
      BY <1>1 DEF Pieces
    <3> QED BY <3>1 DEF Piece, FENCE_STRIPPED
  <2>2. s \in [1..Len(t) -> Seq(Pieces)]
    BY <1>1, <2>1
  <2> QED BY <1>1, <2>2, IsASeq, LenProperties
<1>3. Stripped(t, FENCE_STRIPPED) = FlattenSeq(s)
  BY DEF Stripped, Piece
<1> HIDE DEF s
<1>4. PICK f : /\ f[0] = <<>> /\ FlattenSeq(s) = f[Len(t)]
               /\ \A i \in 0..Len(t) : f[i] \in Seq(Pieces)
               /\ \A i \in 1..Len(t) : f[i] = f[i - 1] \o s[i]
  <2>1. \E h : /\ h[0] = <<>> /\ FlattenSeq(s) = h[Len(s)]
               /\ \A i \in 0..Len(s) : h[i] \in Seq(Pieces)
               /\ \A i \in 1..Len(s) : h[i] = h[i - 1] \o s[i]
    BY <1>2, FlattenSeqIs
  <2> QED BY <1>2, <2>1
<1>5. start \in Seq(Pieces) /\ Stripping(start, t, 0)
  BY Start DEF Stripping
<1> HIDE DEF start
<1> DEFINE Bad == {i \in 0..Len(t) : ~Stripping(start \o f[i], t, i)}
<1>6. Bad = {}
  <2> SUFFICES ASSUME Bad # {} PROVE FALSE
    OBVIOUS
  <2>1. PICK n \in Bad : \A m \in Bad : n <= m
    <3>1. Bad \subseteq Nat
      BY <1>1
    <3> HIDE DEF Bad
    <3> QED BY <3>1, LeastNat
  <2>2. n # 0
    <3>1. start \o f[0] = start
      BY <1>4, <1>5, ConcatEmptySeq
    <3> QED BY <1>5, <3>1
  <2>3. n \in 1..Len(t) /\ n - 1 \in 0..Len(t) /\ n - 1 \notin Bad
    <3>1. n \in 0..Len(t)
      OBVIOUS
    <3> HIDE DEF Bad
    <3> QED BY <1>1, <2>1, <2>2, <3>1
  <2>4. Stripping(start \o f[n - 1], t, n - 1)
    BY <2>3
  <2>5. Stripping((start \o f[n - 1]) \o s[n], t, n)
    BY <1>2, <2>3, <2>4, StripOne
  <2>6. f[n - 1] \in Seq(Pieces) /\ s[n] \in Seq(Pieces) /\ f[n] = f[n - 1] \o s[n]
    BY <1>2, <1>4, <2>3, ElementOfSeq
  <2>7. (start \o f[n - 1]) \o s[n] = start \o f[n]
    <3>1. start \in Seq(Pieces)
      BY <1>5
    <3>2. (start \o f[n - 1]) \o s[n] = start \o (f[n - 1] \o s[n])
      <4>1. \A x, y, z \in Seq(Pieces) : (x \o y) \o z = x \o (y \o z)
        BY ConcatAssociative
      <4> QED BY <2>6, <3>1, <4>1
    <3> QED BY <2>6, <3>2
  <2> QED BY <2>5, <2>7
<1> DEFINE g == start \o f[Len(t)]
           g1 == g \o <<"nl">>
           g2 == g1 \o <<"c1">>
           g3 == g2 \o <<"c2">>
<1>7. Stripping(g, t, Len(t))
  BY <1>1, <1>6
<1>8. FenceText(t) = g3
  <2>1. FenceText(t) = (g \o <<"nl">>) \o FENCE_CLOSE
    BY <1>3, <1>4 DEF FenceText, start
  <2>2. g \in Seq(Pieces) /\ <<"nl">> \in Seq(Pieces) /\ <<"c1">> \in Seq(Pieces) /\ <<"c2">> \in Seq(Pieces)
    BY <1>7 DEF Stripping, Pieces
  <2> HIDE DEF g
  <2>3. g1 \in Seq(Pieces)
    BY <2>2, ConcatProperties
  <2> HIDE DEF g1
  <2>4. FENCE_CLOSE = <<"c1">> \o <<"c2">>
    BY DEF FENCE_CLOSE
  <2>5. g1 \o (<<"c1">> \o <<"c2">>) = (g1 \o <<"c1">>) \o <<"c2">>
    BY <2>2, <2>3, ConcatAssociative
  <2> QED BY <2>1, <2>4, <2>5 DEF g1
<1>9. /\ g \in Seq(Pieces) /\ Len(g) \in Nat /\ Len(g) >= 3 /\ g[1] = "o1" /\ g[2] = "o2"
      /\ Tokens(g) = {1} /\ Cardinality(Words(g)) = Cardinality(WordsUpTo(t, Len(t)))
  BY <1>7, LenProperties DEF Stripping
<1>10. Cardinality(Words(g)) \in Nat
  <2>1. IsFiniteSet(Words(g))
    <3> HIDE DEF g
    <3>1. DOMAIN g = 1..Len(g)
      BY <1>9, LenProperties
    <3>2. Words(g) \subseteq 1..Len(g)
      BY <3>1 DEF Words
    <3>3. IsFiniteSet(1..Len(g))
      BY <1>9, FS_Interval
    <3> QED BY <3>2, <3>3, FS_Subset
  <2> QED BY <2>1, FS_CardinalityType
<1> HIDE DEF g
<1>11. /\ g1 \in Seq(Pieces) /\ Len(g1) = Len(g) + 1 /\ g1[Len(g1)] = "nl"
       /\ g1[1] = "o1" /\ g1[2] = "o2" /\ Tokens(g1) = {1}
       /\ Cardinality(Words(g1)) = Cardinality(Words(g))
  <2>1. g1 = g \o <<"nl">>
    OBVIOUS
  <2> HIDE DEF g1
  <2>2. "nl" \in Pieces /\ "nl" # "w" /\ ~IsToken(g[Len(g)], "nl")
    BY <1>9 DEF Pieces, IsToken
  <2>3. Len(g) >= 1 /\ Len(g) \in Nat /\ 1 \in 1..Len(g) /\ 2 \in 1..Len(g)
    BY <1>9
  <2>4. /\ g1 \in Seq(Pieces) /\ Len(g1) = Len(g) + 1 /\ g1[Len(g) + 1] = "nl"
        /\ \A j \in 1..Len(g) : g1[j] = g[j]
        /\ Tokens(g1) = Tokens(g) /\ Cardinality(Words(g1)) = Cardinality(Words(g))
    BY <1>9, <2>1, <2>2, <2>3, OneMore
  <2> QED BY <1>9, <2>3, <2>4
<1> HIDE DEF g1
<1>12. /\ g2 \in Seq(Pieces) /\ Len(g2) = Len(g1) + 1 /\ g2[Len(g2)] = "c1"
       /\ g2[1] = "o1" /\ g2[2] = "o2" /\ Tokens(g2) = {1}
       /\ Cardinality(Words(g2)) = Cardinality(Words(g))
  <2>1. g2 = g1 \o <<"c1">>
    OBVIOUS
  <2> HIDE DEF g2
  <2>2. "c1" \in Pieces /\ "c1" # "w" /\ ~IsToken(g1[Len(g1)], "c1")
    BY <1>9, <1>11 DEF Pieces, IsToken
  <2>3. Len(g1) >= 1 /\ Len(g1) \in Nat /\ 1 \in 1..Len(g1) /\ 2 \in 1..Len(g1)
    BY <1>9, <1>11
  <2>4. /\ g2 \in Seq(Pieces) /\ Len(g2) = Len(g1) + 1 /\ g2[Len(g1) + 1] = "c1"
        /\ \A j \in 1..Len(g1) : g2[j] = g1[j]
        /\ Tokens(g2) = Tokens(g1) /\ Cardinality(Words(g2)) = Cardinality(Words(g1))
    BY <1>9, <1>11, <2>1, <2>2, <2>3, OneMore
  <2> QED BY <1>9, <1>11, <2>3, <2>4
<1> HIDE DEF g2
<1>13. /\ g3 \in Seq(Pieces) /\ Len(g3) = Len(g2) + 1 /\ g3[Len(g3)] = "c2" /\ g3[Len(g2)] = "c1"
       /\ g3[1] = "o1" /\ g3[2] = "o2" /\ Tokens(g3) = {1, Len(g2)}
       /\ Cardinality(Words(g3)) = Cardinality(Words(g))
  <2>1. g3 = g2 \o <<"c2">>
    OBVIOUS
  <2> HIDE DEF g3
  <2>2. "c2" \in Pieces /\ "c2" # "w" /\ IsToken(g2[Len(g2)], "c2")
    BY <1>12 DEF Pieces, IsToken
  <2>3. Len(g2) >= 1 /\ 1 \in 1..Len(g2) /\ 2 \in 1..Len(g2) /\ Len(g2) \in 1..Len(g2)
    BY <1>9, <1>11, <1>12
  <2>4. /\ g3 \in Seq(Pieces) /\ Len(g3) = Len(g2) + 1 /\ g3[Len(g2) + 1] = "c2"
        /\ \A j \in 1..Len(g2) : g3[j] = g2[j]
        /\ Tokens(g3) = Tokens(g2) \cup {Len(g2)}
        /\ Cardinality(Words(g3)) = Cardinality(Words(g2))
    <3>1. g2 \in Seq(Pieces)
      BY <1>12
    <3>2. /\ g3 \in Seq(Pieces) /\ Len(g3) = Len(g2) + 1 /\ g3[Len(g2) + 1] = "c2"
          /\ \A j \in 1..Len(g2) : g3[j] = g2[j]
      BY <2>1, <2>2, <2>3, <3>1, OneMore
    <3>3. Tokens(g3) = Tokens(g2) \cup {Len(g2)}
      BY <2>1, <2>2, <2>3, <3>1, OneMore
    <3>4. Cardinality(Words(g3)) = Cardinality(Words(g2))
      BY <2>1, <2>2, <2>3, <3>1, OneMore
    <3> QED BY <3>2, <3>3, <3>4
  <2>5. Tokens(g3) = {1, Len(g2)}
    BY <1>12, <2>4
  <2> QED BY <1>12, <2>3, <2>4, <2>5
<1> HIDE DEF g3
<1>14. Len(g3) - 1 = Len(g2)
  BY <1>9, <1>11, <1>12, <1>13
<1>15. Words(t) = WordsUpTo(t, Len(t))
  BY <1>1 DEF Words, WordsUpTo
<1> QED BY <1>8, <1>9, <1>13, <1>14, <1>15 DEF Encloses, FENCE_OPEN, FENCE_CLOSE, Tokens

\* What the strict model and the calendar take.
Taken(v) == v.kind \in {"str", "date", "null"}

\* A field the candidate types is fenced, is an absence, or is refused.
LEMMA TypedField ==
    ASSUME NEW x \in Values, NEW p \in Paths, NEW k \in Strings, Lookup(Append(p, k)) = {"fence"},
           NEW v, v = At(x, k), NEW out, out = Get(FencedAt(x, p), k)
    PROVE  /\ Container(v) <=> ~Taken(out)
           /\ v.kind = "str" => out.kind = "str" /\ Encloses(out.text, v.text)
           /\ ~Container(v) /\ v.kind # "str" => out = Scalar("null")
<1>1. /\ v \in Values
      /\ Container(v) => out.kind = v.kind
      /\ ~Container(v) => out = IF v.kind = "str" THEN Str(FenceText(v.text)) ELSE Scalar("null")
  BY OneField
<1>2. CASE Container(v)
  BY <1>1, <1>2 DEF Container, Taken
<1>3. CASE v.kind = "str"
  <2>1. ~Container(v) /\ v \in Json
    BY <1>1, <1>3 DEF Container, Values, Scalar
  <2>2. v.text \in Seq(Strings)
    BY <1>3, <2>1, PayloadsAssumption
  <2>3. Encloses(FenceText(v.text), v.text)
    BY <2>2, FenceTextEncloses
  <2>4. out = Str(FenceText(v.text))
    BY <1>1, <1>3, <2>1
  <2>5. out.kind = "str" /\ out.text = FenceText(v.text)
    BY <2>4 DEF Str
  <2> QED BY <1>3, <2>1, <2>3, <2>5 DEF Taken
<1>4. CASE ~Container(v) /\ v.kind # "str"
  BY <1>1, <1>4 DEF Taken, Scalar
<1> QED BY <1>2, <1>3, <1>4

\* A field of the operator's side is passed on as it came.
LEMMA OperatorField ==
    ASSUME NEW x \in Values, NEW p \in Paths, NEW k \in Strings,
           Lookup(Append(p, k)) = {"not_free_text"},
           NEW v, v = At(x, k), NEW out, out = Get(FencedAt(x, p), k)
    PROVE  /\ v \in Values /\ Fields(out) = FencedAt(v, Append(p, k))
           /\ v.kind \notin {"str", "null", "blank"} <=> ~Taken(out)
           /\ v.kind = "str" => out = v
           /\ v.kind \in {"null", "blank"} => out = Scalar("null")
           /\ v.kind \notin {"null", "blank"} => out.kind = v.kind
<1>1. /\ v \in Values /\ Fields(out) = FencedAt(v, Append(p, k))
      /\ Container(v) => out.kind = v.kind
      /\ ~Container(v) => out = IF v.kind \in {"null", "blank"} THEN Scalar("null") ELSE v
  <2>1. \A d : d = {"not_free_text"} => d # {"fence"}
    OBVIOUS
  <2> QED BY OneField
<1>2. v.kind \in {"null", "blank", "int", "huge", "bool", "str", "dict", "list"}
  BY <1>1 DEF Values, Json, Scalar
<1>3. CASE Container(v)
  BY <1>1, <1>3 DEF Container, Taken
<1>4. CASE ~Container(v)
  BY <1>1, <1>2, <1>4 DEF Container, Taken, Scalar
<1> QED BY <1>3, <1>4

\* What FencePayload leaves of a record where the tool looks for each attribute.
Left(raw) ==
    LET a == At(raw, "application")
    IN  [eId      |-> Get(FencedAt(raw, Top), "eId"),
         title    |-> Get(FencedAt(raw, Top), "title"),
         sentDate |-> Get(FencedAt(a, InApplication), "sentDate"),
         content  |-> Get(FencedAt(At(a, "resume"), InResume), "content"),
         jobTitle |-> Get(FencedAt(At(a, "job"), InJob), "title")]

Attributes == {"eId", "title", "sentDate", "content", "jobTitle"}

\* to_candidate finds under each name what was left there, and takes it or fails.
LEMMA Looked ==
    ASSUME NEW raw \in Records
    PROVE  LET l == Left(raw)
               values == [eId |-> l.eId, title |-> l.title, sentDate |-> Date(l.sentDate),
                          content |-> l.content, jobTitle |-> l.jobTitle]
           IN  ToCandidate(raw) = IF \E a \in Attributes : ~Taken(values[a]) THEN Failed
                                  ELSE Dict(values)
<1> DEFINE app == At(raw, "application")
           res == At(app, "resume")
           job == At(app, "job")
<1>1. raw \in Values /\ raw.kind = "dict"
  BY PayloadsAssumption DEF Values, Objects
<1>2. FencePayload(raw, <<"candidates", "[]">>) = FencedAt(raw, Top)
  BY <1>1 DEF FencedAt, Top
<1>3. app \in Values /\ Fields(Get(FencedAt(raw, Top), "application")) = FencedAt(app, InApplication)
  BY <1>1, Walked, FieldNames, Decisions, OperatorField DEF InApplication
<1> HIDE DEF app
<1>4. res \in Values /\ Fields(Get(FencedAt(app, InApplication), "resume")) = FencedAt(res, InResume)
  BY <1>3, Walked, FieldNames, Decisions, OperatorField DEF InResume
<1>5. job \in Values /\ Fields(Get(FencedAt(app, InApplication), "job")) = FencedAt(job, InJob)
  BY <1>3, Walked, FieldNames, Decisions, OperatorField DEF InJob
<1> HIDE DEF res, job
<1> DEFINE l == Left(raw)
           values == [eId |-> l.eId, title |-> l.title, sentDate |-> Date(l.sentDate),
                      content |-> l.content, jobTitle |-> l.jobTitle]
<1>6. l = [eId      |-> Get(FencedAt(raw, Top), "eId"),
           title    |-> Get(FencedAt(raw, Top), "title"),
           sentDate |-> Get(FencedAt(app, InApplication), "sentDate"),
           content  |-> Get(FencedAt(res, InResume), "content"),
           jobTitle |-> Get(FencedAt(job, InJob), "title")]
  BY DEF Left, app, res, job
<1> HIDE DEF l
<1>7. ToCandidate(raw) = IF \E a \in DOMAIN values : values[a].kind \notin {"str", "date", "null"}
                         THEN Failed ELSE Dict(values)
  BY <1>2, <1>3, <1>4, <1>5, <1>6 DEF ToCandidate
<1>8. DOMAIN values = Attributes
  BY DEF Attributes
<1> HIDE DEF values
<1>9. ToCandidate(raw) = IF \E a \in Attributes : ~Taken(values[a]) THEN Failed ELSE Dict(values)
  BY <1>7, <1>8 DEF Taken
<1> QED BY <1>9 DEF values, l

\* The first walk, from an input to what came of it.
LEMMA RecordFenced ==
    ASSUME task = "record", input \in Records, output = ToCandidate(input)
    PROVE  FencedByPath
<1> DEFINE app == At(input, "application")
           res == At(app, "resume")
           job == At(app, "job")
           l == Left(input)
           values == [eId |-> l.eId, title |-> l.title, sentDate |-> Date(l.sentDate),
                      content |-> l.content, jobTitle |-> l.jobTitle]
<1>1. output = IF \E a \in Attributes : ~Taken(values[a]) THEN Failed ELSE Dict(values)
  BY Looked
<1>2. input \in Values /\ app \in Values /\ res \in Values /\ job \in Values
  <2>1. input \in Values
    BY PayloadsAssumption DEF Values, Objects
  <2>2. app \in Values
    BY <2>1, Walked, FieldNames, Decisions, OperatorField DEF InApplication
  <2> HIDE DEF app
  <2>3. res \in Values
    BY <2>2, Walked, FieldNames, Decisions, OperatorField DEF InResume
  <2>4. job \in Values
    BY <2>2, Walked, FieldNames, Decisions, OperatorField DEF InJob
  <2> QED BY <2>1, <2>2, <2>3, <2>4
<1>3. /\ l.eId = Get(FencedAt(input, Top), "eId")
      /\ l.title = Get(FencedAt(input, Top), "title")
      /\ l.sentDate = Get(FencedAt(app, InApplication), "sentDate")
      /\ l.content = Get(FencedAt(res, InResume), "content")
      /\ l.jobTitle = Get(FencedAt(job, InJob), "title")
  BY DEF Left
<1>4. /\ Source.eId = At(input, "eId") /\ Source.title = At(input, "title")
      /\ Source.sentDate = At(app, "sentDate") /\ Source.content = At(res, "content")
      /\ Source.jobTitle = At(job, "title") /\ DOMAIN Source = Attributes
  BY DEF Source, Attributes
<1>5. /\ values.eId = l.eId /\ values.title = l.title /\ values.sentDate = Date(l.sentDate)
      /\ values.content = l.content /\ values.jobTitle = l.jobTitle
  OBVIOUS
<1> HIDE DEF app, res, job, l, values
<1> DEFINE Right(a) ==
               LET v == Source[a]
                   shown == values[a]
               IN  CASE a = "sentDate" /\ v.kind = "int" -> shown = Scalar("date")
                     [] a # "sentDate" /\ v.kind = "str" ->
                           IF a \in Typed
                           THEN shown.kind = "str" /\ Encloses(shown.text, v.text)
                           ELSE shown = v
                     [] OTHER -> shown = Scalar("null")
<1>6. ASSUME NEW a \in {"title", "content"}
      PROVE  (Mistyped(a) <=> ~Taken(values[a])) /\ (~Mistyped(a) => Right(a))
  <2>1. /\ Container(Source[a]) <=> ~Taken(values[a])
        /\ Source[a].kind = "str" => values[a].kind = "str" /\ Encloses(values[a].text, Source[a].text)
        /\ ~Container(Source[a]) /\ Source[a].kind # "str" => values[a] = Scalar("null")
    <3>1. CASE a = "title"
      BY <1>2, <1>3, <1>4, <1>5, <3>1, Walked, FieldNames, Decisions, TypedField
    <3>2. CASE a = "content"
      BY <1>2, <1>3, <1>4, <1>5, <3>2, Walked, FieldNames, Decisions, TypedField
    <3> QED BY <3>1, <3>2
  <2>2. Mistyped(a) <=> Container(Source[a])
    BY DEF Mistyped, Typed
  <2>3. a # "sentDate" /\ a \in Typed
    BY DEF Typed
  <2> HIDE DEF Mistyped
  <2> QED BY <2>1, <2>2, <2>3
<1>7. ASSUME NEW a \in {"eId", "jobTitle"}
      PROVE  (Mistyped(a) <=> ~Taken(values[a])) /\ (~Mistyped(a) => Right(a))
  <2>1. /\ Source[a].kind \notin {"str", "null", "blank"} <=> ~Taken(values[a])
        /\ Source[a].kind = "str" => values[a] = Source[a]
        /\ Source[a].kind \in {"null", "blank"} => values[a] = Scalar("null")
    <3>1. CASE a = "eId"
      BY <1>2, <1>3, <1>4, <1>5, <3>1, Walked, FieldNames, Decisions, OperatorField
    <3>2. CASE a = "jobTitle"
      BY <1>2, <1>3, <1>4, <1>5, <3>2, Walked, FieldNames, Decisions, OperatorField
    <3> QED BY <3>1, <3>2
  <2>2. Mistyped(a) <=> Source[a].kind \notin {"str", "null", "blank"}
    BY DEF Mistyped, Typed
  <2>3. a # "sentDate" /\ a \notin Typed
    BY DEF Typed
  <2> QED BY <2>1, <2>2, <2>3
<1>8. (Mistyped("sentDate") <=> ~Taken(values.sentDate)) /\ (~Mistyped("sentDate") => Right("sentDate"))
  <2> DEFINE v == Source.sentDate
             out == l.sentDate
  <2>1. /\ v.kind \in {"null", "blank"} => out.kind = "null"
        /\ v.kind \notin {"null", "blank"} => out.kind = v.kind
    <3>1. /\ v.kind \in {"null", "blank"} => out = Scalar("null")
          /\ v.kind \notin {"null", "blank"} => out.kind = v.kind
      BY <1>2, <1>3, <1>4, Walked, FieldNames, Decisions, OperatorField
    <3> QED BY <3>1 DEF Scalar
  <2>2. Mistyped("sentDate") <=> v.kind = "huge"
    BY DEF Mistyped
  <2> HIDE DEF v, out
  <2>3. /\ v.kind = "int" => Date(out) = Scalar("date")
        /\ v.kind = "huge" => Date(out) = Failed
        /\ v.kind \notin {"int", "huge"} => Date(out) = Scalar("null")
    BY <2>1 DEF Date
  <2>4. Taken(Scalar("date")) /\ Taken(Scalar("null")) /\ ~Taken(Failed)
    BY DEF Taken, Scalar, Failed
  <2>5. values.sentDate = Date(out)
    BY <1>5 DEF out
  <2>6. Mistyped("sentDate") <=> ~Taken(values.sentDate)
    BY <2>2, <2>3, <2>4, <2>5
  <2>7. v.kind # "huge" => values.sentDate = IF v.kind = "int" THEN Scalar("date") ELSE Scalar("null")
    BY <2>3, <2>5
  <2> QED BY <2>2, <2>6, <2>7 DEF v
<1>9. \A a \in Attributes : (Mistyped(a) <=> ~Taken(values[a])) /\ (~Mistyped(a) => Right(a))
  BY <1>6, <1>7, <1>8 DEF Attributes
<1>10. CASE \E a \in Attributes : Mistyped(a)
  BY <1>1, <1>4, <1>9, <1>10 DEF FencedByPath
<1>11. CASE ~ \E a \in Attributes : Mistyped(a)
  <2>1. output = Dict(values) /\ \A a \in Attributes : Right(a)
    BY <1>1, <1>9, <1>11
  <2>2. output # Failed /\ output.fields = values
    BY <2>1 DEF Dict, Failed, Scalar
  <2>3. \A a \in DOMAIN Source : Right(a)
    BY <1>4, <2>1
  <2> QED BY <1>4, <1>11, <2>2, <2>3 DEF FencedByPath
<1> QED BY <1>10, <1>11

-----------------------------------------------------------------------------
(* What an audit record shows *)

Root(v) == {[names |-> {}, value |-> v]}
Below(level) == UNION {Under(w) : w \in level}
Levels(v, n, f) == f = [m \in 0..n |-> IF m = 0 THEN Root(v) ELSE Below(f[m - 1])]

\* The levels below a value exist, however many are asked for.
LEMMA LevelsExist ==
    ASSUME NEW v, NEW n \in Nat
    PROVE  \E f : Levels(v, n, f)
<1> DEFINE Bad == {m \in Nat : ~ \E f : Levels(v, m, f)}
<1>1. Bad = {}
  <2> SUFFICES ASSUME Bad # {} PROVE FALSE
    OBVIOUS
  <2>1. PICK b \in Bad : \A m \in Bad : b <= m
    <3>1. Bad \subseteq Nat
      OBVIOUS
    <3> HIDE DEF Bad
    <3> QED BY <3>1, LeastNat
  <2>2. b \in Nat /\ ~ \E f : Levels(v, b, f)
    OBVIOUS
  <2>3. b # 0
    <3> DEFINE f == [m \in 0..0 |-> Root(v)]
    <3>1. f = [m \in 0..0 |-> IF m = 0 THEN Root(v) ELSE Below(f[m - 1])]
      OBVIOUS
    <3>2. Levels(v, 0, f)
      BY <3>1 DEF Levels
    <3> QED BY <2>2, <3>2
  <2>4. b - 1 \in Nat /\ b - 1 \notin Bad
    <3>1. b - 1 \in Nat /\ ~(b <= b - 1)
      BY <2>2, <2>3
    <3> HIDE DEF Bad
    <3> QED BY <2>1, <3>1
  <2>5. PICK g : Levels(v, b - 1, g)
    BY <2>4
  <2> DEFINE f == [m \in 0..b |-> IF m = b THEN Below(g[b - 1]) ELSE g[m]]
  <2>6. \A m \in 0..(b - 1) : g[m] = IF m = 0 THEN Root(v) ELSE Below(g[m - 1])
    BY <2>5, Zenon DEF Levels
  <2>7. ASSUME NEW m \in 0..b
        PROVE  f[m] = IF m = 0 THEN Root(v) ELSE Below(f[m - 1])
    <3>1. CASE m = b
      <4>1. b - 1 \in 0..b /\ b - 1 # b
        BY <2>2, <2>3
      <4> QED BY <2>3, <3>1, <4>1
    <3>2. CASE m # b
      <4>1. m \in 0..(b - 1) /\ (m # 0 => m - 1 \in 0..b /\ m - 1 # b)
        BY <2>2, <3>2
      <4>2. f[m] = g[m] /\ (m # 0 => f[m - 1] = g[m - 1])
        BY <3>2, <4>1
      <4> QED BY <2>6, <4>1, <4>2
    <3> QED BY <3>1, <3>2
  <2>8. f = [m \in 0..b |-> f[m]]
    OBVIOUS
  <2> HIDE DEF f
  <2>9. Levels(v, b, f)
    BY <2>7, <2>8 DEF Levels
  <2> QED BY <2>2, <2>9
<1> QED BY <1>1

\* The first levels are the same, however many come after.
LEMMA LevelsAgree ==
    ASSUME NEW v, NEW n \in Nat, NEW f, NEW g, Levels(v, n, f), Levels(v, n + 1, g)
    PROVE  f[n] = g[n]
<1> DEFINE Off == {m \in 0..n : f[m] # g[m]}
<1>1. \A m \in 0..n : f[m] = IF m = 0 THEN Root(v) ELSE Below(f[m - 1])
  BY Zenon DEF Levels
<1>2. \A m \in 0..(n + 1) : g[m] = IF m = 0 THEN Root(v) ELSE Below(g[m - 1])
  BY Zenon DEF Levels
<1>3. Off = {}
  <2> SUFFICES ASSUME Off # {} PROVE FALSE
    OBVIOUS
  <2>1. PICK b \in Off : \A m \in Off : b <= m
    <3>1. Off \subseteq Nat
      OBVIOUS
    <3> HIDE DEF Off
    <3> QED BY <3>1, LeastNat
  <2>2. b \in 0..n /\ b \in 0..(n + 1) /\ f[b] # g[b]
    OBVIOUS
  <2>3. b # 0
    BY <1>1, <1>2, <2>2
  <2>4. b - 1 \in 0..n /\ b - 1 \notin Off
    <3>1. b - 1 \in 0..n /\ ~(b <= b - 1)
      BY <2>2, <2>3
    <3> HIDE DEF Off
    <3> QED BY <2>1, <3>1
  <2>5. f[b - 1] = g[b - 1]
    BY <2>4
  <2> QED BY <1>1, <1>2, <2>2, <2>3, <2>5
<1>4. n \in 0..n
  OBVIOUS
<1> QED BY <1>3, <1>4

\* The top is the first level, and every other is below the one before.
LEMMA ReachedIs ==
    ASSUME NEW v, NEW n \in Nat
    PROVE  Reached(v, 0) = Root(v) /\ Reached(v, n + 1) = Below(Reached(v, n))
<1> DEFINE c(m) == CHOOSE f : Levels(v, m, f)
<1>1. \A m \in Nat : Reached(v, m) = c(m)[m]
  BY DEF Reached, Levels, Root, Below
<1>2. \A m \in Nat : Levels(v, m, c(m))
  BY LevelsExist
<1> HIDE DEF c
<1>3. \A m \in Nat : \A j \in 0..m : c(m)[j] = IF j = 0 THEN Root(v) ELSE Below(c(m)[j - 1])
  <2> SUFFICES ASSUME NEW m \in Nat, NEW j \in 0..m
               PROVE  c(m)[j] = IF j = 0 THEN Root(v) ELSE Below(c(m)[j - 1])
    OBVIOUS
  <2>1. Levels(v, m, c(m))
    BY <1>2
  <2> QED BY <2>1, Zenon DEF Levels
<1>4. c(0)[0] = Root(v)
  BY <1>3
<1>5. n + 1 \in Nat /\ n + 1 \in 0..(n + 1) /\ n + 1 # 0 /\ (n + 1) - 1 = n
  OBVIOUS
<1>6. c(n + 1)[n + 1] = Below(c(n + 1)[n])
  BY <1>3, <1>5
<1>7. c(n)[n] = c(n + 1)[n]
  BY <1>2, <1>5, LevelsAgree
<1> QED BY <1>1, <1>4, <1>5, <1>6, <1>7

\* What is n levels below a measured value was measured n levels further.
LEMMA MeasuredBelow ==
    ASSUME NEW v \in Json, Measured(v, 1), NEW n \in Nat
    PROVE  \A w \in Reached(v, n) : w.value \in Json /\ Measured(w.value, n + 1)
<1> DEFINE Good(m) == \A w \in Reached(v, m) : w.value \in Json /\ Measured(w.value, m + 1)
           Bad == {m \in Nat : ~Good(m)}
<1>1. Bad = {}
  <2> SUFFICES ASSUME Bad # {} PROVE FALSE
    OBVIOUS
  <2>1. PICK b \in Bad : \A m \in Bad : b <= m
    <3>1. Bad \subseteq Nat
      OBVIOUS
    <3> HIDE DEF Bad
    <3> QED BY <3>1, LeastNat
  <2>2. b \in Nat /\ ~Good(b)
    OBVIOUS
  <2>3. b # 0
    <3>1. Reached(v, 0) = Root(v)
      BY ReachedIs
    <3>2. Good(0)
      BY <3>1 DEF Root
    <3> QED BY <2>2, <3>2
  <2>4. b - 1 \in Nat /\ b - 1 \notin Bad /\ (b - 1) + 1 = b
    <3>1. b - 1 \in Nat /\ ~(b <= b - 1) /\ (b - 1) + 1 = b
      BY <2>2, <2>3
    <3> HIDE DEF Bad
    <3> QED BY <2>1, <3>1
  <2>5. \A w \in Reached(v, b - 1) : w.value \in Json /\ Measured(w.value, b)
    <3>1. \A w \in Reached(v, b - 1) : w.value \in Json /\ Measured(w.value, (b - 1) + 1)
      BY <2>4
    <3> QED BY <2>4, <3>1
  <2>6. Reached(v, b) = Below(Reached(v, b - 1))
    <3>1. Reached(v, (b - 1) + 1) = Below(Reached(v, b - 1))
      BY <2>4, ReachedIs
    <3> QED BY <2>4, <3>1
  <2>7. ASSUME NEW w \in Reached(v, b) PROVE w.value \in Json /\ Measured(w.value, b + 1)
    <3>1. PICK u \in Reached(v, b - 1) : w \in Under(u)
      BY <2>6 DEF Below
    <3>2. u.value \in Json /\ Measured(u.value, b)
      BY <2>5
    <3>3. w.value \in Parts(u.value)
      BY <3>1 DEF Under, Parts
    <3>4. \A p \in Parts(u.value) : Measured(p, b + 1)
      BY <2>2, <3>2, MeasuredIs
    <3> QED BY <3>2, <3>3, <3>4, Inside
  <2> QED BY <2>2, <2>7
<1> QED BY <1>1

\* Nothing that was accepted goes down to the limit.
LEMMA NothingAtLimit ==
    ASSUME NEW v \in Json, Measured(v, 1)
    PROVE  Reached(v, MaxNesting) = {}
<1>1. MaxNesting \in Nat
  BY PayloadsAssumption
<1>2. ASSUME NEW w \in Reached(v, MaxNesting) PROVE FALSE
  <2>1. w.value \in Json /\ Measured(w.value, MaxNesting + 1)
    BY <1>1, MeasuredBelow
  <2>2. WithinLimits(w.value, MaxNesting + 1)
    <3>1. MaxNesting + 1 \in Nat
      BY <1>1
    <3> QED BY <2>1, <3>1, MeasuredIs
  <2> QED BY <1>1, <2>2 DEF WithinLimits
<1> QED BY <1>2

\* What is shown where the arguments have the value of u: nothing of it, or what
\* redaction makes of it, every name above being allowed.
ShownFor(w, u) ==
    /\ u.value \in Json
    /\ \/ w.value.kind = "redacted"
       \/ w.value = RedactArguments(u.value) /\ w.names \subseteq NON_SENSITIVE_ARGUMENT_KEYS

\* One object or list further down.
LEMMA ShownBelow ==
    ASSUME NEW w, NEW u, ShownFor(w, u), NEW y \in Under(w)
    PROVE  \E x \in Under(u) : ShownFor(y, x)
<1> DEFINE a == u.value
           all == [v \in Json |-> RedactArguments(v)]
<1>1. w.value.kind # "redacted"
  BY DEF Under
<1>2. a \in Json /\ w.value = RedactArguments(a) /\ w.names \subseteq NON_SENSITIVE_ARGUMENT_KEYS
  BY <1>1 DEF ShownFor
<1>3. w.value = RedactOne(a, all)
  BY <1>2, RedactArgumentsIs
<1>4. \A p \in Parts(a) : p \in Json /\ all[p] = RedactArguments(p)
  BY <1>2, Inside
<1> HIDE DEF a, all
<1>5. CASE a.kind = "dict"
  <2> DEFINE shown == [k \in DOMAIN a.fields |-> IF k \in NON_SENSITIVE_ARGUMENT_KEYS
                                                 THEN all[a.fields[k]] ELSE RedactedValue(a.fields[k])]
  <2>1. w.value = Dict(shown)
    BY <1>3, <1>5 DEF RedactOne
  <2> HIDE DEF shown
  <2>2. w.value.kind = "dict" /\ w.value.fields = shown
    BY <2>1 DEF Dict
  <2>3. DOMAIN shown = DOMAIN a.fields
    BY DEF shown
  <2>4. PICK k \in DOMAIN a.fields : y = [names |-> w.names \cup {k}, value |-> shown[k]]
    BY <2>2, <2>3 DEF Under
  <2> DEFINE x == [names |-> u.names \cup {k}, value |-> a.fields[k]]
  <2>5. x \in Under(u) /\ x.value = a.fields[k]
    BY <1>5 DEF Under, a
  <2>6. a.fields[k] \in Parts(a)
    BY <1>5 DEF Parts
  <2>7. y.names = w.names \cup {k} /\ y.value = shown[k]
    BY <2>4
  <2> HIDE DEF x
  <2>8. CASE k \in NON_SENSITIVE_ARGUMENT_KEYS
    <3>1. shown[k] = RedactArguments(a.fields[k])
      BY <1>4, <2>6, <2>8 DEF shown
    <3>2. ShownFor(y, x)
      BY <1>2, <1>4, <2>5, <2>6, <2>7, <2>8, <3>1 DEF ShownFor
    <3> QED BY <2>5, <3>2
  <2>9. CASE k \notin NON_SENSITIVE_ARGUMENT_KEYS
    <3>1. shown[k] = RedactedValue(a.fields[k])
      BY <2>9 DEF shown
    <3>2. y.value.kind = "redacted"
      BY <2>7, <3>1 DEF RedactedValue
    <3>3. ShownFor(y, x)
      BY <1>4, <2>5, <2>6, <3>2 DEF ShownFor
    <3> QED BY <2>5, <3>3
  <2> QED BY <2>8, <2>9
<1>6. CASE a.kind = "list"
  <2> DEFINE shown == [j \in DOMAIN a.items |-> all[a.items[j]]]
  <2>1. w.value = List(shown)
    BY <1>3, <1>6 DEF RedactOne
  <2> HIDE DEF shown
  <2>2. w.value.kind = "list" /\ w.value.items = shown
    BY <2>1 DEF List
  <2>3. DOMAIN shown = DOMAIN a.items
    BY DEF shown
  <2>4. PICK j \in DOMAIN a.items : y = [names |-> w.names, value |-> shown[j]]
    BY <2>2, <2>3 DEF Under
  <2> DEFINE x == [names |-> u.names, value |-> a.items[j]]
  <2>5. x \in Under(u) /\ x.value = a.items[j]
    BY <1>6 DEF Under, a
  <2>6. a.items[j] \in Parts(a)
    BY <1>6 DEF Parts
  <2>7. y.names = w.names /\ y.value = shown[j]
    BY <2>4
  <2>8. shown[j] = RedactArguments(a.items[j])
    BY <1>4, <2>6 DEF shown
  <2> HIDE DEF x
  <2>9. ShownFor(y, x)
    BY <1>2, <1>4, <2>5, <2>6, <2>7, <2>8 DEF ShownFor
  <2> QED BY <2>5, <2>9
<1>7. CASE a.kind # "dict" /\ a.kind # "list"
  <2>1. w.value = a
    BY <1>3, <1>7 DEF RedactOne
  <2> QED BY <1>7, <2>1 DEF Under
<1> QED BY <1>5, <1>6, <1>7

\* DESIGN 5.3: at every level of a record stands nothing of a value, or a value
\* with allowed names above it.
LEMMA ShownAtEveryLevel ==
    ASSUME NEW v \in Json, NEW n \in Nat
    PROVE  \A w \in Reached(RedactArguments(v), n) : \E u \in Reached(v, n) : ShownFor(w, u)
<1> DEFINE r == RedactArguments(v)
           Good(m) == \A w \in Reached(r, m) : \E u \in Reached(v, m) : ShownFor(w, u)
           Bad == {m \in Nat : ~Good(m)}
<1>1. Good(0)
  <2>1. Reached(r, 0) = Root(r) /\ Reached(v, 0) = Root(v)
    BY ReachedIs
  <2> DEFINE w0 == [names |-> {}, value |-> r]
             u0 == [names |-> {}, value |-> v]
  <2>2. ShownFor(w0, u0)
    BY DEF ShownFor
  <2> QED BY <2>1, <2>2 DEF Root
<1> HIDE DEF r
<1>2. Bad = {}
  <2> SUFFICES ASSUME Bad # {} PROVE FALSE
    OBVIOUS
  <2>1. PICK b \in Bad : \A m \in Bad : b <= m
    <3>1. Bad \subseteq Nat
      OBVIOUS
    <3> HIDE DEF Bad
    <3> QED BY <3>1, LeastNat
  <2>2. b \in Nat /\ ~Good(b)
    OBVIOUS
  <2>3. b # 0
    BY <1>1, <2>2
  <2>4. b - 1 \in Nat /\ b - 1 \notin Bad /\ (b - 1) + 1 = b
    <3>1. b - 1 \in Nat /\ ~(b <= b - 1) /\ (b - 1) + 1 = b
      BY <2>2, <2>3
    <3> HIDE DEF Bad
    <3> QED BY <2>1, <3>1
  <2>5. Good(b - 1)
    BY <2>4
  <2>6. Reached(v, b) = Below(Reached(v, b - 1)) /\ Reached(r, b) = Below(Reached(r, b - 1))
    <3>1. /\ Reached(v, (b - 1) + 1) = Below(Reached(v, b - 1))
          /\ Reached(r, (b - 1) + 1) = Below(Reached(r, b - 1))
      BY <2>4, ReachedIs
    <3> QED BY <2>4, <3>1
  <2>7. ASSUME NEW y \in Reached(r, b) PROVE \E x \in Reached(v, b) : ShownFor(y, x)
    <3>1. PICK w \in Reached(r, b - 1) : y \in Under(w)
      BY <2>6 DEF Below
    <3>2. PICK u \in Reached(v, b - 1) : ShownFor(w, u)
      BY <2>5
    <3>3. PICK x \in Under(u) : ShownFor(y, x)
      BY <3>1, <3>2, ShownBelow
    <3>4. x \in Reached(v, b)
      BY <2>6, <3>2, <3>3 DEF Below
    <3> QED BY <3>3, <3>4
  <2> QED BY <2>2, <2>7
<1> QED BY <1>2 DEF r

\* The second walk, from an input to what came of it.
LEMMA CallRecorded ==
    ASSUME task = "arguments", input \in Arguments,
           output = IF Measured(input, 1) THEN RedactArguments(input) ELSE Refused
    PROVE  RecordShowsOnlyAllowed
<1> SUFFICES ASSUME output # Refused
             PROVE  /\ DOMAIN output.fields = DOMAIN input.fields
                    /\ \A n \in 0..MaxNesting : \A w \in Reached(output, n) :
                          w.value.kind # "redacted" => w.names \subseteq NON_SENSITIVE_ARGUMENT_KEYS
                    /\ Reached(input, MaxNesting) = {}
                    /\ Reached(output, MaxNesting) = {}
  BY DEF RecordShowsOnlyAllowed
<1>1. Measured(input, 1) /\ output = RedactArguments(input)
  OBVIOUS
<1>2. input \in Json /\ input.kind = "dict" /\ MaxNesting \in Nat
  BY PayloadsAssumption DEF Objects
<1>3. DOMAIN output.fields = DOMAIN input.fields
  <2>1. output = RedactOne(input, [v \in Json |-> RedactArguments(v)])
    BY <1>1, <1>2, RedactArgumentsIs
  <2> QED BY <1>2, <2>1 DEF RedactOne, Dict
<1>4. \A n \in Nat : \A w \in Reached(output, n) : \E u \in Reached(input, n) : ShownFor(w, u)
  BY <1>1, <1>2, ShownAtEveryLevel
<1>5. ASSUME NEW n \in 0..MaxNesting, NEW w \in Reached(output, n), w.value.kind # "redacted"
      PROVE  w.names \subseteq NON_SENSITIVE_ARGUMENT_KEYS
  <2>1. n \in Nat
    BY <1>2
  <2>2. PICK u \in Reached(input, n) : ShownFor(w, u)
    BY <1>4, <2>1
  <2> QED BY <1>5, <2>2 DEF ShownFor
<1>6. Reached(input, MaxNesting) = {}
  BY <1>1, <1>2, NothingAtLimit
<1>7. Reached(output, MaxNesting) = {}
  BY <1>2, <1>4, <1>6
<1> QED BY <1>3, <1>5, <1>6, <1>7

-----------------------------------------------------------------------------
(* The theorems *)

\* What came of an input came of it by the walk of its task.
PInv ==
    /\ task = "record" => input \in Records /\ output = ToCandidate(input)
    /\ task = "arguments" =>
          /\ input \in Arguments
          /\ output = IF Measured(input, 1) THEN RedactArguments(input) ELSE Refused

\* Both walks do what they do to an input at once.
LEMMA PInvHolds == PSpec => []PInv
<1>1. PInit => PInv
  BY DEF PInit, PInv
<1>2. PInv /\ [PNext]_pvars => PInv'
  <2> SUFFICES ASSUME PInv, [PNext]_pvars PROVE PInv'
    OBVIOUS
  <2>1. CASE MapRecord
    BY <2>1 DEF MapRecord, PInv
  <2>2. CASE RecordCall
    BY <2>2 DEF RecordCall, PInv
  <2>3. CASE UNCHANGED pvars
    BY <2>3 DEF PInv, pvars
  <2> QED BY <2>1, <2>2, <2>3 DEF PNext
<1> QED BY <1>1, <1>2, PTL DEF PSpec

\* DESIGN 6.1, of utils/redaction.py and tools/candidates.py: whatever tree Jobvite
\* sends, what a candidate typed comes back fenced and what the operator's side
\* wrote as it came, each by the path it stands at.
THEOREM PayloadsFenced == PSpec => []FencedByPath
<1>1. PInv => FencedByPath
  <2>1. CASE task = "record"
    BY <2>1, RecordFenced DEF PInv
  <2>2. CASE task # "record"
    BY <2>2 DEF FencedByPath
  <2> QED BY <2>1, <2>2
<1> QED BY <1>1, PInvHolds, PTL

\* DESIGN 5.3, of utils/constraints.py and utils/redaction.py: whatever tree a
\* caller sends, its audit record shows no value under a name that is not allowed,
\* and none as deep as the limit.
THEOREM PayloadsRecordShows == PSpec => []RecordShowsOnlyAllowed
<1>1. PInv => RecordShowsOnlyAllowed
  <2>1. CASE task = "arguments"
    BY <2>1, CallRecorded DEF PInv
  <2>2. CASE task # "arguments"
    BY <2>2 DEF RecordShowsOnlyAllowed
  <2> QED BY <2>1, <2>2
<1> QED BY <1>1, PInvHolds, PTL

=============================================================================
