----------------------------- MODULE Resilience -----------------------------
(***************************************************************************)
(* The outbound path of services/jobvite_client.py: concurrent invocations *)
(* calling JobviteClient.request through the three layers of DESIGN 4.3,   *)
(* circuit breaker around retry around one timed attempt, under one        *)
(* outbound budget per invocation and ONE breaker per process.             *)
(*                                                                         *)
(* asyncio runs the code of one task without interruption up to its next   *)
(* await, so an action is everything between two awaits.  The awaits are   *)
(* the HTTP exchange ("sending", one timed socket operation after the      *)
(* other) and tenacity's sleep ("backoff").                                *)
(*                                                                         *)
(* Time is a number of ticks left on every running timer; no clock value   *)
(* is stored, so behaviours are unbounded and the state space is finite.   *)
(* Durations shorter than a tick are 0 ticks.                              *)
(***************************************************************************)
EXTENDS Integers

CONSTANTS
    Invocations,   \* concurrent tool invocations (asyncio tasks)
    Budget,        \* JOBVITE_OUTBOUND_BUDGET_SECONDS, in ticks
    NPhases,       \* phases of one HTTP exchange (pool, connect, write, read)
    PhaseTimeout,  \* the configured timeout of one operation of each phase
    MaxAttempts,   \* retry_max_attempts
    MaxBackoff,    \* upper end of the jittered exponential schedule
    Hints,         \* the Retry-After values Jobvite may send
    Threshold,     \* DEFAULT_BREAKER_FAILURE_THRESHOLD
    Recovery,      \* DEFAULT_BREAKER_RECOVERY_SECONDS
    Prompt,        \* TRUE: the event loop serves a due timer before a tick passes
    AgeCap,        \* where the history counter "age" saturates
    OpsCap         \* where the history counter "ops" saturates

ASSUME ResilienceAssumption ==
    /\ Budget \in Nat \ {0}
    /\ NPhases \in Nat \ {0}
    /\ PhaseTimeout \in [1..NPhases -> Nat \ {0}]
    /\ MaxAttempts \in Nat \ {0}
    /\ MaxBackoff \in Nat
    /\ Hints \subseteq Nat
    /\ Threshold \in Nat \ {0}
    /\ Recovery \in Nat \ {0}
    /\ Prompt \in BOOLEAN
    /\ AgeCap \in Nat /\ AgeCap > Budget
    /\ OpsCap \in Nat \ {0}

VARIABLES
    pc,        \* per invocation: where its coroutine is suspended
    scope,     \* per invocation: the outbound budget scope in force
    req,       \* per invocation: its current, or last, request()
    await,     \* per invocation: the timer it is suspended on
    brk,       \* _JOBVITE_BREAKER: stored state, failure count, open window left
    reported   \* _breaker_reported_state: the state the last log line announced

vars == <<pc, scope, req, await, brk, reported>>

-----------------------------------------------------------------------------
(* Values *)

NoHint == -1                              \* retry_after is None
Methods == {"GET", "POST"}
RetryableMethods == {"GET"}
PCs == {"idle", "scoped", "sending", "backoff"}

\* What one attempt yields: evaluate_response's verdict, or a transport failure.
RetryableReplies == {"rate_limited", "server_error", "unreachable"}
Replies == {"ok", "rejected"} \cup RetryableReplies

\* What request() returns or raises: a reply, or one of our own refusals.
Outcomes == Replies \cup {"none", "breaker_open", "budget", "cancelled"}
Outages == RetryableReplies               \* _is_outage

BreakerStates == {"closed", "open", "half_open"}

\* outbound_deadline_var.  left is outbound_budget_remaining(), never below 0;
\* age is history: the ticks since the scope was opened.
Scope == [owner : {"none", "request", "caller"}, left : 0..Budget, age : 0..AgeCap]

\* sent counts the HTTP requests issued, tenacity's attempt_number.
Req == [method : Methods, sent : 0..MaxAttempts, outcome : Outcomes,
        hint : Nat \cup {NoHint}]

\* timer runs for a socket operation or a sleep; bound is the budget left when
\* the attempt began.  History: ops counts the operations the attempt has begun,
\* owed is what is left of the last Retry-After.
Await == [phase : 0..NPhases, bound : 0..Budget, timer : Nat, ops : 0..OpsCap, owed : Nat]

NoScope == [owner |-> "none", left |-> 0, age |-> 0]
NoReq   == [method |-> "GET", sent |-> 0, outcome |-> "none", hint |-> NoHint]
NoAwait == [phase |-> 0, bound |-> 0, timer |-> 0, ops |-> 0, owed |-> 0]

Least(a, b) == IF a <= b THEN a ELSE b
Less1(n) == IF n > 0 THEN n - 1 ELSE 0

Init ==
    /\ pc = [i \in Invocations |-> "idle"]
    /\ scope = [i \in Invocations |-> NoScope]
    /\ req = [i \in Invocations |-> NoReq]
    /\ await = [i \in Invocations |-> NoAwait]
    /\ brk = [state |-> "closed", failures |-> 0, window |-> 0]
    /\ reported = "closed"

-----------------------------------------------------------------------------
(* The breaker (circuitbreaker 2.1) *)

\* CircuitBreaker.state: half_open is derived when it is read, never stored.
StateOf(b) == IF b.state = "open" /\ b.window = 0 THEN "half_open" ELSE b.state

Opened == StateOf(brk) = "open"

Healed == [state |-> "closed", failures |-> 0, window |-> 0]

\* __exit__ with a failure.  The count saturates: only ">= Threshold" is read.
CallFailed(b) ==
    LET n == Least(b.failures + 1, Threshold)
    IN  IF n >= Threshold THEN [state |-> "open", failures |-> n, window |-> Recovery]
                          ELSE [b EXCEPT !.failures = n]

\* Mutant: the call runs inside the context manager, which knows two outcomes.
AfterOutcomeTwoWay(b, o) == IF o \in Outages THEN CallFailed(b) ELSE Healed

\* Mutant: a refusal by the open breaker is raised inside the context manager.
AfterOutcomeCountsRefusals(b, o) ==
    CASE o \in Outages \cup {"breaker_open"} -> CallFailed(b)
      [] o = "ok"                            -> Healed
      [] OTHER                               -> b

\* Mutant: a neutral outcome forgets the failures without closing the breaker.
AfterOutcomeForgives(b, o) ==
    CASE o \in Outages -> CallFailed(b)
      [] o = "ok"      -> Healed
      [] OTHER         -> [b EXCEPT !.failures = 0]

\* _through_breaker's three outcomes: counted, success, and neutral, which
\* never enters the breaker's context.
AfterOutcome(b, o) ==
    CASE o \in Outages -> CallFailed(b)
      [] o = "ok"      -> Healed
      [] OTHER         -> b

-----------------------------------------------------------------------------
(* One request() *)

\* Mutant: transitions are not looked for when a call ends.
ReportSkipped == UNCHANGED reported

\* _report_breaker_state, after the breaker's step.
Report == reported' = StateOf(brk')

\* request() returns or raises: the breaker learns the outcome and the
\* transition is logged.  The budget scope closes with the request unless a
\* caller opened it; a cancellation unwinds the caller's scope too.
Answer(i, m, n, o, h) ==
    LET stays == scope[i].owner = "caller" /\ o # "cancelled"
    IN  /\ pc' = [pc EXCEPT ![i] = IF stays THEN "scoped" ELSE "idle"]
        /\ scope' = [scope EXCEPT ![i] = IF stays THEN @ ELSE NoScope]
        /\ req' = [req EXCEPT ![i] = [method |-> m, sent |-> n, outcome |-> o, hint |-> h]]
        /\ await' = [await EXCEPT ![i] = NoAwait]
        /\ brk' = AfterOutcome(brk, o)
        /\ Report

\* Mutant: the configured phase timeouts are not narrowed to the budget.
PhaseTimerUnclamped(p, bound) == PhaseTimeout[p]

\* _attempt_timeout: every operation of phase p gets the smaller of the phase's
\* timeout and what was left of the budget when the ATTEMPT began.  httpx
\* applies it to one connect, one write or one read, not to their sum.
PhaseTimer(p, bound) == Least(PhaseTimeout[p], bound)

\* The n-th operation, in phase p, of an attempt that began with "bound" left.
Operation(p, bound, n) ==
    [phase |-> p, bound |-> bound, timer |-> PhaseTimer(p, bound), ops |-> n, owed |-> 0]

\* _attempt up to its await: the n-th HTTP request goes out.
Send(i, m, n, left) ==
    /\ pc' = [pc EXCEPT ![i] = "sending"]
    /\ req' = [req EXCEPT ![i] = [method |-> m, sent |-> n, outcome |-> "none",
                                  hint |-> NoHint]]
    /\ await' = [await EXCEPT ![i] = Operation(1, left, 1)]

\* Mutant: a nested scope restarts the clock.
EnterScopeAnew(s) ==
    IF s.owner = "none" THEN [owner |-> "request", left |-> Budget, age |-> 0]
                        ELSE [s EXCEPT !.left = Budget]

\* outbound_budget_scope: an open scope keeps its deadline.
EnterScope(s) ==
    IF s.owner = "none" THEN [owner |-> "request", left |-> Budget, age |-> 0] ELSE s

\* Mutant: one attempt too many.
StopsLate(i, h) ==
    \/ req[i].sent > MaxAttempts
    \/ scope[i].left = 0
    \/ h # NoHint /\ h >= scope[i].left

\* Mutant: a wait of exactly what is left counts as affordable.
StopsAtEqual(i, h) ==
    \/ req[i].sent >= MaxAttempts
    \/ scope[i].left = 0
    \/ h # NoHint /\ h > scope[i].left

\* The stop condition of the retry loop: attempts, budget, unaffordable wait.
Stops(i, h) ==
    \/ req[i].sent >= MaxAttempts
    \/ scope[i].left = 0
    \/ h # NoHint /\ h >= scope[i].left

\* Mutant: the sleep may run past the budget.
WaitsUnclamped(left, h) == IF h # NoHint THEN {h} ELSE 0..(MaxBackoff + Budget)

\* Mutant: the local schedule is used whatever Jobvite asked for.
WaitsJittered(left, h) == {Least(w, left) : w \in 0..MaxBackoff}

\* _wait_for_retry: Retry-After beats the jittered schedule; never past the budget.
Waits(left, h) ==
    IF h # NoHint THEN {Least(h, left)} ELSE {Least(w, left) : w \in 0..MaxBackoff}

\* Mutant: the method is not looked at.
RetriesAnyMethod(i, reply, h) == reply \in RetryableReplies /\ ~Stops(i, h)

\* Which failure of an attempt is re-issued.
Retries(i, reply, h) ==
    /\ req[i].method \in RetryableMethods
    /\ reply \in RetryableReplies
    /\ ~Stops(i, h)

\* Mutant: a sent POST is reported as an exhausted budget too.
PublicOutcomeAnyMethod(i, reply) ==
    IF reply \in RetryableReplies /\ scope[i].left = 0 THEN "budget" ELSE reply

\* What the caller is told when the loop ends: the budget is the authority on
\* why a retryable method stopped; a POST is never converted.
PublicOutcome(i, reply) ==
    IF /\ req[i].method \in RetryableMethods
       /\ reply \in RetryableReplies
       /\ scope[i].left = 0
    THEN "budget" ELSE reply

\* Mutant: what is left of the window is told though it may be nothing.
BreakerRetryAfterRaw(left) == left

\* _breaker_retry_after: what open_remaining says, or None when the window ended.
BreakerRetryAfter(left) == IF left > 0 THEN left ELSE NoHint

\* Mutant: the hint is attached to whatever the caller is told.
PublicHintAlways(o, h) == h

\* public_error hands on the hint Jobvite sent with this very reply.
PublicHint(o, h) == IF o \in {"rate_limited", "server_error"} THEN h ELSE NoHint

\* tenacity sleeps before the next attempt.
Sleep(i, h) ==
    /\ \E w \in Waits(scope[i].left, h) :
          await' = [await EXCEPT ![i] = [phase |-> 0, bound |-> 0, timer |-> w, ops |-> 0,
                                         owed |-> IF h = NoHint THEN 0 ELSE h]]
    /\ pc' = [pc EXCEPT ![i] = "backoff"]
    /\ UNCHANGED <<scope, req, brk, reported>>

\* The attempt has ended in "reply": sleep before the next one, or answer.
Conclude(i, reply, h) ==
    LET o == PublicOutcome(i, reply)
    IN  IF Retries(i, reply, h)
        THEN Sleep(i, h)
        ELSE Answer(i, req[i].method, req[i].sent, o, PublicHint(o, h))

-----------------------------------------------------------------------------
(* Actions *)

\* A caller opens a budget scope around several requests (scan does).
OpenScope(i) ==
    /\ pc[i] = "idle"
    /\ pc' = [pc EXCEPT ![i] = "scoped"]
    /\ scope' = [scope EXCEPT ![i] = [owner |-> "caller", left |-> Budget, age |-> 0]]
    /\ UNCHANGED <<req, await, brk, reported>>

CloseScope(i) ==
    /\ pc[i] = "scoped"
    /\ pc' = [pc EXCEPT ![i] = "idle"]
    /\ scope' = [scope EXCEPT ![i] = NoScope]
    /\ UNCHANGED <<req, await, brk, reported>>

\* request() is refused by the open breaker.  The clock is read again for the
\* hint, and a tick may lie between the two readings.
Refused(i, m) ==
    /\ Opened
    /\ \E left \in {brk.window, brk.window - 1} :
          Answer(i, m, 0, "breaker_open", BreakerRetryAfter(left))

\* request() is admitted, and sent unless its budget is spent.  The state is
\* announced before the reading that admits the call: a window that ended
\* between the two is announced later.
Admitted(i, m, s) ==
    /\ ~Opened
    /\ IF s.left = 0
       THEN Answer(i, m, 0, "budget", NoHint)
       ELSE /\ scope' = [scope EXCEPT ![i] = s]
            /\ Send(i, m, 1, s.left)
            /\ UNCHANGED brk
            /\ Report \/ (StateOf(brk) = "half_open" /\ UNCHANGED reported)

Request(i, m) ==
    /\ pc[i] \in {"idle", "scoped"}
    /\ Refused(i, m) \/ Admitted(i, m, EnterScope(scope[i]))

\* The next socket operation, in phase p, starts a timer of its own.
Proceed(i, p) ==
    /\ await' = [await EXCEPT ![i] = Operation(p, @.bound, Least(@.ops + 1, OpsCap))]
    /\ UNCHANGED <<pc, scope, req, brk, reported>>

\* The exchange enters its next phase.
NextPhase(i) ==
    /\ pc[i] = "sending"
    /\ await[i].phase < NPhases
    /\ Proceed(i, await[i].phase + 1)

\* The phase goes on: another chunk is written or read, or TLS starts.
NextOperation(i) ==
    /\ pc[i] = "sending"
    /\ Proceed(i, await[i].phase)

\* A whole response arrived and went through evaluate_response.
HttpReply(i, reply, h) ==
    /\ pc[i] = "sending"
    /\ await[i].phase = NPhases
    /\ h # NoHint => reply \in {"rate_limited", "server_error"}
    /\ Conclude(i, reply, h)

\* Any transport error but a timeout, in any phase.
TransportFailure(i) ==
    /\ pc[i] = "sending"
    /\ Conclude(i, "unreachable", NoHint)

\* The timeout of the current operation fires.
PhaseExpires(i) ==
    /\ pc[i] = "sending"
    /\ await[i].timer = 0
    /\ Conclude(i, "unreachable", NoHint)

\* Mutant: nobody wakes a sleeper whose budget ran out meanwhile.
WakeInBudget(i) ==
    /\ pc[i] = "backoff"
    /\ await[i].timer = 0
    /\ scope[i].left > 0
    /\ Send(i, req[i].method, req[i].sent + 1, scope[i].left)
    /\ UNCHANGED <<scope, brk, reported>>

\* The sleep is over: _attempt refuses a spent budget, else sends again.
Wake(i) ==
    /\ pc[i] = "backoff"
    /\ await[i].timer = 0
    /\ IF scope[i].left = 0
       THEN Answer(i, req[i].method, req[i].sent, "budget", NoHint)
       ELSE /\ Send(i, req[i].method, req[i].sent + 1, scope[i].left)
            /\ UNCHANGED <<scope, brk, reported>>

\* The caller goes away: CancelledError is raised at the await.
Cancel(i) ==
    /\ pc[i] \in {"sending", "backoff"}
    /\ Answer(i, req[i].method, req[i].sent, "cancelled", NoHint)

Due(i) == pc[i] \in {"sending", "backoff"} /\ await[i].timer = 0

\* What a tick does to a scope and to a running timer.
Aged(s, closed) == [owner |-> s.owner, left |-> Less1(s.left),
                    age |-> IF closed THEN 0 ELSE Least(s.age + 1, AgeCap)]
RunDown(a) == [phase |-> a.phase, bound |-> a.bound, ops |-> a.ops,
               timer |-> Less1(a.timer), owed |-> Less1(a.owed)]

\* Monotonic time passes, on every running timer at once.
Tick ==
    /\ Prompt => \A i \in Invocations : ~Due(i)
    /\ scope' = [i \in Invocations |-> Aged(scope[i], pc[i] = "idle")]
    /\ await' = [i \in Invocations |-> RunDown(await[i])]
    /\ brk' = [brk EXCEPT !.window = Less1(@)]
    /\ UNCHANGED <<pc, req, reported>>

Step(i) ==
    \/ OpenScope(i)
    \/ CloseScope(i)
    \/ \E m \in Methods : Request(i, m)
    \/ NextPhase(i)
    \/ NextOperation(i)
    \/ \E reply \in Replies \ {"unreachable"}, h \in Hints \cup {NoHint} :
          HttpReply(i, reply, h)
    \/ TransportFailure(i)
    \/ PhaseExpires(i)
    \/ Wake(i)
    \/ Cancel(i)

Next == Tick \/ \E i \in Invocations : Step(i)

Spec == Init /\ [][Next]_vars

(* Time passes, and the event loop eventually runs a task whose timer is    *)
(* due.  Jobvite owes nothing: it may never answer, or never stop answering.*)
Fairness ==
    /\ WF_vars(Tick)
    /\ \A i \in Invocations : WF_vars(PhaseExpires(i)) /\ WF_vars(Wake(i))

FairSpec == Spec /\ Fairness

-----------------------------------------------------------------------------
(* Properties *)

\* Every variable stays within its type.
TypeOK ==
    /\ pc \in [Invocations -> PCs]
    /\ scope \in [Invocations -> Scope]
    /\ req \in [Invocations -> Req]
    /\ await \in [Invocations -> Await]
    /\ brk \in [state : {"closed", "open"}, failures : 0..Threshold, window : 0..Recovery]
    /\ reported \in BreakerStates

Busy(i) == pc[i] \in {"sending", "backoff"}

\* A step in which invocation i puts one more HTTP request on the wire.
Sends(i) == /\ pc'[i] = "sending"
            /\ pc[i] # "sending" \/ req'[i].sent # req[i].sent

\* A step in which a request that had been sent is answered with o.
Answered(i, o) == /\ pc[i] = "sending"
                  /\ pc'[i] \in {"idle", "scoped"}
                  /\ req'[i].outcome = o

\* DESIGN 4.3, "measured: one call, four rows created": whatever Jobvite or
\* the network answers, a POST reaches Jobvite at most once, and no request
\* more often than the attempt cap.
WriteSentOnce ==
    \A i \in Invocations :
        req[i].sent <= IF req[i].method = "POST" THEN 1 ELSE MaxAttempts

\* No HTTP request leaves once the invocation's budget is spent, whether it
\* is a first attempt, a retry after a sleep, or a later request in the same
\* scope.  age counts from the opening of the scope and is independent of
\* the deadline the code keeps.
NoSendPastDeadline ==
    [][\A i \in Invocations : Sends(i) => scope'[i].age < Budget]_vars

\* A retry is never sent before the Retry-After of the reply it repeats has
\* passed in full: the clamp to the budget does not shorten it.
RetryAfterHonoured ==
    [][\A i \in Invocations :
         Sends(i) /\ pc[i] = "backoff" => await[i].owed = 0]_vars

\* Nobody is put to sleep beyond the invocation's own deadline, and a sleeper
\* that waits out a Retry-After will wake up with some of its budget left: the
\* loop stops rather than sleep for a retry that could not be sent.
SleepWithinBudget ==
    \A i \in Invocations :
        pc[i] = "backoff" => /\ await[i].timer <= scope[i].left
                             /\ await[i].owed > 0 => await[i].timer < scope[i].left

\* The longest of the configured timeouts.
LongestTimeout ==
    CHOOSE t \in {PhaseTimeout[p] : p \in 1..NPhases} :
        \A p \in 1..NPhases : PhaseTimeout[p] <= t

\* What the code does guarantee of a slow exchange, with a punctual event loop:
\* every socket operation is clamped to what was left when the attempt began,
\* so the n-th operation ends at most n such timeouts after the attempt was
\* sent.  How many operations there are is Jobvite's choice.
ExchangeBounded ==
    \A i \in Invocations :
        pc[i] = "sending" /\ await[i].ops < OpsCap =>
            scope[i].age + await[i].timer
                <= Budget - await[i].bound
                   + await[i].ops * Least(LongestTimeout, await[i].bound)

\* The breaker is open exactly when the threshold was reached, and only an
\* open breaker has a window to wait for: no interleaving of late answers
\* leaves a closed breaker carrying a full count, or an open one short of it.
BreakerConsistent ==
    /\ brk.state = "open" <=> brk.failures = Threshold
    /\ brk.window > 0 => brk.state = "open"

\* Three outcomes, not two: the breaker is eased only by a request Jobvite
\* answered with success, and worsened only by one whose failure is evidence
\* of an outage.  A 4xx, a spent budget, a refusal or a cancellation neither
\* trips nor heals it.
OnlyEvidenceMovesBreaker ==
    [][/\ brk'.failures < brk.failures \/ (brk.state = "open" /\ brk'.state = "closed")
             => \E i \in Invocations : Answered(i, "ok")
       /\ brk'.failures > brk.failures \/ brk'.window > brk.window
             => \E i \in Invocations, o \in Outages : Answered(i, o)]_vars

\* No silent trip and no silent heal: the last transition announced is always
\* the breaker's state, except that an expired window is announced by the next
\* call rather than by a timer (DESIGN 5.2: transitions on the call path).
TransitionsAnnounced ==
    reported = StateOf(brk) \/ (reported = "open" /\ StateOf(brk) = "half_open")

\* "An invented hint is worse than none" (JobviteRetryLaterError, ADR-0030): a
\* caller is told when to retry only by Jobvite's own Retry-After, passed on
\* unclamped, or by what is left of the breaker's window - which the hint never
\* exceeds, and which is left out, not told as zero, when it has just ended.
HintsNeverInvented ==
    \A i \in Invocations :
        /\ req[i].hint # NoHint =>
              \/ req[i].outcome \in {"rate_limited", "server_error"} /\ req[i].hint \in Hints
              \/ req[i].outcome = "breaker_open"
        /\ req[i].outcome = "breaker_open" => req[i].hint \in (1..Recovery) \cup {NoHint}

\* Every request() ends against a Jobvite that falls silent at any point: only
\* one that begins another operation of the same phase for ever, each within
\* its timeout, keeps a request from ending.
RequestTerminates ==
    \A i \in Invocations :
        <>[][~NextOperation(i)]_vars => (Busy(i) ~> ~Busy(i))

\* The breaker cannot lock callers out for good: refusals do not extend the
\* window, and only the requests admitted before the trip can renew it.
BreakerReopens == Opened ~> ~Opened

\* request() keeps the contract its callers rely on.
Contract == INSTANCE CallContract WITH
    MaxSends <- MaxAttempts,
    gate     <- StateOf(brk),
    waiting  <- [i \in Invocations |-> Busy(i)],
    method   <- [i \in Invocations |-> req[i].method],
    sent     <- [i \in Invocations |-> req[i].sent],
    answer   <- [i \in Invocations |-> req[i].outcome]

ImplementsContract == Contract!CSpec

=============================================================================
