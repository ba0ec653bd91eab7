---------------------------- MODULE CallContract ----------------------------
(***************************************************************************)
(* What JobviteClient.request promises its callers, without clocks,        *)
(* budgets, backoff or counters: how often a request may reach Jobvite,    *)
(* when it may be refused unsent, and which answers may move the gate      *)
(* (the circuit breaker) that all invocations share.  Resilience           *)
(* implements it under the mapping stated there.                           *)
(***************************************************************************)
EXTENDS Integers

CONSTANTS
    Invocations,   \* the requests' callers, one request each at a time
    MaxSends       \* how often a retryable request may be sent

ASSUME ContractAssumption == MaxSends \in Nat \ {0}

VARIABLES
    gate,      \* "closed", "open" or "half_open"
    waiting,   \* invocation -> is one of its requests in progress
    method,    \* invocation -> method of its current or last request
    sent,      \* invocation -> HTTP requests sent for it
    answer     \* invocation -> "none" or the outcome of the last request

cvars == <<gate, waiting, method, sent, answer>>

Evidence == {"rate_limited", "server_error", "unreachable"}
Refusals == {"breaker_open", "budget"}
Answers == {"ok", "rejected", "cancelled"} \cup Evidence \cup Refusals

\* Mutant: the cap is checked after the request is sent.
LimitLate(m) == MaxSends + 1

\* stop_after_attempt for a retryable method; a POST has no second attempt.
Limit(m) == IF m = "POST" THEN 1 ELSE MaxSends

CInit ==
    /\ gate = "closed"
    /\ waiting = [i \in Invocations |-> FALSE]
    /\ method = [i \in Invocations |-> "GET"]
    /\ sent = [i \in Invocations |-> 0]
    /\ answer = [i \in Invocations |-> "none"]

\* Refused without reaching Jobvite, and the gate learns nothing from it.
Refuse(i) ==
    /\ ~waiting[i]
    /\ \E m \in {"GET", "POST"}, o \in Refusals :
          /\ o = "breaker_open" => gate = "open"
          /\ o = "budget" => gate # "open"
          /\ method' = [method EXCEPT ![i] = m]
          /\ answer' = [answer EXCEPT ![i] = o]
    /\ sent' = [sent EXCEPT ![i] = 0]
    /\ UNCHANGED <<gate, waiting>>

\* Admitted and sent, only while the gate is not open.
Start(i) ==
    /\ ~waiting[i]
    /\ gate # "open"
    /\ \E m \in {"GET", "POST"} : method' = [method EXCEPT ![i] = m]
    /\ waiting' = [waiting EXCEPT ![i] = TRUE]
    /\ sent' = [sent EXCEPT ![i] = 1]
    /\ answer' = [answer EXCEPT ![i] = "none"]
    /\ UNCHANGED gate

\* Sent again on behalf of the same request: never a POST.
Resend(i) ==
    /\ waiting[i]
    /\ sent[i] < Limit(method[i])
    /\ sent' = [sent EXCEPT ![i] = @ + 1]
    /\ UNCHANGED <<gate, waiting, method, answer>>

\* Answered: a success closes the gate, evidence of an outage may open it,
\* anything else leaves it alone.  A POST that was sent is never reported as
\* refused.
Finish(i) ==
    /\ waiting[i]
    /\ \E o \in Answers \ {"breaker_open"} :
          /\ method[i] = "POST" => o # "budget"
          /\ answer' = [answer EXCEPT ![i] = o]
          /\ CASE o = "ok"        -> gate' = "closed"
               [] o \in Evidence  -> gate' \in {gate, "open"}
               [] OTHER           -> gate' = gate
    /\ waiting' = [waiting EXCEPT ![i] = FALSE]
    /\ UNCHANGED <<method, sent>>

\* The recovery window has passed.
HalfOpen ==
    /\ gate = "open"
    /\ gate' = "half_open"
    /\ UNCHANGED <<waiting, method, sent, answer>>

CNext == HalfOpen \/ \E i \in Invocations : Refuse(i) \/ Start(i) \/ Resend(i) \/ Finish(i)

CSpec == CInit /\ [][CNext]_cvars

=============================================================================
