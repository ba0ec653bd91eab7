-------------------------- MODULE ResilienceProofs --------------------------
(***************************************************************************)
(* Proofs about Resilience, for every set of invocations, every budget,    *)
(* every table of phase timeouts, and both event-loop assumptions.         *)
(*                                                                         *)
(* The argument: One(i) describes one invocation (its scope owes the       *)
(* budget exactly the scope's age; a sleeper is a GET with attempts left   *)
(* that sleeps no less than it was asked to), BreakerConsistent the shared *)
(* breaker, TransitionsAnnounced what the log last said of it.  Their      *)
(* conjunction with TypeOK is inductive, and every property proved here    *)
(* follows from it in one step.                                            *)
(***************************************************************************)
EXTENDS Resilience, Induction, TLAPS

\* The budget left and the age of an open scope account for each other.
Accounts(s) == s.left + s.age = Budget \/ (s.left = 0 /\ s.age >= Budget)

ScopeInv(i) ==
    /\ pc[i] = "idle" => scope[i] = NoScope
    /\ pc[i] = "scoped" => scope[i].owner = "caller"
    /\ pc[i] # "idle" => scope[i].owner # "none" /\ Accounts(scope[i])

ReqInv(i) ==
    /\ req[i].method = "POST" => req[i].sent <= 1
    /\ req[i].hint # NoHint =>
          \/ req[i].outcome \in {"rate_limited", "server_error"} /\ req[i].hint \in Hints
          \/ req[i].outcome = "breaker_open"
    /\ req[i].outcome = "breaker_open" => req[i].hint \in (1..Recovery) \cup {NoHint}

AwaitInv(i) ==
    /\ pc[i] = "sending" => /\ req[i].sent >= 1 /\ await[i].phase >= 1
                            /\ req[i].outcome = "none"
    /\ pc[i] = "backoff" => /\ req[i].method \in RetryableMethods
                            /\ req[i].sent \in 1..(MaxAttempts - 1)
                            /\ req[i].outcome = "none"
                            /\ await[i].timer <= scope[i].left
                            /\ await[i].owed <= await[i].timer
                            /\ await[i].owed > 0 => await[i].timer < scope[i].left

One(i) == ScopeInv(i) /\ ReqInv(i) /\ AwaitInv(i)

IInv == /\ TypeOK
        /\ \A i \in Invocations : One(i)
        /\ BreakerConsistent
        /\ TransitionsAnnounced

-----------------------------------------------------------------------------
(* Helpers *)

(* The named assumption, as the facts about single constants that the steps *)
(* below use.                                                               *)
LEMMA Constants ==
    /\ Budget \in Nat /\ Budget >= 1
    /\ NPhases \in Nat /\ NPhases >= 1
    /\ MaxAttempts \in Nat /\ MaxAttempts >= 1
    /\ MaxBackoff \in Nat
    /\ Hints \subseteq Nat
    /\ Threshold \in Nat /\ Threshold >= 1
    /\ Recovery \in Nat /\ Recovery >= 1
    /\ AgeCap \in Nat /\ AgeCap > Budget
    /\ OpsCap \in Nat /\ OpsCap >= 1
BY ResilienceAssumption

(* Least returns one of its arguments, and neither is smaller. *)
LEMMA LeastType == ASSUME NEW a \in Nat, NEW b \in Nat
                   PROVE  Least(a, b) \in Nat /\ Least(a, b) <= a /\ Least(a, b) <= b
BY DEF Least

(* A phase timer is a duration, and clamped to the budget it is given. *)
LEMMA PhaseTimerType == ASSUME NEW p \in 1..NPhases, NEW b \in Nat
                        PROVE  PhaseTimer(p, b) \in Nat /\ PhaseTimer(p, b) <= b
BY ResilienceAssumption, LeastType DEF PhaseTimer

(* An operation is a well-typed wait of the phase it belongs to. *)
LEMMA OperationType ==
    ASSUME NEW p \in 1..NPhases, NEW b \in 0..Budget, NEW n \in 0..OpsCap
    PROVE  /\ Operation(p, b, n) \in Await
           /\ Operation(p, b, n).phase = p /\ Operation(p, b, n).bound = b
           /\ Operation(p, b, n).ops = n /\ Operation(p, b, n).timer = PhaseTimer(p, b)
<1>1. PhaseTimer(p, b) \in Nat /\ p \in 0..NPhases
  BY PhaseTimerType, Constants
<1> QED BY <1>1 DEF Operation, Await

(* Whatever ended, the breaker stays well formed: only a full count opens it. *)
LEMMA BreakerStep ==
    ASSUME TypeOK, BreakerConsistent, NEW o, brk' = AfterOutcome(brk, o)
    PROVE  /\ brk' \in [state : {"closed", "open"}, failures : 0..Threshold, window : 0..Recovery]
           /\ BreakerConsistent'
BY ResilienceAssumption
   DEF TypeOK, BreakerConsistent, AfterOutcome, CallFailed, Healed, Least

(* A state is read as one of the three. *)
LEMMA StateOfType == ASSUME NEW b, b.state \in {"closed", "open"}
                     PROVE  StateOf(b) \in BreakerStates
BY DEF StateOf, BreakerStates

(* A breaker call ends in a state that has been announced. *)
LEMMA ReportStep ==
    ASSUME TypeOK, BreakerConsistent, NEW o, brk' = AfterOutcome(brk, o), Report
    PROVE  reported' \in BreakerStates /\ TransitionsAnnounced'
<1>1. brk'.state \in {"closed", "open"}
  BY BreakerStep
<1>2. StateOf(brk') \in BreakerStates
  BY <1>1, StateOfType
<1> QED BY <1>2 DEF Report, TransitionsAnnounced, StateOf

-----------------------------------------------------------------------------
(* One lemma per way a step can leave an invocation. *)

(* Answering a request closes its timer and, unless a caller holds it, its *)
(* scope.                                                                  *)
LEMMA AnswerStep ==
    ASSUME IInv, NEW i \in Invocations,
           NEW m \in Methods, NEW n \in 0..MaxAttempts, m = "POST" => n <= 1,
           NEW o \in Outcomes, NEW h \in Nat \cup {NoHint},
           h # NoHint => \/ o \in {"rate_limited", "server_error"} /\ h \in Hints
                         \/ o = "breaker_open",
           o = "breaker_open" => h \in (1..Recovery) \cup {NoHint},
           Answer(i, m, n, o, h)
    PROVE  IInv'
<1>1. /\ brk' \in [state : {"closed", "open"}, failures : 0..Threshold, window : 0..Recovery]
      /\ BreakerConsistent'
  BY BreakerStep DEF IInv, Answer
<1>2. reported' \in BreakerStates /\ TransitionsAnnounced'
  BY ReportStep DEF IInv, Answer
<1>3. NoScope \in Scope /\ NoAwait \in Await
  BY Constants DEF NoScope, Scope, NoAwait, Await
<1>4. [method |-> m, sent |-> n, outcome |-> o, hint |-> h] \in Req
  BY DEF Req
<1>5. /\ pc' \in [Invocations -> PCs]
      /\ scope' \in [Invocations -> Scope]
      /\ req' \in [Invocations -> Req]
      /\ await' \in [Invocations -> Await]
  BY <1>3, <1>4 DEF Answer, IInv, TypeOK, PCs
<1>6. ASSUME NEW j \in Invocations PROVE One(j)'
  <2>1. CASE j # i
    <3>1. /\ pc'[j] = pc[j] /\ scope'[j] = scope[j]
          /\ req'[j] = req[j] /\ await'[j] = await[j]
      BY <2>1 DEF Answer, IInv, TypeOK
    <3>2. One(j)
      BY DEF IInv
    <3> QED BY <3>1, <3>2 DEF One, ScopeInv, ReqInv, AwaitInv, Accounts
  <2>2. CASE j = i
    <3>1. /\ pc'[i] \in {"scoped", "idle"}
          /\ req'[i] = [method |-> m, sent |-> n, outcome |-> o, hint |-> h]
      BY DEF Answer, IInv, TypeOK
    <3>2. ReqInv(i)' /\ AwaitInv(i)'
      BY <3>1 DEF ReqInv, AwaitInv
    <3>3. ScopeInv(i)'
      <4>1. ScopeInv(i)
        BY DEF IInv, One
      <4>2. CASE scope[i].owner = "caller" /\ o # "cancelled"
        <5>1. pc'[i] = "scoped" /\ scope'[i] = scope[i]
          BY <4>2 DEF Answer, IInv, TypeOK
        <5>2. pc[i] # "idle"
          BY <4>1, <4>2 DEF ScopeInv, NoScope
        <5> QED BY <5>1, <5>2, <4>1, <4>2 DEF ScopeInv, Accounts
      <4>3. CASE ~(scope[i].owner = "caller" /\ o # "cancelled")
        <5>1. pc'[i] = "idle" /\ scope'[i] = NoScope
          BY <4>3 DEF Answer, IInv, TypeOK
        <5> QED BY <5>1 DEF ScopeInv
      <4> QED BY <4>2, <4>3
    <3> QED BY <2>2, <3>2, <3>3 DEF One
  <2> QED BY <2>1, <2>2
<1> QED BY <1>1, <1>2, <1>5, <1>6 DEF IInv, TypeOK

(* Sending starts the first phase's timer inside an open scope. *)
LEMMA SendStep ==
    ASSUME IInv, NEW i \in Invocations,
           NEW m \in Methods, NEW n \in 1..MaxAttempts, m = "POST" => n <= 1,
           NEW s \in Scope, s.owner # "none", Accounts(s),
           scope' = [scope EXCEPT ![i] = s],
           Send(i, m, n, s.left),
           brk' = brk, reported' \in {reported, StateOf(brk)}
    PROVE  IInv'
<1>1. /\ brk' \in [state : {"closed", "open"}, failures : 0..Threshold, window : 0..Recovery]
      /\ BreakerConsistent'
  BY DEF IInv, TypeOK, BreakerConsistent
<1>2. StateOf(brk) \in BreakerStates
  BY StateOfType DEF IInv, TypeOK
<1>3. reported' \in BreakerStates /\ TransitionsAnnounced'
  BY <1>2 DEF IInv, TypeOK, TransitionsAnnounced, StateOf
<1>4. 1 \in 1..NPhases /\ s.left \in 0..Budget /\ 1 \in 0..OpsCap
  BY Constants DEF Scope
<1>5. Operation(1, s.left, 1) \in Await /\ Operation(1, s.left, 1).phase = 1
  BY <1>4, OperationType
<1>6. [method |-> m, sent |-> n, outcome |-> "none", hint |-> NoHint] \in Req
  BY Constants DEF Req, Outcomes
<1>7. /\ pc' \in [Invocations -> PCs]
      /\ scope' \in [Invocations -> Scope]
      /\ req' \in [Invocations -> Req]
      /\ await' \in [Invocations -> Await]
  BY <1>5, <1>6 DEF Send, IInv, TypeOK, PCs
<1>8. ASSUME NEW j \in Invocations PROVE One(j)'
  <2>1. CASE j # i
    <3>1. /\ pc'[j] = pc[j] /\ scope'[j] = scope[j]
          /\ req'[j] = req[j] /\ await'[j] = await[j]
      BY <2>1 DEF Send, IInv, TypeOK
    <3>2. One(j)
      BY DEF IInv
    <3> QED BY <3>1, <3>2 DEF One, ScopeInv, ReqInv, AwaitInv, Accounts
  <2>2. CASE j = i
    <3>1. /\ pc'[i] = "sending"
          /\ scope'[i] = s
          /\ req'[i] = [method |-> m, sent |-> n, outcome |-> "none", hint |-> NoHint]
          /\ await'[i].phase = 1
      BY <1>5 DEF Send, IInv, TypeOK
    <3> QED BY <2>2, <3>1, Constants DEF One, ScopeInv, ReqInv, AwaitInv, Accounts
  <2> QED BY <2>1, <2>2
<1> QED BY <1>1, <1>3, <1>7, <1>8 DEF IInv, TypeOK

(* A retry goes to sleep for no longer than the budget left, and for no less *)
(* than Jobvite asked.                                                       *)
LEMMA SleepStep ==
    ASSUME IInv, NEW i \in Invocations, NEW h \in Nat \cup {NoHint},
           pc[i] = "sending", req[i].method \in RetryableMethods, ~Stops(i, h),
           Sleep(i, h)
    PROVE  IInv'
<1>1. PICK w \in Waits(scope[i].left, h) :
        await' = [await EXCEPT ![i] = [phase |-> 0, bound |-> 0, timer |-> w, ops |-> 0,
                                       owed |-> IF h = NoHint THEN 0 ELSE h]]
  BY DEF Sleep
<1>2. One(i) /\ scope[i] \in Scope /\ req[i] \in Req
  BY DEF IInv, TypeOK
<1>3. scope[i].left \in Nat
  BY <1>2, Constants DEF Scope
<1>4. w \in Nat /\ w <= scope[i].left /\ (h # NoHint => w = h /\ w < scope[i].left)
  <2>1. CASE h # NoHint
    BY <1>1, <1>3, <2>1 DEF Waits, Stops, Least, NoHint
  <2>2. CASE h = NoHint
    BY <1>1, <1>3, <2>2, LeastType, Constants DEF Waits
  <2> QED BY <2>1, <2>2
<1> DEFINE o == IF h = NoHint THEN 0 ELSE h
           a == [phase |-> 0, bound |-> 0, timer |-> w, ops |-> 0, owed |-> o]
<1>5. /\ a \in Await /\ a.owed <= a.timer /\ a.timer <= scope[i].left
      /\ a.owed > 0 => a.timer < scope[i].left
  <2>1. o \in Nat /\ o <= w /\ (o > 0 => w < scope[i].left)
    BY <1>3, <1>4 DEF NoHint
  <2> HIDE DEF o
  <2>2. a.owed = o /\ a.timer = w
    OBVIOUS
  <2>3. a \in Await
    BY <1>4, <2>1, Constants DEF Await
  <2> QED BY <1>4, <2>1, <2>2, <2>3
<1>6. await'[i] = a
  BY <1>1 DEF IInv, TypeOK
<1>7. await' \in [Invocations -> Await] /\ pc' \in [Invocations -> PCs]
  BY <1>1, <1>5 DEF Sleep, IInv, TypeOK, PCs
<1>8. req[i].sent \in 1..(MaxAttempts - 1)
  BY <1>2, Constants DEF Stops, Req, One, AwaitInv
<1>9. ASSUME NEW j \in Invocations PROVE One(j)'
  <2>1. CASE j # i
    <3>1. /\ pc'[j] = pc[j] /\ scope'[j] = scope[j]
          /\ req'[j] = req[j] /\ await'[j] = await[j]
      BY <1>1, <2>1 DEF Sleep, IInv, TypeOK
    <3>2. One(j)
      BY DEF IInv
    <3> QED BY <3>1, <3>2 DEF One, ScopeInv, ReqInv, AwaitInv, Accounts
  <2>2. CASE j = i
    <3>1. pc'[i] = "backoff" /\ scope'[i] = scope[i] /\ req'[i] = req[i]
      BY DEF Sleep, IInv, TypeOK
    <3>2. ScopeInv(i)' /\ ReqInv(i)'
      BY <1>2, <3>1 DEF One, ScopeInv, ReqInv, Accounts
    <3>3. AwaitInv(i)'
      <4>1. req[i].outcome = "none"
        BY <1>2 DEF One, AwaitInv
      <4> QED BY <3>1, <1>5, <1>6, <1>8, <4>1 DEF AwaitInv
    <3> QED BY <2>2, <3>2, <3>3 DEF One
  <2> QED BY <2>1, <2>2
<1> QED BY <1>7, <1>9 DEF Sleep, IInv, TypeOK, BreakerConsistent, TransitionsAnnounced, StateOf

(* However an attempt ends, it ends in a sleep or in an answer. *)
LEMMA ConcludeStep ==
    ASSUME IInv, NEW i \in Invocations, pc[i] = "sending",
           NEW r \in Replies, NEW h \in Hints \cup {NoHint},
           h # NoHint => r \in {"rate_limited", "server_error"},
           Conclude(i, r, h)
    PROVE  IInv'
<1>1. h \in Nat \cup {NoHint}
  BY Constants
<1>2. CASE Retries(i, r, h)
  BY <1>1, <1>2, SleepStep DEF Conclude, Retries
<1>3. CASE ~Retries(i, r, h)
  <2> DEFINE o == PublicOutcome(i, r)
  <2>1. o \in Outcomes /\ o # "breaker_open"
    BY DEF PublicOutcome, Outcomes, Replies, RetryableReplies
  <2>2. PublicHint(o, h) \in Nat \cup {NoHint}
    BY <1>1 DEF PublicHint
  <2>3. PublicHint(o, h) # NoHint => o \in {"rate_limited", "server_error"} /\ PublicHint(o, h) \in Hints
    BY DEF PublicHint
  <2>4. req[i] \in Req /\ One(i)
    BY DEF IInv, TypeOK
  <2>5. req[i].method \in Methods /\ req[i].sent \in 0..MaxAttempts
        /\ (req[i].method = "POST" => req[i].sent <= 1)
    BY <2>4 DEF Req, One, ReqInv
  <2>6. Answer(i, req[i].method, req[i].sent, o, PublicHint(o, h))
    BY <1>3 DEF Conclude
  <2> HIDE DEF o
  <2> QED BY <2>1, <2>2, <2>3, <2>5, <2>6, AnswerStep
<1> QED BY <1>2, <1>3

(* Opening or closing a caller's scope. *)
LEMMA ScopeStep ==
    ASSUME IInv, NEW i \in Invocations, OpenScope(i) \/ CloseScope(i)
    PROVE  IInv'
<1> DEFINE s == [owner |-> "caller", left |-> Budget, age |-> 0]
<1>1. s \in Scope /\ NoScope \in Scope /\ Accounts(s)
  BY Constants DEF Scope, NoScope, Accounts
<1>2. /\ pc' \in [Invocations -> PCs]
      /\ scope' \in [Invocations -> Scope]
  BY <1>1 DEF OpenScope, CloseScope, IInv, TypeOK, PCs
<1>3. ASSUME NEW j \in Invocations PROVE One(j)'
  <2>0. One(j) /\ req'[j] = req[j] /\ await'[j] = await[j]
    BY DEF OpenScope, CloseScope, IInv
  <2>1. CASE j # i
    <3>1. pc'[j] = pc[j] /\ scope'[j] = scope[j]
      BY <2>1 DEF OpenScope, CloseScope, IInv, TypeOK
    <3> QED BY <2>0, <3>1 DEF One, ScopeInv, ReqInv, AwaitInv, Accounts
  <2>2. CASE j = i /\ OpenScope(i)
    <3>1. pc'[i] = "scoped" /\ scope'[i] = s
      BY <2>2 DEF OpenScope, IInv, TypeOK
    <3> QED BY <1>1, <2>0, <2>2, <3>1 DEF One, ScopeInv, ReqInv, AwaitInv, Accounts
  <2>3. CASE j = i /\ CloseScope(i)
    <3>1. pc'[i] = "idle" /\ scope'[i] = NoScope
      BY <2>3 DEF CloseScope, IInv, TypeOK
    <3> QED BY <2>0, <2>3, <3>1 DEF One, ScopeInv, ReqInv, AwaitInv
  <2> QED BY <2>1, <2>2, <2>3
<1> QED BY <1>2, <1>3
        DEF OpenScope, CloseScope, IInv, TypeOK, BreakerConsistent, TransitionsAnnounced, StateOf

(* What is told of the window is part of it, or nothing. *)
LEMMA BreakerHint ==
    ASSUME TypeOK, Opened, NEW left \in {brk.window, brk.window - 1}
    PROVE  BreakerRetryAfter(left) \in (1..Recovery) \cup {NoHint}
<1>1. brk.window \in 1..Recovery
  BY Constants DEF Opened, StateOf, TypeOK
<1> QED BY <1>1, Constants DEF BreakerRetryAfter

(* request(): refused by the breaker, with a hint that is part of its window. *)
LEMMA RefusedStep ==
    ASSUME IInv, NEW i \in Invocations, NEW m \in Methods, Refused(i, m)
    PROVE  IInv'
<1>1. PICK left \in {brk.window, brk.window - 1} :
        Answer(i, m, 0, "breaker_open", BreakerRetryAfter(left))
  BY DEF Refused
<1>2. BreakerRetryAfter(left) \in (1..Recovery) \cup {NoHint}
  BY BreakerHint DEF Refused, IInv
<1>3. 0 \in 0..MaxAttempts /\ "breaker_open" \in Outcomes
      /\ (1..Recovery) \subseteq Nat
  BY Constants DEF Outcomes
<1> DEFINE h == BreakerRetryAfter(left)
<1>4. h \in Nat \cup {NoHint} /\ h \in (1..Recovery) \cup {NoHint}
  BY <1>2, <1>3
<1>5. Answer(i, m, 0, "breaker_open", h)
  BY <1>1
<1>6. m = "POST" => 0 <= 1
  OBVIOUS
<1> HIDE DEF h
<1> QED BY <1>3, <1>4, <1>5, <1>6, AnswerStep

(* request(): its budget is spent, or it is sent within a scope that is *)
(* accounted for.                                                       *)
LEMMA AdmittedStep ==
    ASSUME IInv, NEW i \in Invocations, NEW m \in Methods, pc[i] \in {"idle", "scoped"},
           Admitted(i, m, EnterScope(scope[i]))
    PROVE  IInv'
<1> DEFINE s == EnterScope(scope[i])
<1>1. One(i) /\ scope[i] \in Scope
  BY DEF IInv, TypeOK
<1>2. s \in Scope /\ s.owner # "none" /\ Accounts(s)
  BY <1>1, Constants DEF EnterScope, Scope, One, ScopeInv, Accounts, NoScope
<1>3. 0 \in 0..MaxAttempts /\ 1 \in 1..MaxAttempts
  BY Constants
<1>4. CASE s.left = 0
  <2>1. Answer(i, m, 0, "budget", NoHint)
    BY <1>4 DEF Admitted
  <2> QED BY <1>3, <2>1, AnswerStep DEF Outcomes, NoHint
<1>5. CASE s.left # 0
  <2>1. /\ scope' = [scope EXCEPT ![i] = s]
        /\ Send(i, m, 1, s.left)
        /\ brk' = brk
        /\ reported' \in {reported, StateOf(brk)}
    BY <1>5 DEF Admitted, Report
  <2>2. m = "POST" => 1 <= 1
    OBVIOUS
  <2> HIDE DEF s
  <2> QED BY <1>2, <1>3, <2>1, <2>2, SendStep
<1> QED BY <1>4, <1>5

(* The next operation of an exchange, of its phase or of the next. *)
LEMMA ProceedStep ==
    ASSUME IInv, NEW i \in Invocations, NEW p \in 1..NPhases, pc[i] = "sending", Proceed(i, p)
    PROVE  IInv'
<1> DEFINE n == Least(await[i].ops + 1, OpsCap)
           a == Operation(p, await[i].bound, n)
<1>1. await[i].bound \in 0..Budget /\ await[i].ops \in 0..OpsCap
  BY DEF IInv, TypeOK, Await
<1>2. n \in 0..OpsCap
  BY <1>1, Constants DEF Least
<1>3. a \in Await /\ a.phase = p /\ p >= 1
  <2> HIDE DEF n
  <2> QED BY <1>1, <1>2, OperationType
<1>4. await' = [await EXCEPT ![i] = a]
  BY DEF Proceed
<1>5. await' \in [Invocations -> Await]
  BY <1>3, <1>4 DEF IInv, TypeOK
<1>6. ASSUME NEW j \in Invocations PROVE One(j)'
  <2>1. /\ One(j)
        /\ pc'[j] = pc[j] /\ scope'[j] = scope[j] /\ req'[j] = req[j]
    BY DEF Proceed, IInv
  <2>2. CASE j # i
    <3>1. await'[j] = await[j]
      BY <1>4, <2>2 DEF IInv, TypeOK
    <3> QED BY <2>1, <3>1 DEF One, ScopeInv, ReqInv, AwaitInv, Accounts
  <2>3. CASE j = i
    <3>1. await'[i].phase >= 1
      BY <1>3, <1>4 DEF IInv, TypeOK
    <3> QED BY <2>1, <2>3, <3>1 DEF One, ScopeInv, ReqInv, AwaitInv, Accounts
  <2> QED BY <2>2, <2>3
<1> QED BY <1>5, <1>6
        DEF Proceed, IInv, TypeOK, BreakerConsistent, TransitionsAnnounced, StateOf

(* The two ways an exchange moves on. *)
LEMMA Proceeds ==
    ASSUME IInv, NEW i \in Invocations, NextPhase(i) \/ NextOperation(i)
    PROVE  pc[i] = "sending" /\ \E p \in 1..NPhases : Proceed(i, p)
<1>1. await[i].phase \in 0..NPhases /\ One(i)
  BY DEF IInv, TypeOK, Await
<1>2. CASE NextPhase(i)
  <2>1. await[i].phase + 1 \in 1..NPhases
    BY <1>1, <1>2, Constants DEF NextPhase
  <2> QED BY <1>2, <2>1 DEF NextPhase
<1>3. CASE NextOperation(i)
  <2>1. await[i].phase \in 1..NPhases
    BY <1>1, <1>3, Constants DEF NextOperation, One, AwaitInv
  <2> QED BY <1>3, <2>1 DEF NextOperation
<1> QED BY <1>2, <1>3

(* The sleep is over: out of budget, or sent once more. *)
LEMMA WakeStep ==
    ASSUME IInv, NEW i \in Invocations, Wake(i)
    PROVE  IInv'
<1>1. One(i) /\ scope[i] \in Scope /\ req[i] \in Req /\ pc[i] = "backoff"
  BY DEF IInv, TypeOK, Wake
<1>2. /\ req[i].method \in Methods /\ req[i].method # "POST"
      /\ req[i].sent \in 0..MaxAttempts /\ req[i].sent + 1 \in 1..MaxAttempts
      /\ scope[i].owner # "none" /\ Accounts(scope[i])
  BY <1>1, Constants DEF One, ScopeInv, AwaitInv, RetryableMethods, Req
<1>3. CASE scope[i].left = 0
  <2>1. Answer(i, req[i].method, req[i].sent, "budget", NoHint)
    BY <1>3 DEF Wake
  <2>2. "budget" \in Outcomes /\ NoHint \in Nat \cup {NoHint}
    BY DEF Outcomes
  <2> QED BY <1>2, <2>1, <2>2, AnswerStep
<1>4. CASE scope[i].left # 0
  <2>1. /\ scope' = [scope EXCEPT ![i] = scope[i]]
        /\ Send(i, req[i].method, req[i].sent + 1, scope[i].left)
        /\ brk' = brk /\ reported' = reported
    BY <1>4 DEF Wake, IInv, TypeOK
  <2> QED BY <1>1, <1>2, <2>1, SendStep
<1> QED BY <1>3, <1>4

(* A cancellation. *)
LEMMA CancelStep ==
    ASSUME IInv, NEW i \in Invocations, Cancel(i)
    PROVE  IInv'
<1>1. One(i) /\ req[i] \in Req
  BY DEF IInv, TypeOK
<1>2. /\ req[i].method \in Methods /\ req[i].sent \in 0..MaxAttempts
      /\ req[i].method = "POST" => req[i].sent <= 1
  BY <1>1 DEF Req, One, ReqInv
<1>3. Answer(i, req[i].method, req[i].sent, "cancelled", NoHint)
  BY DEF Cancel
<1> QED BY <1>2, <1>3, AnswerStep DEF Outcomes, NoHint

(* A tick moves a scope's budget and age in step, and a sleeper's timer never *)
(* overtakes its budget.                                                      *)
LEMMA TickStep ==
    ASSUME IInv, Tick
    PROVE  IInv'
<1>1. ASSUME NEW j \in Invocations
      PROVE  scope'[j] \in Scope /\ await'[j] \in Await /\ One(j)'
  <2>1. One(j) /\ scope[j] \in Scope /\ await[j] \in Await
    BY DEF IInv, TypeOK
  <2> DEFINE s == Aged(scope[j], pc[j] = "idle")
             a == RunDown(await[j])
  <2>2. /\ scope'[j] = s /\ await'[j] = a
        /\ pc'[j] = pc[j] /\ req'[j] = req[j]
    BY DEF Tick, IInv, TypeOK
  <2>3. /\ s.owner = scope[j].owner
        /\ s.left = Less1(scope[j].left)
        /\ s.age = IF pc[j] = "idle" THEN 0 ELSE Least(scope[j].age + 1, AgeCap)
        /\ s = [owner |-> s.owner, left |-> s.left, age |-> s.age]
    BY DEF Aged
  <2>4. /\ a.phase = await[j].phase /\ a.bound = await[j].bound
        /\ a.timer = Less1(await[j].timer) /\ a.owed = Less1(await[j].owed)
        /\ a.ops = await[j].ops
        /\ a = [phase |-> a.phase, bound |-> a.bound, ops |-> a.ops,
                timer |-> a.timer, owed |-> a.owed]
    BY DEF RunDown
  <2>5. s \in Scope
    BY <2>1, <2>3, Constants DEF Scope, Less1, Least
  <2>6. a \in Await
    BY <2>1, <2>4, Constants DEF Await, Less1
  <2>7. ScopeInv(j)'
    <3>1. CASE pc[j] = "idle"
      <4>1. scope[j] = NoScope
        BY <2>1, <3>1 DEF One, ScopeInv
      <4>2. s.owner = "none" /\ s.left = 0 /\ s.age = 0
        BY <2>3, <3>1, <4>1 DEF NoScope, Less1
      <4> QED BY <2>2, <2>3, <3>1, <4>2 DEF ScopeInv, NoScope
    <3>2. CASE pc[j] # "idle"
      <4>1. Accounts(scope[j]) /\ scope[j].owner # "none"
            /\ (pc[j] = "scoped" => scope[j].owner = "caller")
        BY <2>1, <3>2 DEF One, ScopeInv
      <4>2. Accounts(s)
        BY <2>1, <2>3, <3>2, <4>1, Constants DEF Accounts, Scope, Less1, Least
      <4> HIDE DEF s
      <4> QED BY <2>2, <2>3, <3>2, <4>1, <4>2 DEF ScopeInv, Accounts
    <3> QED BY <3>1, <3>2
  <2>8. AwaitInv(j)'
    <3>1. scope[j].left \in Nat /\ await[j].timer \in Nat /\ await[j].owed \in Nat
      BY <2>1, Constants DEF Scope, Await
    <3>2. pc[j] = "backoff" => a.timer <= s.left /\ a.owed <= a.timer
      BY <2>1, <2>3, <2>4, <3>1 DEF One, AwaitInv, Less1
    <3>3. pc[j] = "backoff" /\ a.owed > 0 => a.timer < s.left
      BY <2>1, <2>3, <2>4, <3>1 DEF One, AwaitInv, Less1
    <3> HIDE DEF s, a
    <3> QED BY <2>1, <2>2, <2>4, <3>2, <3>3 DEF One, AwaitInv
  <2>9. ReqInv(j)'
    BY <2>1, <2>2 DEF One, ReqInv
  <2> QED BY <2>2, <2>5, <2>6, <2>7, <2>8, <2>9 DEF One
<1>2. scope' \in [Invocations -> Scope] /\ await' \in [Invocations -> Await]
  BY <1>1 DEF Tick
<1>3. /\ brk \in [state : {"closed", "open"}, failures : 0..Threshold, window : 0..Recovery]
      /\ brk' = [brk EXCEPT !.window = Less1(brk.window)]
      /\ reported' = reported
  BY DEF IInv, TypeOK, Tick
<1>4. Less1(brk.window) \in 0..Recovery /\ (brk.window = 0 => Less1(brk.window) = 0)
  BY <1>3, Constants DEF Less1
<1>5. /\ brk' \in [state : {"closed", "open"}, failures : 0..Threshold, window : 0..Recovery]
      /\ brk'.state = brk.state /\ brk'.failures = brk.failures
      /\ brk'.window = Less1(brk.window)
  BY <1>3, <1>4
<1>6. BreakerConsistent'
  BY <1>3, <1>4, <1>5, Constants DEF IInv, BreakerConsistent, Less1
<1>7. TransitionsAnnounced'
  BY <1>3, <1>4, <1>5 DEF IInv, TransitionsAnnounced, StateOf
<1> QED BY <1>1, <1>2, <1>5, <1>6, <1>7 DEF Tick, IInv, TypeOK

-----------------------------------------------------------------------------
(* The invariant is inductive *)

(* The initial state: nobody has asked for anything, the breaker is closed. *)
LEMMA InitIInv == Init => IInv
<1> SUFFICES ASSUME Init PROVE IInv
  OBVIOUS
<1>1. NoScope \in Scope /\ NoReq \in Req /\ NoAwait \in Await
  BY Constants DEF NoScope, Scope, NoReq, Req, NoAwait, Await, Methods, Outcomes, NoHint
<1>2. TypeOK
  BY <1>1, Constants DEF Init, TypeOK, PCs, BreakerStates
<1>3. ASSUME NEW i \in Invocations PROVE One(i)
  <2>1. pc[i] = "idle" /\ scope[i] = NoScope /\ req[i] = NoReq
    BY DEF Init
  <2> QED BY <2>1 DEF One, ScopeInv, ReqInv, AwaitInv, NoReq
<1>4. BreakerConsistent /\ TransitionsAnnounced
  BY Constants DEF Init, BreakerConsistent, TransitionsAnnounced, StateOf
<1> QED BY <1>2, <1>3, <1>4 DEF IInv

(* Every step of an invocation keeps the invariant. *)
LEMMA StepIInv ==
    ASSUME IInv, NEW i \in Invocations, Step(i)
    PROVE  IInv'
<1>1. CASE OpenScope(i) \/ CloseScope(i)
  BY <1>1, ScopeStep
<1>2. CASE \E m \in Methods : Request(i, m)
  BY <1>2, RefusedStep, AdmittedStep DEF Request
<1>3. CASE NextPhase(i) \/ NextOperation(i)
  BY <1>3, Proceeds, ProceedStep
<1>4. CASE \E reply \in Replies \ {"unreachable"}, h \in Hints \cup {NoHint} : HttpReply(i, reply, h)
  BY <1>4, ConcludeStep DEF HttpReply
<1>5. CASE TransportFailure(i) \/ PhaseExpires(i)
  BY <1>5, ConcludeStep DEF TransportFailure, PhaseExpires, Replies, RetryableReplies
<1>6. CASE Wake(i)
  BY <1>6, WakeStep
<1>7. CASE Cancel(i)
  BY <1>7, CancelStep
<1> QED BY <1>1, <1>2, <1>3, <1>4, <1>5, <1>6, <1>7 DEF Step

(* Every step of the system keeps the invariant. *)
LEMMA NextIInv == IInv /\ [Next]_vars => IInv'
<1> SUFFICES ASSUME IInv, [Next]_vars PROVE IInv'
  OBVIOUS
<1>1. CASE Tick
  BY <1>1, TickStep
<1>2. CASE \E i \in Invocations : Step(i)
  BY <1>2, StepIInv
<1>3. CASE UNCHANGED vars
  BY <1>3 DEF vars, IInv, TypeOK, One, ScopeInv, ReqInv, AwaitInv, Accounts,
              BreakerConsistent, TransitionsAnnounced, StateOf
<1> QED BY <1>1, <1>2, <1>3 DEF Next

(* The strengthened invariant holds of every reachable state. *)
THEOREM Inductive == Spec => []IInv
BY InitIInv, NextIInv, PTL DEF Spec

-----------------------------------------------------------------------------
(* The state properties *)

(* Every variable keeps its type, with no bound but the constants. *)
THEOREM TypeCorrect == Spec => []TypeOK
<1>1. IInv => TypeOK
  BY DEF IInv
<1> QED BY <1>1, Inductive, PTL

(* A POST reaches Jobvite at most once; nothing exceeds the attempt cap. *)
THEOREM SentOnce == Spec => []WriteSentOnce
<1>1. IInv => WriteSentOnce
  <2> SUFFICES ASSUME IInv, NEW i \in Invocations
               PROVE  req[i].sent <= IF req[i].method = "POST" THEN 1 ELSE MaxAttempts
    BY DEF WriteSentOnce
  <2>1. req[i] \in Req /\ ReqInv(i)
    BY DEF IInv, TypeOK, One
  <2> QED BY <2>1, Constants DEF Req, ReqInv
<1> QED BY <1>1, Inductive, PTL

(* No sleeper sleeps past its deadline. *)
THEOREM SleepBounded == Spec => []SleepWithinBudget
<1>1. IInv => SleepWithinBudget
  BY DEF IInv, One, AwaitInv, SleepWithinBudget
<1> QED BY <1>1, Inductive, PTL

(* The breaker is open exactly on a full count, under any interleaving. *)
THEOREM BreakerSound == Spec => []BreakerConsistent
<1>1. IInv => BreakerConsistent
  BY DEF IInv
<1> QED BY <1>1, Inductive, PTL

(* The log never lags the breaker by more than an expired window. *)
THEOREM Announced == Spec => []TransitionsAnnounced
<1>1. IInv => TransitionsAnnounced
  BY DEF IInv
<1> QED BY <1>1, Inductive, PTL

(* A hint comes from Jobvite or from the breaker's window. *)
THEOREM HintsHonest == Spec => []HintsNeverInvented
<1>1. IInv => HintsNeverInvented
  BY DEF IInv, One, ReqInv, HintsNeverInvented
<1> QED BY <1>1, Inductive, PTL

-----------------------------------------------------------------------------
(* The action properties *)

(* Which kinds of step there are: an invocation's coroutine opens or closes  *)
(* a scope, is refused or admitted, moves through its exchange, falls        *)
(* asleep, wakes up or ends.                                                 *)
LEMMA StepKinds ==
    ASSUME IInv, NEW i \in Invocations, Step(i)
    PROVE  \/ OpenScope(i) \/ CloseScope(i)
           \/ pc[i] = "sending" /\ \E p \in 1..NPhases : Proceed(i, p)
           \/ \E h \in Hints \cup {NoHint} : pc[i] = "sending" /\ Sleep(i, h)
           \/ \E m \in Methods : Request(i, m)
           \/ \E r \in Replies, h \in Hints \cup {NoHint} :
                 pc[i] = "sending"
                 /\ Answer(i, req[i].method, req[i].sent, PublicOutcome(i, r),
                           PublicHint(PublicOutcome(i, r), h))
           \/ Wake(i)
           \/ Cancel(i)
<1>1. "unreachable" \in Replies
  BY DEF Replies, RetryableReplies
<1>2. CASE \E r \in Replies, h \in Hints \cup {NoHint} : pc[i] = "sending" /\ Conclude(i, r, h)
  <2>1. PICK r \in Replies, h \in Hints \cup {NoHint} : pc[i] = "sending" /\ Conclude(i, r, h)
    BY <1>2
  <2>2. CASE Retries(i, r, h)
    BY <2>1, <2>2 DEF Conclude
  <2>3. CASE ~Retries(i, r, h)
    BY <2>1, <2>3 DEF Conclude
  <2> QED BY <2>2, <2>3
<1>3. CASE \E reply \in Replies \ {"unreachable"}, h \in Hints \cup {NoHint} : HttpReply(i, reply, h)
  BY <1>2, <1>3 DEF HttpReply
<1>4. CASE TransportFailure(i) \/ PhaseExpires(i)
  BY <1>1, <1>2, <1>4 DEF TransportFailure, PhaseExpires
<1>5. CASE NextPhase(i) \/ NextOperation(i)
  BY <1>5, Proceeds
<1> QED BY <1>3, <1>4, <1>5 DEF Step

Same(j) == pc'[j] = pc[j] /\ req'[j] = req[j] /\ scope'[j] = scope[j] /\ await'[j] = await[j]

(* A step of one invocation leaves the others where they were. *)
LEMMA Frame ==
    ASSUME IInv, NEW i \in Invocations, Step(i), NEW j \in Invocations, j # i
    PROVE  Same(j)
<1> USE DEF Same
<1> USE DEF IInv, TypeOK
<1>1. CASE OpenScope(i) \/ CloseScope(i) \/ \E p \in 1..NPhases : Proceed(i, p)
  BY <1>1 DEF OpenScope, CloseScope, Proceed
<1>2. ASSUME NEW m, NEW n, NEW o, NEW h, Answer(i, m, n, o, h) PROVE Same(j)
  BY <1>2 DEF Answer
<1>3. ASSUME NEW m, NEW n, NEW b, Send(i, m, n, b)
      PROVE  pc'[j] = pc[j] /\ req'[j] = req[j] /\ await'[j] = await[j]
  BY <1>3 DEF Send
<1>4. ASSUME NEW h, Sleep(i, h) PROVE Same(j)
  BY <1>4 DEF Sleep
<1>5. CASE \E m \in Methods : Request(i, m)
  BY <1>2, <1>3, <1>5 DEF Request, Refused, Admitted
<1>6. CASE Wake(i) \/ Cancel(i)
  BY <1>2, <1>3, <1>6 DEF Wake, Cancel
<1> QED BY <1>1, <1>2, <1>4, <1>5, <1>6, StepKinds

(* Only a new request or a sleeper that wakes up within its budget sends. *)
LEMMA WhoSends ==
    ASSUME IInv, [Next]_vars, NEW j \in Invocations, Sends(j)
    PROVE  \/ pc[j] # "backoff" /\ scope'[j].left # 0
           \/ Wake(j) /\ scope'[j].left # 0
<1> USE DEF IInv, TypeOK
<1>1. CASE Tick \/ UNCHANGED vars
  BY <1>1 DEF Tick, vars, Sends
<1>2. ASSUME NEW i \in Invocations, Step(i), i # j PROVE FALSE
  BY <1>2, Frame DEF Sends, Same
<1>3. CASE Step(j)
  <2>1. ASSUME NEW m, NEW n, NEW o, NEW h, Answer(j, m, n, o, h) PROVE FALSE
    BY <2>1 DEF Answer, Sends
  <2>2. ASSUME OpenScope(j) \/ CloseScope(j) PROVE FALSE
    BY <2>2 DEF OpenScope, CloseScope, Sends
  <2>7. ASSUME pc[j] = "sending", NEW p, Proceed(j, p) PROVE FALSE
    BY <2>7 DEF Proceed, Sends
  <2>3. ASSUME NEW h, Sleep(j, h) PROVE FALSE
    BY <2>3 DEF Sleep, Sends
  <2>4. CASE \E m \in Methods : Request(j, m)
    <3>1. PICK m \in Methods : Request(j, m)
      BY <2>4
    <3>2. scope'[j].left # 0
      BY <2>1, <3>1 DEF Request, Refused, Admitted
    <3> QED BY <3>1, <3>2 DEF Request
  <2>5. CASE Wake(j)
    BY <2>1, <2>5 DEF Wake
  <2>6. CASE Cancel(j)
    BY <2>1, <2>6 DEF Cancel
  <2> QED BY <1>3, <2>1, <2>2, <2>3, <2>4, <2>5, <2>6, <2>7, StepKinds
<1> QED BY <1>1, <1>2, <1>3 DEF Next

(* Whatever leaves for Jobvite leaves within the budget of its invocation. *)
THEOREM DeadlineKept == Spec => NoSendPastDeadline
<1>1. IInv /\ IInv' /\ [Next]_vars
        => [\A i \in Invocations : Sends(i) => scope'[i].age < Budget]_vars
  <2> SUFFICES ASSUME IInv, IInv', [Next]_vars, NEW i \in Invocations, Sends(i)
               PROVE  scope'[i].age < Budget
    OBVIOUS
  <2>1. scope'[i].left # 0
    BY WhoSends
  <2>2. pc'[i] = "sending" /\ One(i)' /\ scope'[i] \in Scope
    BY DEF Sends, IInv, TypeOK
  <2>3. Accounts(scope[i])'
    BY <2>2 DEF One, ScopeInv
  <2> QED BY <2>1, <2>2, <2>3, Constants DEF Scope, Accounts
<1> QED BY <1>1, Inductive, PTL DEF NoSendPastDeadline, Spec

(* A retry is not sent before the Retry-After it answers has passed. *)
THEOREM HintHonoured == Spec => RetryAfterHonoured
<1>1. IInv /\ [Next]_vars
        => [\A i \in Invocations : Sends(i) /\ pc[i] = "backoff" => await[i].owed = 0]_vars
  <2> SUFFICES ASSUME IInv, [Next]_vars, NEW i \in Invocations, Sends(i), pc[i] = "backoff"
               PROVE  await[i].owed = 0
    OBVIOUS
  <2>1. await[i].timer = 0
    BY WhoSends DEF Wake
  <2>2. One(i) /\ await[i] \in Await
    BY DEF IInv, TypeOK
  <2> QED BY <2>1, <2>2 DEF One, AwaitInv, Await
<1> QED BY <1>1, Inductive, PTL DEF RetryAfterHonoured, Spec

-----------------------------------------------------------------------------
(* How long an exchange takes *)

(* There is a longest timeout: by least counterexample, among the first n. *)
LEMMA Longest ==
    /\ LongestTimeout \in Nat \ {0}
    /\ \A p \in 1..NPhases : PhaseTimeout[p] <= LongestTimeout
<1> DEFINE Tops(n, q) == q \in 1..n /\ \A p \in 1..n : PhaseTimeout[p] <= PhaseTimeout[q]
           Bad == {n \in 1..NPhases : ~ \E q : Tops(n, q)}
<1>1. /\ NPhases \in Nat /\ NPhases >= 1
      /\ \A p \in 1..NPhases : PhaseTimeout[p] \in Nat \ {0}
  BY ResilienceAssumption
<1>2. Bad = {}
  <2> SUFFICES ASSUME Bad # {} PROVE FALSE
    OBVIOUS
  <2>1. PICK n \in Bad : \A m \in Bad : n <= m
    <3>1. Bad \subseteq Nat
      BY <1>1
    <3> HIDE DEF Bad
    <3> QED BY <3>1, LeastNat
  <2>2. n \in 1..NPhases /\ ~ \E q : Tops(n, q)
    OBVIOUS
  <2>3. n # 1
    <3>1. Tops(1, 1)
      BY <1>1
    <3> QED BY <2>2, <3>1
  <2>4. n - 1 \in 1..NPhases /\ n - 1 < n
    BY <1>1, <2>2, <2>3
  <2>5. n - 1 \notin Bad
    <3> HIDE DEF Bad
    <3> QED BY <2>1, <2>2, <2>4
  <2>6. PICK q : Tops(n - 1, q)
    BY <2>4, <2>5
  <2>7. /\ q \in 1..n /\ \A p \in 1..(n - 1) : PhaseTimeout[p] <= PhaseTimeout[q]
        /\ \A p \in 1..n : p = n \/ p \in 1..(n - 1)
        /\ PhaseTimeout[n] \in Nat /\ PhaseTimeout[q] \in Nat
        /\ \A p \in 1..n : PhaseTimeout[p] \in Nat
    BY <1>1, <2>2, <2>4, <2>6
  <2>8. CASE PhaseTimeout[n] <= PhaseTimeout[q]
    <3>1. Tops(n, q)
      BY <2>7, <2>8
    <3> QED BY <2>2, <3>1
  <2>9. CASE PhaseTimeout[n] > PhaseTimeout[q]
    <3>1. n \in 1..n
      BY <2>2
    <3>2. \A p \in 1..n : PhaseTimeout[p] <= PhaseTimeout[n]
      BY <2>7, <2>9
    <3>3. Tops(n, n)
      BY <3>1, <3>2
    <3> QED BY <2>2, <3>3
  <2> QED BY <2>7, <2>8, <2>9
<1>3. PICK q \in 1..NPhases : \A p \in 1..NPhases : PhaseTimeout[p] <= PhaseTimeout[q]
  <2>1. NPhases \in 1..NPhases
    BY <1>1
  <2>2. \E q : Tops(NPhases, q)
    BY <1>2, <2>1
  <2> QED BY <2>2
<1>4. /\ LongestTimeout \in {PhaseTimeout[p] : p \in 1..NPhases}
      /\ \A p \in 1..NPhases : PhaseTimeout[p] <= LongestTimeout
  BY <1>3 DEF LongestTimeout
<1> QED BY <1>1, <1>4

\* The longest an operation may last in an attempt that began with b left.
Most(b) == Least(LongestTimeout, b)

(* No operation is given more. *)
LEMMA OperationWithin ==
    ASSUME NEW p \in 1..NPhases, NEW b \in Nat
    PROVE  /\ PhaseTimer(p, b) \in Nat /\ Most(b) \in Nat
           /\ PhaseTimer(p, b) <= Most(b)
<1>1. /\ PhaseTimeout[p] \in Nat /\ LongestTimeout \in Nat
      /\ PhaseTimeout[p] <= LongestTimeout
  BY Longest, ResilienceAssumption
<1> QED BY <1>1 DEF PhaseTimer, Most, Least

(* One operation more, one timeout more. *)
LEMMA OneMore ==
    ASSUME NEW n \in Nat, NEW l \in Nat
    PROVE  /\ 1 * l = l /\ (n + 1) * l = n * l + l
           /\ n * l \in Nat /\ (n + 1) * l \in Nat
OBVIOUS

Within(i) ==
    pc[i] = "sending" /\ await[i].ops < OpsCap =>
        scope[i].age + await[i].timer
            <= Budget - await[i].bound + await[i].ops * Most(await[i].bound)

(* An attempt begins within its bound: what is left of the budget and the    *)
(* scope's age make up the budget.                                           *)
LEMMA SendsWithin ==
    ASSUME IInv, IInv', NEW i \in Invocations, NEW m, NEW n, NEW left \in 1..Budget,
           Send(i, m, n, left), scope'[i].left = left
    PROVE  Within(i)'
<1>1. left \in 0..Budget /\ left \in Nat /\ left > 0 /\ 1 \in 1..NPhases /\ 1 \in 0..OpsCap
  BY Constants
<1>2. await'[i] = Operation(1, left, 1) /\ pc'[i] = "sending"
  BY DEF Send, IInv, TypeOK
<1>3. await'[i].timer = PhaseTimer(1, left) /\ await'[i].bound = left /\ await'[i].ops = 1
  BY <1>1, <1>2, OperationType
<1>4. /\ PhaseTimer(1, left) \in Nat /\ Most(left) \in Nat
      /\ PhaseTimer(1, left) <= Most(left) /\ 1 * Most(left) = Most(left)
  <2>1. /\ PhaseTimer(1, left) \in Nat /\ Most(left) \in Nat
        /\ PhaseTimer(1, left) <= Most(left)
    BY <1>1, OperationWithin
  <2> QED BY <2>1, OneMore
<1>5. scope'[i].age \in Nat /\ scope'[i].left + scope'[i].age = Budget
  <2>1. Accounts(scope[i])' /\ scope'[i] \in Scope
    BY <1>2 DEF IInv, One, ScopeInv, TypeOK
  <2> QED BY <1>1, <2>1, Constants DEF Accounts, Scope
<1>6. scope'[i].age + PhaseTimer(1, left) <= Budget - left + Most(left)
  BY <1>1, <1>4, <1>5, Constants
<1>7. scope'[i].age + await'[i].timer
        <= Budget - await'[i].bound + await'[i].ops * Most(await'[i].bound)
  BY <1>3, <1>4, <1>6
<1> QED BY <1>7 DEF Within, Most

(* The next operation adds at most one timeout.                              *)
LEMMA ProceedWithin ==
    ASSUME IInv, NEW i \in Invocations, pc[i] = "sending", Within(i),
           NEW p \in 1..NPhases, Proceed(i, p)
    PROVE  Within(i)'
<1> DEFINE b == await[i].bound
           n == await[i].ops
           t == await[i].timer
           age == scope[i].age
<1>1. await[i] \in Await /\ scope[i] \in Scope
  BY DEF IInv, TypeOK
<1>2. b \in 0..Budget /\ b \in Nat /\ n \in Nat /\ n <= OpsCap /\ t \in Nat /\ age \in Nat
  BY <1>1, Constants DEF Await, Scope
<1>3. await'[i] = Operation(p, b, Least(n + 1, OpsCap)) /\ scope' = scope
  BY DEF Proceed, IInv, TypeOK
<1>4. n < OpsCap => age + t <= Budget - b + n * Most(b)
  BY DEF Within
<1> HIDE DEF b, n, t, age
<1>5. Least(n + 1, OpsCap) \in 0..OpsCap
  BY <1>2, Constants DEF Least
<1>6. /\ await'[i].timer = PhaseTimer(p, b) /\ await'[i].bound = b
      /\ await'[i].ops = Least(n + 1, OpsCap)
  BY <1>2, <1>3, <1>5, OperationType
<1>7. SUFFICES ASSUME Least(n + 1, OpsCap) < OpsCap
               PROVE  age + PhaseTimer(p, b) <= Budget - b + (n + 1) * Most(b)
  <2>1. Least(n + 1, OpsCap) < OpsCap => Least(n + 1, OpsCap) = n + 1
    BY <1>2, Constants DEF Least
  <2>2. scope'[i].age = age
    BY <1>3 DEF age
  <2> QED BY <1>6, <2>1, <2>2 DEF Within, Most
<1>8. n < OpsCap
  BY <1>2, <1>7, Constants DEF Least
<1>9. /\ PhaseTimer(p, b) \in Nat /\ Most(b) \in Nat /\ PhaseTimer(p, b) <= Most(b)
  BY <1>2, OperationWithin
<1>10. (n + 1) * Most(b) = n * Most(b) + Most(b) /\ n * Most(b) \in Nat
  BY <1>2, <1>9, OneMore
<1> DEFINE x == n * Most(b)
           y == (n + 1) * Most(b)
           u == PhaseTimer(p, b)
           v == Most(b)
<1>11. y = x + v /\ x \in Nat /\ u \in Nat /\ v \in Nat /\ u <= v
       /\ age + t <= Budget - b + x
  BY <1>4, <1>8, <1>9, <1>10
<1> HIDE DEF x, y, u, v
<1>12. age + u <= Budget - b + y
  BY <1>2, <1>11, Constants
<1> QED BY <1>12 DEF u, y

(* A punctual loop lets no tick pass a timer that is due.                    *)
LEMMA TickWithin ==
    ASSUME IInv, Prompt, Tick, NEW i \in Invocations, Within(i)
    PROVE  Within(i)'
<1> SUFFICES ASSUME pc[i] = "sending", await[i].ops < OpsCap PROVE Within(i)'
  BY DEF Tick, Within, IInv, TypeOK, RunDown
<1>1. await[i] \in Await /\ scope[i] \in Scope
  BY DEF IInv, TypeOK
<1>2. /\ await[i].timer \in Nat /\ scope[i].age \in Nat /\ await[i].timer # 0
  BY <1>1, Constants DEF Await, Scope, Tick, Due
<1>3. /\ await'[i].timer = await[i].timer - 1
      /\ await'[i].ops = await[i].ops /\ await'[i].bound = await[i].bound
  BY <1>1, <1>2 DEF Tick, RunDown, Less1
<1>4. scope'[i].age \in Nat /\ scope'[i].age <= scope[i].age + 1
  BY <1>1, <1>2, Constants DEF Tick, Aged, Least
<1>5. scope'[i].age + await'[i].timer <= scope[i].age + await[i].timer
  BY <1>2, <1>3, <1>4
<1> DEFINE r == Budget - await[i].bound + await[i].ops * Most(await[i].bound)
<1>6. r \in Int
  <2>1. await[i].bound \in Nat /\ await[i].ops \in Nat /\ 1 \in 1..NPhases
    BY <1>1, Constants DEF Await
  <2>2. Most(await[i].bound) \in Nat
    BY <2>1, OperationWithin
  <2>3. await[i].ops * Most(await[i].bound) \in Nat
    BY <2>1, <2>2, OneMore
  <2> HIDE DEF Most
  <2> QED BY <2>1, <2>3, Constants
<1>7. scope[i].age + await[i].timer <= r
  BY DEF Within
<1> HIDE DEF r
<1>8. scope'[i].age + await'[i].timer <= r
  BY <1>2, <1>3, <1>4, <1>5, <1>6, <1>7
<1> QED BY <1>3, <1>8 DEF Within, r, Most

(* No step takes an exchange past its bound.                                 *)
LEMMA WithinNext ==
    ASSUME IInv, IInv', Prompt, [Next]_vars, NEW j \in Invocations, Within(j)
    PROVE  Within(j)'
<1>1. CASE Tick
  BY <1>1, TickWithin
<1>2. CASE UNCHANGED vars
  BY <1>2 DEF vars, Within
<1>3. ASSUME NEW i \in Invocations, Step(i), i # j PROVE Within(j)'
  <2>1. Same(j)
    BY <1>3, Frame
  <2> QED BY <2>1 DEF Same, Within
<1>4. CASE Step(j)
  <2>1. ASSUME pc'[j] # "sending" PROVE Within(j)'
    BY <2>1 DEF Within
  <2>2. ASSUME NEW m, NEW n, NEW o, NEW h, Answer(j, m, n, o, h) PROVE pc'[j] # "sending"
    BY <2>2 DEF Answer, IInv, TypeOK
  <2>3. ASSUME OpenScope(j) \/ CloseScope(j) PROVE pc'[j] # "sending"
    BY <2>3 DEF OpenScope, CloseScope, IInv, TypeOK
  <2>4. ASSUME NEW h, Sleep(j, h) PROVE pc'[j] # "sending"
    BY <2>4 DEF Sleep, IInv, TypeOK
  <2>5. CASE \E m \in Methods : Request(j, m)
    <3>1. PICK m \in Methods : Request(j, m)
      BY <2>5
    <3> DEFINE s == EnterScope(scope[j])
    <3>2. CASE Opened \/ s.left = 0
      BY <2>1, <2>2, <3>1, <3>2 DEF Request, Refused, Admitted
    <3>3. CASE ~Opened /\ s.left # 0
      <4>1. Send(j, m, 1, s.left) /\ scope'[j] = s
        BY <3>1, <3>3 DEF Request, Refused, Admitted, IInv, TypeOK
      <4>2. s.left \in 1..Budget
        <5>1. scope'[j] \in Scope
          BY DEF IInv, TypeOK
        <5>2. s.left \in 0..Budget
          BY <4>1, <5>1 DEF Scope
        <5> QED BY <3>3, <5>2, Constants
      <4> QED BY <4>1, <4>2, SendsWithin
    <3> QED BY <3>2, <3>3
  <2>6. CASE Wake(j)
    <3>1. CASE scope[j].left = 0
      BY <2>1, <2>2, <2>6, <3>1 DEF Wake
    <3>2. CASE scope[j].left # 0
      <4>1. Send(j, req[j].method, req[j].sent + 1, scope[j].left) /\ scope' = scope
        BY <2>6, <3>2 DEF Wake
      <4>2. scope[j].left \in 1..Budget
        BY <3>2, Constants DEF IInv, TypeOK, Scope
      <4> QED BY <4>1, <4>2, SendsWithin
    <3> QED BY <3>1, <3>2
  <2>7. CASE Cancel(j)
    BY <2>1, <2>2, <2>7 DEF Cancel
  <2>8. CASE pc[j] = "sending" /\ \E p \in 1..NPhases : Proceed(j, p)
    BY <2>8, ProceedWithin
  <2> QED BY <1>4, <2>1, <2>2, <2>3, <2>4, <2>5, <2>6, <2>7, <2>8, StepKinds
<1> QED BY <1>1, <1>2, <1>3, <1>4 DEF Next

(* A punctual event loop ends the n-th operation of an exchange within n of   *)
(* the longest timeouts that _attempt_timeout may give it, whatever was left  *)
(* of the budget when the attempt began.                                      *)
THEOREM ExchangesBounded == ASSUME Prompt PROVE Spec => []ExchangeBounded
<1>1. Init => ExchangeBounded
  BY DEF Init, ExchangeBounded
<1>2. ExchangeBounded /\ IInv /\ IInv' /\ [Next]_vars => ExchangeBounded'
  <2> SUFFICES ASSUME ExchangeBounded, IInv, IInv', [Next]_vars, NEW i \in Invocations
               PROVE  Within(i)'
    BY DEF ExchangeBounded, Within, Most
  <2>1. Within(i)
    BY DEF ExchangeBounded, Within, Most
  <2> QED BY <2>1, WithinNext
<1> QED BY <1>1, <1>2, Inductive, PTL DEF Spec

(* Which outcomes ease the breaker, which worsen it. *)
LEMMA OutcomeMoves ==
    ASSUME TypeOK, BreakerConsistent, NEW o \in Outcomes, brk' = AfterOutcome(brk, o)
    PROVE  /\ brk'.failures < brk.failures \/ (brk.state = "open" /\ brk'.state = "closed") => o = "ok"
           /\ brk'.failures > brk.failures \/ brk'.window > brk.window => o \in Outages
<1>1. CASE o \in Outages
  <2>1. "ok" \notin Outages
    BY DEF Outages, RetryableReplies
  <2>2. brk' = CallFailed(brk)
    BY <1>1, <2>1 DEF AfterOutcome
  <2> QED BY <1>1, <2>2, Constants DEF TypeOK, BreakerConsistent, CallFailed, Least
<1>2. CASE o = "ok"
  <2>1. brk' = Healed
    BY <1>2 DEF AfterOutcome, Outages, RetryableReplies
  <2> QED BY <1>2, <2>1, Constants DEF TypeOK, Healed
<1>3. CASE o \notin Outages /\ o # "ok"
  <2>1. brk' = brk
    BY <1>3 DEF AfterOutcome
  <2> QED BY <2>1, Constants DEF TypeOK
<1> QED BY <1>1, <1>2, <1>3

(* A refusal or a cancellation is neutral. *)
LEMMA Neutral ==
    ASSUME NEW o \in {"breaker_open", "budget", "cancelled"}, brk' = AfterOutcome(brk, o)
    PROVE  brk' = brk
BY DEF AfterOutcome, Outages, RetryableReplies

(* What Jobvite answered: never a refusal by the breaker, and "budget" only *)
(* for a method that is retried.                                            *)
LEMMA PublicOutcomeType ==
    ASSUME NEW i \in Invocations, NEW r \in Replies
    PROVE  /\ PublicOutcome(i, r) \in Replies \cup {"budget"}
           /\ PublicOutcome(i, r) = "budget" => req[i].method \in RetryableMethods
BY DEF PublicOutcome, Replies, RetryableReplies

(* The breaker moves only when a request that was sent is answered. *)
LEMMA BreakerMover ==
    ASSUME IInv, NEW i \in Invocations, Step(i)
    PROVE  \/ brk' = brk
           \/ \E o \in Replies : Answered(i, o) /\ brk' = AfterOutcome(brk, o)
<1>1. CASE \E r \in Replies, h \in Hints \cup {NoHint} :
             pc[i] = "sending"
             /\ Answer(i, req[i].method, req[i].sent, PublicOutcome(i, r),
                       PublicHint(PublicOutcome(i, r), h))
  <2>1. PICK r \in Replies, h \in Hints \cup {NoHint} :
             pc[i] = "sending"
             /\ Answer(i, req[i].method, req[i].sent, PublicOutcome(i, r),
                       PublicHint(PublicOutcome(i, r), h))
    BY <1>1
  <2> DEFINE o == PublicOutcome(i, r)
  <2>2. o \in Replies \cup {"budget"}
    BY PublicOutcomeType
  <2> HIDE DEF o
  <2>3. brk' = AfterOutcome(brk, o)
    BY <2>1 DEF Answer, o
  <2>4. Answered(i, o)
    BY <2>1 DEF Answer, Answered, IInv, TypeOK, o
  <2> QED BY <2>2, <2>3, <2>4, Neutral
<1>2. CASE OpenScope(i) \/ CloseScope(i) \/ \E p \in 1..NPhases : Proceed(i, p)
  BY <1>2 DEF OpenScope, CloseScope, Proceed
<1>3. CASE \E h \in Hints \cup {NoHint} : Sleep(i, h)
  BY <1>3 DEF Sleep
<1>4. CASE \E m \in Methods : Request(i, m)
  BY <1>4, Neutral DEF Request, Refused, Admitted, Answer
<1>5. CASE Wake(i)
  BY <1>5, Neutral DEF Wake, Answer
<1>6. CASE Cancel(i)
  BY <1>6, Neutral DEF Cancel, Answer
<1> QED BY <1>1, <1>2, <1>3, <1>4, <1>5, <1>6, StepKinds

(* Success eases the breaker, evidence of an outage worsens it, and nothing *)
(* else moves it: not a refusal, a 4xx, a spent budget or a cancellation.   *)
THEOREM EvidenceOnly == Spec => OnlyEvidenceMovesBreaker
<1> DEFINE A == /\ brk'.failures < brk.failures \/ (brk.state = "open" /\ brk'.state = "closed")
                      => \E i \in Invocations : Answered(i, "ok")
                /\ brk'.failures > brk.failures \/ brk'.window > brk.window
                      => \E i \in Invocations, o \in Outages : Answered(i, o)
<1>1. IInv /\ [Next]_vars => [A]_vars
  <2> SUFFICES ASSUME IInv, [Next]_vars PROVE A
    OBVIOUS
  <2>1. TypeOK /\ BreakerConsistent /\ brk.failures \in Nat /\ brk.window \in Nat
    BY Constants DEF IInv, TypeOK
  <2>2. CASE brk' = brk
    BY <2>1, <2>2
  <2>3. CASE Tick
    <3>1. /\ brk'.failures = brk.failures /\ brk'.state = brk.state
          /\ brk'.window = Less1(brk.window)
      BY <2>1, <2>3 DEF Tick, TypeOK
    <3> QED BY <2>1, <3>1 DEF Less1
  <2>4. CASE \E i \in Invocations, o \in Replies : Answered(i, o) /\ brk' = AfterOutcome(brk, o)
    <3>1. PICK i \in Invocations, o \in Replies : Answered(i, o) /\ brk' = AfterOutcome(brk, o)
      BY <2>4
    <3>2. o \in Outcomes
      BY DEF Outcomes
    <3> QED BY <2>1, <3>1, <3>2, OutcomeMoves
  <2>5. CASE \E i \in Invocations : Step(i)
    BY <2>2, <2>4, <2>5, BreakerMover
  <2>6. CASE UNCHANGED vars
    BY <2>2, <2>6 DEF vars
  <2> QED BY <2>3, <2>5, <2>6 DEF Next
<1> QED BY <1>1, Inductive, PTL DEF OnlyEvidenceMovesBreaker, Spec

-----------------------------------------------------------------------------
(* Refinement *)

(* Only an outcome that is evidence can change what StateOf shows. *)
LEMMA GateStep ==
    ASSUME TypeOK, BreakerConsistent, NEW o \in Outcomes, brk' = AfterOutcome(brk, o)
    PROVE  /\ o = "ok" => StateOf(brk') = "closed"
           /\ o \in Outages => StateOf(brk') \in {StateOf(brk), "open"}
           /\ o \notin Outages \cup {"ok"} => StateOf(brk') = StateOf(brk)
<1>1. "ok" \notin Outages
  BY DEF Outages, RetryableReplies
<1>2. CASE o = "ok"
  <2>1. brk' = Healed
    BY <1>1, <1>2 DEF AfterOutcome
  <2> QED BY <1>2, <1>1, <2>1 DEF Healed, StateOf
<1>3. CASE o \in Outages
  <2>1. brk' = CallFailed(brk)
    BY <1>1, <1>3 DEF AfterOutcome
  <2>2. StateOf(brk') \in {StateOf(brk), "open"}
    BY <2>1, Constants DEF CallFailed, Least, StateOf, TypeOK, BreakerConsistent
  <2> QED BY <1>1, <1>3, <2>2
<1>4. CASE o \notin Outages /\ o # "ok"
  <2>1. brk' = brk
    BY <1>4 DEF AfterOutcome
  <2> QED BY <1>4, <2>1
<1> QED BY <1>2, <1>3, <1>4

(* The abstract variables, under the mapping of Contract. *)
Waiting == [i \in Invocations |-> Busy(i)]
Method  == [i \in Invocations |-> req[i].method]
Sent    == [i \in Invocations |-> req[i].sent]
Told    == [i \in Invocations |-> req[i].outcome]

(* A request that is refused unsent. *)
LEMMA RefuseMaps ==
    ASSUME IInv, NEW i \in Invocations, NEW m \in Methods, NEW o \in {"breaker_open", "budget"},
           NEW h, ~Busy(i), o = "breaker_open" <=> Opened, Answer(i, m, 0, o, h)
    PROVE  Contract!Refuse(i)
<1>1. brk' = brk
  BY Neutral DEF Answer
<1>2. /\ req' = [req EXCEPT ![i] = [method |-> m, sent |-> 0, outcome |-> o, hint |-> h]]
      /\ pc'[i] \in {"scoped", "idle"}
      /\ \A j \in Invocations : j # i => pc'[j] = pc[j]
  BY DEF Answer, IInv, TypeOK
<1>3. /\ Method' = [Method EXCEPT ![i] = m]
      /\ Sent' = [Sent EXCEPT ![i] = 0]
      /\ Told' = [Told EXCEPT ![i] = o]
  BY <1>2 DEF Method, Sent, Told, IInv, TypeOK
<1>4. Waiting' = Waiting
  BY <1>2 DEF Waiting, Busy
<1> QED BY <1>1, <1>3, <1>4
        DEF Contract!Refuse, Contract!Refusals, Method, Sent, Told, Waiting, Opened, Methods, Busy

(* A request that is admitted, or sent once more. *)
LEMMA SendMaps ==
    ASSUME IInv, NEW i \in Invocations, NEW m, NEW n, NEW b, Send(i, m, n, b), brk' = brk
    PROVE  /\ Method' = [Method EXCEPT ![i] = m]
           /\ Sent' = [Sent EXCEPT ![i] = n]
           /\ Told' = [Told EXCEPT ![i] = "none"]
           /\ Waiting' = [Waiting EXCEPT ![i] = TRUE]
           /\ StateOf(brk') = StateOf(brk)
<1>1. /\ req' = [req EXCEPT ![i] = [method |-> m, sent |-> n, outcome |-> "none", hint |-> NoHint]]
      /\ pc'[i] = "sending"
      /\ \A j \in Invocations : j # i => pc'[j] = pc[j]
  BY DEF Send, IInv, TypeOK
<1>2. Waiting' = [Waiting EXCEPT ![i] = TRUE]
  BY <1>1 DEF Waiting, Busy
<1> QED BY <1>1, <1>2 DEF Method, Sent, Told, IInv, TypeOK

(* A request that is answered after it was sent. *)
LEMMA FinishMaps ==
    ASSUME IInv, NEW i \in Invocations, Busy(i),
           NEW o \in Replies \cup {"budget", "cancelled"},
           o = "budget" => req[i].method # "POST",
           NEW h, Answer(i, req[i].method, req[i].sent, o, h)
    PROVE  Contract!Finish(i)
<1>1. /\ req' = [req EXCEPT ![i] = [method |-> req[i].method, sent |-> req[i].sent,
                                    outcome |-> o, hint |-> h]]
      /\ pc'[i] \in {"scoped", "idle"}
      /\ \A j \in Invocations : j # i => pc'[j] = pc[j]
  BY DEF Answer, IInv, TypeOK
<1>2. Method' = Method /\ Sent' = Sent /\ Told' = [Told EXCEPT ![i] = o]
  BY <1>1 DEF Method, Sent, Told, IInv, TypeOK
<1>3. Waiting' = [Waiting EXCEPT ![i] = FALSE]
  <2>1. Busy(i)' = FALSE
    BY <1>1 DEF Busy
  <2>2. \A j \in Invocations : j # i => Busy(j)' = Busy(j)
    BY <1>1 DEF Busy
  <2> QED BY <2>1, <2>2 DEF Waiting
<1>4. /\ o = "ok" => StateOf(brk') = "closed"
      /\ o \in Outages => StateOf(brk') \in {StateOf(brk), "open"}
      /\ o \notin Outages \cup {"ok"} => StateOf(brk') = StateOf(brk)
  BY GateStep DEF Answer, IInv, Outcomes
<1>5. Outages = Contract!Evidence
  BY DEF Outages, RetryableReplies, Contract!Evidence
<1>6. o \in Contract!Answers \ {"breaker_open"}
  BY DEF Replies, RetryableReplies, Contract!Answers, Contract!Refusals, Contract!Evidence
<1> QED BY <1>2, <1>3, <1>4, <1>5, <1>6 DEF Contract!Finish, Method, Sent, Told, Waiting

(* Nothing a caller can see. *)
LEMMA StutterMaps ==
    ASSUME \A j \in Invocations : Busy(j)' = Busy(j), req' = req, StateOf(brk') = StateOf(brk)
    PROVE  UNCHANGED Contract!cvars
BY DEF Contract!cvars

(* request() refuses or starts. *)
LEMMA RequestMaps ==
    ASSUME IInv, NEW i \in Invocations, NEW m \in Methods, Request(i, m)
    PROVE  Contract!Refuse(i) \/ Contract!Start(i)
<1> DEFINE s == EnterScope(scope[i])
<1>1. ~Busy(i)
  BY DEF Request, Busy
<1>2. CASE Opened
  BY <1>1, <1>2, RefuseMaps DEF Request, Refused, Admitted
<1>3. CASE ~Opened /\ s.left = 0
  BY <1>1, <1>3, RefuseMaps DEF Request, Refused, Admitted
<1>4. CASE ~Opened /\ s.left # 0
  <2>1. Send(i, m, 1, s.left) /\ brk' = brk
    BY <1>4 DEF Request, Refused, Admitted
  <2>2. /\ Method' = [Method EXCEPT ![i] = m]
        /\ Sent' = [Sent EXCEPT ![i] = 1]
        /\ Told' = [Told EXCEPT ![i] = "none"]
        /\ Waiting' = [Waiting EXCEPT ![i] = TRUE]
        /\ StateOf(brk') = StateOf(brk)
    BY <2>1, SendMaps
  <2>3. Waiting[i] = FALSE
    BY <1>1 DEF Waiting
  <2> QED BY <1>4, <2>2, <2>3
          DEF Contract!Start, Method, Sent, Told, Waiting, Opened, Methods
<1> QED BY <1>2, <1>3, <1>4

(* A sleeper sends again or is answered. *)
LEMMA WakeMaps ==
    ASSUME IInv, NEW i \in Invocations, Wake(i)
    PROVE  Contract!Finish(i) \/ Contract!Resend(i)
<1>1. Busy(i) /\ One(i) /\ req[i] \in Req /\ pc[i] = "backoff"
  BY DEF IInv, TypeOK, Wake, Busy
<1>2. /\ req[i].method = "GET" /\ req[i].outcome = "none"
      /\ req[i].sent \in 1..(MaxAttempts - 1)
  BY <1>1 DEF One, AwaitInv, RetryableMethods
<1>3. CASE scope[i].left = 0
  <2>1. Answer(i, req[i].method, req[i].sent, "budget", NoHint)
    BY <1>3 DEF Wake
  <2> QED BY <1>1, <1>2, <2>1, FinishMaps
<1>4. CASE scope[i].left # 0
  <2>1. Send(i, req[i].method, req[i].sent + 1, scope[i].left) /\ brk' = brk
    BY <1>4 DEF Wake
  <2>2. /\ Method' = [Method EXCEPT ![i] = req[i].method]
        /\ Sent' = [Sent EXCEPT ![i] = req[i].sent + 1]
        /\ Told' = [Told EXCEPT ![i] = "none"]
        /\ Waiting' = [Waiting EXCEPT ![i] = TRUE]
        /\ StateOf(brk') = StateOf(brk)
    BY <2>1, SendMaps
  <2>3. Method' = Method /\ Told' = Told /\ Sent' = [Sent EXCEPT ![i] = Sent[i] + 1]
    BY <1>2, <2>2 DEF Method, Told, Sent
  <2>4. Waiting[i] = TRUE /\ Waiting' = Waiting
    <3>1. Busy(i) = TRUE
      BY <1>1
    <3> QED BY <2>2, <3>1 DEF Waiting
  <2>5. Sent[i] < Contract!Limit(Method[i])
    BY <1>2, Constants DEF Sent, Method, Contract!Limit
  <2> QED BY <2>2, <2>3, <2>4, <2>5 DEF Contract!Resend, Method, Sent, Told, Waiting
<1> QED BY <1>3, <1>4

(* Every step of an invocation is a step of the contract, or invisible. *)
LEMMA StepMaps ==
    ASSUME IInv, NEW i \in Invocations, Step(i)
    PROVE  Contract!CNext \/ UNCHANGED Contract!cvars
<1>1. CASE OpenScope(i) \/ CloseScope(i) \/ \E p \in 1..NPhases : Proceed(i, p)
  BY <1>1, StutterMaps DEF OpenScope, CloseScope, Proceed, Busy, IInv, TypeOK
<1>2. CASE \E h \in Hints \cup {NoHint} : pc[i] = "sending" /\ Sleep(i, h)
  BY <1>2, StutterMaps DEF Sleep, Busy, IInv, TypeOK
<1>3. CASE \E m \in Methods : Request(i, m)
  BY <1>3, RequestMaps DEF Contract!CNext
<1>4. CASE \E r \in Replies, h \in Hints \cup {NoHint} :
             pc[i] = "sending"
             /\ Answer(i, req[i].method, req[i].sent, PublicOutcome(i, r),
                       PublicHint(PublicOutcome(i, r), h))
  <2>1. PICK r \in Replies, h \in Hints \cup {NoHint} :
             pc[i] = "sending"
             /\ Answer(i, req[i].method, req[i].sent, PublicOutcome(i, r),
                       PublicHint(PublicOutcome(i, r), h))
    BY <1>4
  <2>2. /\ PublicOutcome(i, r) \in Replies \cup {"budget", "cancelled"}
        /\ PublicOutcome(i, r) = "budget" => req[i].method # "POST"
    BY PublicOutcomeType DEF RetryableMethods
  <2>3. Contract!Finish(i)
    BY <2>1, <2>2, FinishMaps DEF Busy
  <2> QED BY <2>3 DEF Contract!CNext
<1>5. CASE Wake(i)
  BY <1>5, WakeMaps DEF Contract!CNext
<1>6. CASE Cancel(i)
  <2>1. Contract!Finish(i)
    BY <1>6, FinishMaps DEF Cancel, Busy
  <2> QED BY <2>1 DEF Contract!CNext
<1> QED BY <1>1, <1>2, <1>3, <1>4, <1>5, <1>6, StepKinds

(* Time is invisible, but for the end of the breaker's window. *)
LEMMA TickMaps ==
    ASSUME IInv, Tick
    PROVE  Contract!HalfOpen \/ UNCHANGED Contract!cvars
<1>1. /\ brk'.state = brk.state /\ brk'.window = Less1(brk.window)
      /\ pc' = pc /\ req' = req
  BY DEF Tick, IInv, TypeOK
<1>2. \A j \in Invocations : Busy(j)' = Busy(j)
  BY <1>1 DEF Busy
<1>3. CASE StateOf(brk') = StateOf(brk)
  BY <1>1, <1>2, <1>3, StutterMaps
<1>4. CASE StateOf(brk') # StateOf(brk)
  <2>1. StateOf(brk) = "open" /\ StateOf(brk') = "half_open"
    BY <1>1, <1>4, Constants DEF StateOf, Less1, IInv, TypeOK
  <2> QED BY <1>1, <1>2, <2>1 DEF Contract!HalfOpen
<1> QED BY <1>3, <1>4

(* request() implements the contract its callers rely on: every initial state *)
(* maps to one of the contract's, every step to a step or to a stutter.       *)
THEOREM Refinement == Spec => ImplementsContract
<1>1. Init => Contract!CInit
  <2> SUFFICES ASSUME Init PROVE Contract!CInit
    OBVIOUS
  <2>1. \A i \in Invocations : Busy(i) = FALSE
    <3>1. ASSUME NEW i \in Invocations PROVE Busy(i) = FALSE
      <4>1. pc[i] = "idle"
        BY DEF Init
      <4> QED BY <4>1 DEF Busy
    <3> QED BY <3>1
  <2>2. StateOf(brk) = "closed"
    BY DEF Init, StateOf
  <2> QED BY <2>1, <2>2 DEF Init, NoReq, Contract!CInit
<1>2. IInv /\ [Next]_vars => [Contract!CNext]_Contract!cvars
  <2> SUFFICES ASSUME IInv, [Next]_vars
               PROVE  Contract!CNext \/ UNCHANGED Contract!cvars
    OBVIOUS
  <2>1. CASE Tick
    BY <2>1, TickMaps DEF Contract!CNext
  <2>2. CASE \E i \in Invocations : Step(i)
    BY <2>2, StepMaps
  <2>3. CASE UNCHANGED vars
    BY <2>3, StutterMaps DEF vars, Busy
  <2> QED BY <2>1, <2>2, <2>3 DEF Next
<1> QED BY <1>1, <1>2, Inductive, PTL DEF Spec, ImplementsContract, Contract!CSpec

=============================================================================
