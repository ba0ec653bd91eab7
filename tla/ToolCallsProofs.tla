-------------------------- MODULE ToolCallsProofs --------------------------
(***************************************************************************)
(* Proofs about ToolCalls, for every set of calls and every retry cap.     *)
(*                                                                         *)
(* The argument: until a call has been settled its method is not POST, and *)
(* only an approved, recorded decision makes it one (One).  A row belongs  *)
(* to a POST that was sent, so it has that approval behind it; and what a  *)
(* caller is told is tied to what the request's answer says of the row.    *)
(* RecordInv ties the second audit record to the first and to the answer.  *)
(***************************************************************************)
EXTENDS ToolCalls, TLAPS

Authorised(c) ==
    /\ host[c].response = [action |-> "accept", approve |-> "true"]
    /\ host[c].era # "unknown"
    /\ trail[c]["before"].approval = "approved"

\* What is true of one call in every reachable state.
One(c) ==
    /\ pc[c] \in {"idle", "eliciting"} => /\ method[c] = "GET"
                                          /\ reply[c] = "none"
    /\ pc[c] = "eliciting" => tool[c] = "write" /\ host[c].era = "handshake"
    /\ pc[c] # "done" => reply[c] = "none"
    /\ pc[c] = "requesting" <=> waiting[c] = TRUE
    /\ waiting[c] = TRUE => answer[c] = "none" /\ sent[c] > 0
    /\ pc[c] \in {"requesting", "closing"} => (tool[c] = "write" <=> method[c] = "POST")
    /\ method[c] = "POST" => tool[c] = "write" /\ Authorised(c)
    /\ landed[c] = TRUE => /\ method[c] = "POST" /\ sent[c] > 0
                           /\ reply[c] # "conflict"
    /\ method[c] = "POST" /\ answer[c] = "ok" => landed[c] = TRUE
    /\ method[c] = "POST" /\ answer[c] \in Refusals => sent[c] = 0
    /\ tool[c] = "write" /\ reply[c] \in {"result", "warned"} => method[c] = "POST" /\ answer[c] = "ok"
    /\ tool[c] = "write" /\ reply[c] \in {"pending", "forbidden", "audit_error", "host_error"}
          => method[c] = "GET"
    /\ tool[c] = "none" => pc[c] = "idle"

IInv == TTypeOK /\ \A c \in Invocations : One(c)

\* Nothing about call d changes.
Same(d) ==
    /\ waiting'[d] = waiting[d] /\ method'[d] = method[d] /\ sent'[d] = sent[d]
    /\ answer'[d] = answer[d] /\ pc'[d] = pc[d] /\ tool'[d] = tool[d]
    /\ host'[d] = host[d] /\ trail'[d] = trail[d] /\ reply'[d] = reply[d]
    /\ landed'[d] = landed[d]

(* A call that a step leaves alone keeps its invariant. *)
LEMMA SameOne == ASSUME NEW d \in Invocations, One(d), Same(d)
                 PROVE  One(d)'
BY DEF Same, One, Authorised

(* One record, in one phase, of one call. *)
LEMMA EmitStep ==
    ASSUME TTypeOK, NEW c \in Invocations, NEW phase \in Phases, NEW written \in BOOLEAN,
           NEW a \in {"none", "pending", "approved", "refused", "unavailable"},
           NEW m \in {"none", "mrtr", "elicitation", "no_handler"},
           NEW s \in {"success", "error"},
           Emit(c, phase, written, a, m, s)
    PROVE  /\ trail' \in [Invocations -> [Phases -> Records \cup {NoRecord}]]
           /\ \A d \in Invocations : d # c => trail'[d] = trail[d]
           /\ written => trail'[c][phase].approval = a
           /\ \A p \in Phases : p # phase => trail'[c][p] = trail[c][p]
<1> DEFINE r == [approval |-> a, mechanism |-> m, status |-> s]
<1>1. r \in Records
  BY DEF Records
<1>2. CASE written
  <2>1. trail' = [trail EXCEPT ![c] = [trail[c] EXCEPT ![phase] = r]]
    BY <1>2 DEF Emit
  <2>2. [trail[c] EXCEPT ![phase] = r] \in [Phases -> Records \cup {NoRecord}]
    BY <1>1 DEF TTypeOK
  <2> QED BY <2>1, <2>2 DEF TTypeOK
<1>3. CASE ~written
  BY <1>3 DEF Emit, TTypeOK
<1> QED BY <1>2, <1>3

(* The call of the client: refused with its budget or by the gate, or sent. *)
LEMMA CallClientStep ==
    ASSUME TTypeOK, NEW c \in Invocations, NEW m \in {"GET", "POST"}, CallClient(c, m)
    PROVE  /\ gate' = gate
           /\ waiting' \in [Invocations -> BOOLEAN]
           /\ method' \in [Invocations -> {"GET", "POST"}]
           /\ sent' \in [Invocations -> 0..MaxSends]
           /\ answer' \in [Invocations -> Answers \cup {"none"}]
           /\ pc' \in [Invocations -> {"idle", "eliciting", "requesting", "closing", "done"}]
           /\ method'[c] = m /\ reply' = reply /\ landed' = landed
           /\ \/ pc'[c] = "requesting" /\ waiting'[c] = TRUE /\ answer'[c] = "none" /\ sent'[c] = 1
              \/ /\ pc'[c] = "closing" /\ waiting'[c] = FALSE
                 /\ answer'[c] \in Refusals /\ sent'[c] = 0
           /\ \A d \in Invocations : d # c =>
                 /\ waiting'[d] = waiting[d] /\ method'[d] = method[d] /\ sent'[d] = sent[d]
                 /\ answer'[d] = answer[d] /\ pc'[d] = pc[d]
<1>1. CASE Start(c)
  <2>1. 1 \in 0..MaxSends
    BY ContractAssumption
  <2>2. /\ waiting' = [waiting EXCEPT ![c] = TRUE]
        /\ waiting'[c]
        /\ sent' = [sent EXCEPT ![c] = 1]
        /\ answer' = [answer EXCEPT ![c] = "none"]
        /\ gate' = gate
    BY <1>1 DEF Start, TTypeOK
  <2>3. \E k \in {"GET", "POST"} : method' = [method EXCEPT ![c] = k]
    BY <1>1 DEF Start
  <2>4. pc' = [pc EXCEPT ![c] = "requesting"]
    BY <2>2 DEF CallClient
  <2> QED BY <2>1, <2>2, <2>3, <2>4 DEF CallClient, TTypeOK
<1>2. CASE Refuse(c)
  <2>1. /\ waiting' = waiting /\ ~waiting'[c] /\ waiting[c] = FALSE
        /\ sent' = [sent EXCEPT ![c] = 0]
        /\ gate' = gate
    BY <1>2 DEF Refuse, TTypeOK
  <2>2. \E k \in {"GET", "POST"} : method' = [method EXCEPT ![c] = k]
    BY <1>2 DEF Refuse
  <2>3. \E o \in Refusals : answer' = [answer EXCEPT ![c] = o]
    BY <1>2 DEF Refuse
  <2>4. pc' = [pc EXCEPT ![c] = "closing"]
    BY <2>1 DEF CallClient
  <2>5. Refusals \subseteq Answers /\ 0 \in 0..MaxSends
    BY ContractAssumption DEF Answers
  <2> QED BY <2>1, <2>2, <2>3, <2>4, <2>5 DEF CallClient, TTypeOK
<1> QED BY <1>1, <1>2 DEF CallClient

(* Only an accepted response carrying TRUE, on a recognised era, decides for *)
(* the write.                                                                *)
LEMMA DecisionType ==
    ASSUME NEW era \in Eras, NEW r
    PROVE  /\ Decision(era, r) \in {"approved", "refused", "unavailable"}
           /\ Mechanism(era) \in {"mrtr", "elicitation", "no_handler"}
           /\ Decision(era, r) = "approved" => Approves(r) /\ era # "unknown"
BY DEF Decision, Mechanism, Eras

(* A settled answer: refused and recorded, or approved, recorded and sent. *)
LEMMA SettleStep ==
    ASSUME IInv, NEW c \in Invocations, NEW era \in Eras,
           NEW r \in Responses \cup {NoResponse},
           pc[c] \in {"idle", "eliciting"},
           tool' = [tool EXCEPT ![c] = "write"],
           host' = [host EXCEPT ![c] = [era |-> era, response |-> r]],
           Settle(c, era, r)
    PROVE  IInv'
<1>1. /\ tool' \in [Invocations -> {"none", "read", "write"}]
      /\ host' \in [Invocations -> [era : Eras, response : Responses \cup {NoResponse, NoHandler}]]
      /\ tool'[c] = "write" /\ host'[c] = [era |-> era, response |-> r]
      /\ \A d \in Invocations : d # c => tool'[d] = tool[d] /\ host'[d] = host[d]
  BY DEF IInv, TTypeOK
<1>2. /\ TTypeOK /\ One(c) /\ \A d \in Invocations : One(d)
      /\ method[c] = "GET" /\ reply[c] = "none"
  BY DEF IInv, One
<1>3. PICK written \in BOOLEAN :
        IF Decision(era, r) = "approved" THEN PerformWrite(c, era, r, written)
                                         ELSE RefuseWrite(c, era, r, written)
  BY DEF Settle
<1>4. CASE Decision(era, r) = "approved" /\ written
  <2>1. /\ Emit(c, "before", written, "approved", Mechanism(era), "success")
        /\ CallClient(c, "POST")
    BY <1>3, <1>4 DEF PerformWrite
  <2>2. /\ trail' \in [Invocations -> [Phases -> Records \cup {NoRecord}]]
        /\ \A d \in Invocations : d # c => trail'[d] = trail[d]
        /\ trail'[c]["before"].approval = "approved"
    BY <1>2, <1>4, <2>1, EmitStep, DecisionType DEF Phases
  <2>3. /\ gate' = gate
        /\ waiting' \in [Invocations -> BOOLEAN]
        /\ method' \in [Invocations -> {"GET", "POST"}]
        /\ sent' \in [Invocations -> 0..MaxSends]
        /\ answer' \in [Invocations -> Answers \cup {"none"}]
        /\ pc' \in [Invocations -> {"idle", "eliciting", "requesting", "closing", "done"}]
        /\ method'[c] = "POST" /\ reply' = reply /\ landed' = landed
        /\ \/ pc'[c] = "requesting" /\ waiting'[c] = TRUE /\ answer'[c] = "none" /\ sent'[c] = 1
           \/ /\ pc'[c] = "closing" /\ waiting'[c] = FALSE
              /\ answer'[c] \in Refusals /\ sent'[c] = 0
        /\ \A d \in Invocations : d # c =>
              /\ waiting'[d] = waiting[d] /\ method'[d] = method[d] /\ sent'[d] = sent[d]
              /\ answer'[d] = answer[d] /\ pc'[d] = pc[d]
    BY <1>2, <2>1, CallClientStep
  <2>4. TTypeOK'
    BY <1>1, <1>2, <2>2, <2>3 DEF TTypeOK
  <2>5. ASSUME NEW d \in Invocations PROVE One(d)'
    <3>1. CASE d # c
      BY <1>1, <1>2, <2>2, <2>3, <3>1, SameOne DEF Same
    <3>2. CASE d = c
      <4>1. r = [action |-> "accept", approve |-> "true"] /\ era # "unknown"
        BY <1>4, DecisionType DEF Approves, Responses, NoResponse
      <4>2. Authorised(c)'
        BY <1>1, <2>2, <4>1 DEF Authorised
      <4>3. landed[c] # TRUE
        BY <1>2 DEF One
      <4>4. answer'[c] # "ok"
        BY <2>3 DEF Refusals
      <4> QED BY <1>1, <1>2, <2>3, <3>2, <4>2, <4>3, <4>4 DEF One, Refusals
    <3> QED BY <3>1, <3>2
  <2> QED BY <2>4, <2>5 DEF IInv
<1>5. CASE ~(Decision(era, r) = "approved" /\ written)
  <2>1. \E result \in {"forbidden", "audit_error"} : End(c, result)
    BY <1>3, <1>5 DEF PerformWrite, RefuseWrite
  <2>2. PICK a \in {"approved", "refused", "unavailable"}, s \in {"success", "error"} :
          Emit(c, "before", written, a, Mechanism(era), s)
    BY <1>3, <1>5, DecisionType DEF PerformWrite, RefuseWrite
  <2>3. UNCHANGED <<cvars, landed>>
    BY <1>3, <1>5 DEF PerformWrite, RefuseWrite
  <2>4. /\ trail' \in [Invocations -> [Phases -> Records \cup {NoRecord}]]
        /\ \A d \in Invocations : d # c => trail'[d] = trail[d]
    <3>1. Mechanism(era) \in {"mrtr", "elicitation", "no_handler"}
      BY DecisionType
    <3>2. "before" \in Phases
      BY DEF Phases
    <3> QED BY <1>2, <2>2, <3>1, <3>2, EmitStep
  <2>5. /\ pc' \in [Invocations -> {"idle", "eliciting", "requesting", "closing", "done"}]
        /\ reply' \in [Invocations -> Results \cup {"none"}]
        /\ pc'[c] = "done" /\ reply'[c] \in {"forbidden", "audit_error"}
        /\ \A d \in Invocations : d # c => pc'[d] = pc[d] /\ reply'[d] = reply[d]
    BY <1>2, <2>1 DEF End, TTypeOK, Results, Problems
  <2>6. TTypeOK'
    BY <1>1, <1>2, <2>3, <2>4, <2>5 DEF TTypeOK, cvars
  <2>7. ASSUME NEW d \in Invocations PROVE One(d)'
    <3>1. CASE d # c
      BY <1>1, <1>2, <2>3, <2>4, <2>5, <3>1, SameOne DEF Same, cvars
    <3>2. CASE d = c
      BY <1>1, <1>2, <2>3, <2>5, <3>2 DEF One, cvars
    <3> QED BY <3>1, <3>2
  <2> QED BY <2>6, <2>7 DEF IInv
<1> QED BY <1>4, <1>5

(* A call ends with a result that promises nothing of a row: the callers   *)
(* below show the variables it may change.                                 *)
LEMMA EndStep ==
    ASSUME IInv, NEW c \in Invocations, NEW result \in Results,
           pc[c] # "requesting", End(c, result), UNCHANGED <<cvars, landed>>,
           tool' \in [Invocations -> {"none", "read", "write"}],
           host' \in [Invocations -> [era : Eras, response : Responses \cup {NoResponse, NoHandler}]],
           trail' \in [Invocations -> [Phases -> Records \cup {NoRecord}]],
           tool'[c] # "none",
           \A d \in Invocations : d # c => tool'[d] = tool[d] /\ host'[d] = host[d] /\ trail'[d] = trail[d],
           method[c] = "POST" => tool'[c] = "write" /\ Authorised(c)',
           tool'[c] = "write" =>
              /\ result \in {"result", "warned"} => method[c] = "POST" /\ answer[c] = "ok"
              /\ result \in {"pending", "forbidden", "audit_error", "host_error"} => method[c] = "GET"
              /\ result = "conflict" => landed[c] = FALSE
    PROVE  IInv'
<1>1. TTypeOK /\ One(c) /\ \A d \in Invocations : One(d)
  BY DEF IInv
<1>2. /\ pc' \in [Invocations -> {"idle", "eliciting", "requesting", "closing", "done"}]
      /\ reply' \in [Invocations -> Results \cup {"none"}]
      /\ pc'[c] = "done" /\ reply'[c] = result
      /\ \A d \in Invocations : d # c => pc'[d] = pc[d] /\ reply'[d] = reply[d]
  BY <1>1 DEF End, TTypeOK
<1>3. TTypeOK'
  BY <1>1, <1>2 DEF TTypeOK, cvars
<1>4. ASSUME NEW d \in Invocations PROVE One(d)'
  <2>1. CASE d # c
    BY <1>1, <1>2, <2>1, SameOne DEF Same, cvars
  <2>2. CASE d = c
    BY <1>1, <1>2, <2>2 DEF One, cvars
  <2> QED BY <2>1, <2>2
<1> QED BY <1>3, <1>4 DEF IInv

(* create_candidate's first stretch: first leg, question, or settled answer. *)
LEMMA CreateCandidateStep ==
    ASSUME IInv, NEW c \in Invocations, NEW era \in Eras,
           NEW r \in Responses \cup {NoResponse}, CreateCandidate(c, era, r)
    PROVE  IInv'
<1>1. /\ TTypeOK /\ One(c) /\ \A d \in Invocations : One(d)
      /\ pc[c] = "idle" /\ method[c] = "GET"
  BY DEF IInv, One, CreateCandidate
<1>2. /\ tool' = [tool EXCEPT ![c] = "write"]
      /\ host' = [host EXCEPT ![c] = [era |-> era, response |-> r]]
  BY DEF CreateCandidate
<1>3. /\ tool' \in [Invocations -> {"none", "read", "write"}]
      /\ host' \in [Invocations -> [era : Eras, response : Responses \cup {NoResponse, NoHandler}]]
      /\ tool'[c] = "write" /\ host'[c] = [era |-> era, response |-> r]
      /\ \A d \in Invocations : d # c => tool'[d] = tool[d] /\ host'[d] = host[d]
  BY <1>1, <1>2 DEF TTypeOK
<1>4. CASE era = "modern" /\ r = NoResponse
  <2>1. PICK written \in BOOLEAN : FirstLeg(c, written)
    BY <1>4 DEF CreateCandidate
  <2>2. Emit(c, "before", written, "pending", "mrtr", "success")
    BY <2>1 DEF FirstLeg
  <2>3. /\ trail' \in [Invocations -> [Phases -> Records \cup {NoRecord}]]
        /\ \A d \in Invocations : d # c => trail'[d] = trail[d]
    BY <1>1, <2>2, EmitStep DEF Phases
  <2>4. PICK result \in {"pending", "audit_error"} : End(c, result)
    BY <2>1 DEF FirstLeg
  <2>5. UNCHANGED <<cvars, landed>> /\ result \in Results
    BY <2>1, <2>4 DEF FirstLeg, Results
  <2> QED BY <1>1, <1>3, <2>3, <2>4, <2>5, EndStep
<1>5. CASE era = "handshake"
  <2>1. pc' = [pc EXCEPT ![c] = "eliciting"] /\ UNCHANGED <<cvars, trail, reply, landed>>
    BY <1>5 DEF CreateCandidate
  <2>2. /\ pc' \in [Invocations -> {"idle", "eliciting", "requesting", "closing", "done"}]
        /\ pc'[c] = "eliciting" /\ \A d \in Invocations : d # c => pc'[d] = pc[d]
    BY <1>1, <2>1 DEF TTypeOK
  <2>3. TTypeOK'
    BY <1>1, <1>3, <2>1, <2>2 DEF TTypeOK, cvars
  <2>4. ASSUME NEW d \in Invocations PROVE One(d)'
    <3>1. CASE d # c
      BY <1>1, <1>3, <2>1, <2>2, <3>1, SameOne DEF Same, cvars
    <3>2. CASE d = c
      BY <1>1, <1>3, <1>5, <2>1, <2>2, <3>2 DEF One, cvars
    <3> QED BY <3>1, <3>2
  <2> QED BY <2>3, <2>4 DEF IInv
<1>6. CASE ~(era = "modern" /\ r = NoResponse) /\ era # "handshake"
  <2>1. Settle(c, era, r)
    BY <1>6 DEF CreateCandidate
  <2> QED BY <1>1, <1>2, <2>1, SettleStep
<1> QED BY <1>4, <1>5, <1>6

(* The answer of ctx.elicit is settled like one that came with the call. *)
LEMMA HostAnswersStep ==
    ASSUME IInv, NEW c \in Invocations, NEW r \in Responses, HostAnswers(c, r)
    PROVE  IInv'
<1>1. TTypeOK /\ pc[c] = "eliciting" /\ tool[c] = "write" /\ host[c].era = "handshake"
  BY DEF IInv, One, HostAnswers
<1>2. tool' = [tool EXCEPT ![c] = "write"]
  BY <1>1 DEF HostAnswers, TTypeOK
<1>3. [host[c] EXCEPT !.response = r] = [era |-> "handshake", response |-> r]
  BY <1>1 DEF TTypeOK
<1>4. host' = [host EXCEPT ![c] = [era |-> "handshake", response |-> r]]
  BY <1>3 DEF HostAnswers
<1>5. Settle(c, "handshake", r) /\ "handshake" \in Eras
  BY DEF HostAnswers, Eras
<1> QED BY <1>1, <1>2, <1>4, <1>5, SettleStep

(* A question that raises ends a call that has sent nothing. *)
LEMMA ElicitRaisesStep ==
    ASSUME IInv, NEW c \in Invocations, NEW r \in Responses \cup {NoHandler}, ElicitRaises(c, r)
    PROVE  IInv'
<1>1. /\ TTypeOK /\ pc[c] = "eliciting" /\ tool[c] = "write" /\ method[c] = "GET"
  BY DEF IInv, One, ElicitRaises
<1>2. /\ End(c, "host_error") /\ "host_error" \in Results
      /\ UNCHANGED <<cvars, tool, trail, landed>>
  BY DEF ElicitRaises, Results
<1>3. [host[c] EXCEPT !.response = r] \in [era : Eras, response : Responses \cup {NoResponse, NoHandler}]
  BY <1>1 DEF TTypeOK
<1>4. /\ host' \in [Invocations -> [era : Eras, response : Responses \cup {NoResponse, NoHandler}]]
      /\ \A d \in Invocations : d # c => host'[d] = host[d]
  BY <1>1, <1>3 DEF ElicitRaises, TTypeOK
<1>5. /\ tool' \in [Invocations -> {"none", "read", "write"}] /\ tool'[c] = "write"
      /\ trail' \in [Invocations -> [Phases -> Records \cup {NoRecord}]]
  BY <1>1, <1>2 DEF TTypeOK
<1> QED BY <1>1, <1>2, <1>4, <1>5, EndStep

(* A read calls the client without a decision, and never as a POST. *)
LEMMA ReadToolStep ==
    ASSUME IInv, NEW c \in Invocations, ReadTool(c)
    PROVE  IInv'
<1>1. /\ TTypeOK /\ One(c) /\ \A d \in Invocations : One(d)
      /\ pc[c] = "idle" /\ method[c] = "GET" /\ CallClient(c, "GET")
  BY DEF IInv, One, ReadTool
<1>2. /\ tool' \in [Invocations -> {"none", "read", "write"}]
      /\ tool'[c] = "read" /\ \A d \in Invocations : d # c => tool'[d] = tool[d]
      /\ UNCHANGED <<host, trail>>
  BY <1>1 DEF ReadTool, TTypeOK
<1>3. /\ gate' = gate
      /\ waiting' \in [Invocations -> BOOLEAN]
      /\ method' \in [Invocations -> {"GET", "POST"}]
      /\ sent' \in [Invocations -> 0..MaxSends]
      /\ answer' \in [Invocations -> Answers \cup {"none"}]
      /\ pc' \in [Invocations -> {"idle", "eliciting", "requesting", "closing", "done"}]
      /\ method'[c] = "GET" /\ reply' = reply /\ landed' = landed
      /\ \/ pc'[c] = "requesting" /\ waiting'[c] = TRUE /\ answer'[c] = "none" /\ sent'[c] = 1
         \/ /\ pc'[c] = "closing" /\ waiting'[c] = FALSE
            /\ answer'[c] \in Refusals /\ sent'[c] = 0
      /\ \A d \in Invocations : d # c =>
            /\ waiting'[d] = waiting[d] /\ method'[d] = method[d] /\ sent'[d] = sent[d]
            /\ answer'[d] = answer[d] /\ pc'[d] = pc[d]
  BY <1>1, CallClientStep
<1>4. TTypeOK'
  BY <1>1, <1>2, <1>3 DEF TTypeOK
<1>5. ASSUME NEW d \in Invocations PROVE One(d)'
  <2>1. CASE d # c
    BY <1>1, <1>2, <1>3, <2>1, SameOne DEF Same
  <2>2. CASE d = c
    BY <1>1, <1>2, <1>3, <2>2 DEF One
  <2> QED BY <2>1, <2>2
<1> QED BY <1>4, <1>5 DEF IInv

(* Jobvite creates a row only for a POST that was sent. *)
LEMMA LandStep ==
    ASSUME IInv, NEW c \in Invocations, Land(c)
    PROVE  IInv'
<1>1. TTypeOK /\ \A d \in Invocations : One(d)
  BY DEF IInv
<1>2. /\ method[c] = "POST" /\ sent[c] > 0 /\ reply[c] # "conflict"
      /\ landed' = [landed EXCEPT ![c] = TRUE]
      /\ UNCHANGED <<cvars, pc, tool, host, trail, reply>>
  BY DEF Land
<1>3. /\ landed' \in [Invocations -> BOOLEAN] /\ landed'[c] = TRUE
      /\ \A d \in Invocations : d # c => landed'[d] = landed[d]
  BY <1>1, <1>2 DEF TTypeOK
<1>4. TTypeOK'
  BY <1>1, <1>2, <1>3 DEF TTypeOK, cvars
<1>5. ASSUME NEW d \in Invocations PROVE One(d)'
  <2>1. CASE d # c
    BY <1>1, <1>2, <1>3, <2>1, SameOne DEF Same, cvars
  <2>2. CASE d = c
    BY <1>1, <1>2, <1>3, <2>2 DEF One, Authorised, cvars
  <2> QED BY <2>1, <2>2
<1> QED BY <1>4, <1>5 DEF IInv

(* Only a read is sent again, within the cap. *)
LEMMA ClientResendsStep ==
    ASSUME IInv, NEW c \in Invocations, ClientResends(c)
    PROVE  IInv'
<1>1. TTypeOK /\ \A d \in Invocations : One(d)
  BY DEF IInv
<1>2. /\ waiting[c] = TRUE /\ sent[c] < Limit(method[c])
      /\ sent' = [sent EXCEPT ![c] = sent[c] + 1]
      /\ UNCHANGED <<gate, waiting, method, answer>> /\ UNCHANGED tvars
  BY <1>1 DEF ClientResends, Resend, TTypeOK
<1>3. method[c] = "GET" /\ answer[c] = "none" /\ sent[c] < MaxSends
  BY <1>1, <1>2 DEF One, Limit, TTypeOK
<1>4. /\ sent' \in [Invocations -> 0..MaxSends] /\ sent'[c] > 0
      /\ \A d \in Invocations : d # c => sent'[d] = sent[d]
  BY <1>1, <1>2, <1>3, ContractAssumption DEF TTypeOK
<1>5. TTypeOK'
  BY <1>1, <1>2, <1>4 DEF TTypeOK, tvars
<1>6. ASSUME NEW d \in Invocations PROVE One(d)'
  <2>1. CASE d # c
    BY <1>1, <1>2, <1>4, <2>1, SameOne DEF Same, tvars
  <2>2. CASE d = c
    BY <1>1, <1>2, <1>3, <1>4, <2>2 DEF One, tvars
  <2> QED BY <2>1, <2>2
<1> QED BY <1>5, <1>6 DEF IInv

(* The request ends: what Finish changes, and what its outcome may be. *)
LEMMA FinishStep ==
    ASSUME TTypeOK, NEW c \in Invocations, Finish(c)
    PROVE  /\ waiting[c] = TRUE
           /\ gate' \in {"closed", "open", "half_open"}
           /\ waiting' \in [Invocations -> BOOLEAN] /\ waiting'[c] = FALSE
           /\ answer' \in [Invocations -> Answers \cup {"none"}]
           /\ answer'[c] \in Answers \ {"breaker_open"}
           /\ method[c] = "POST" => answer'[c] # "budget"
           /\ UNCHANGED <<method, sent>>
           /\ \A d \in Invocations : d # c => waiting'[d] = waiting[d] /\ answer'[d] = answer[d]
<1>1. PICK o \in Answers \ {"breaker_open"} :
          /\ method[c] = "POST" => o # "budget"
          /\ answer' = [answer EXCEPT ![c] = o]
          /\ CASE o = "ok"        -> gate' = "closed"
               [] o \in Evidence  -> gate' \in {gate, "open"}
               [] OTHER           -> gate' = gate
  BY DEF Finish
<1>2. waiting[c] /\ waiting' = [waiting EXCEPT ![c] = FALSE] /\ UNCHANGED <<method, sent>>
  BY DEF Finish
<1>3. gate' \in {"closed", "open", "half_open"}
  BY <1>1 DEF TTypeOK
<1> QED BY <1>1, <1>2, <1>3 DEF TTypeOK

(* The answer of a POST agrees with its row. *)
LEMMA ClientAnswersStep ==
    ASSUME IInv, NEW c \in Invocations, ClientAnswers(c)
    PROVE  IInv'
<1>1. TTypeOK /\ \A d \in Invocations : One(d)
  BY DEF IInv
<1>2. /\ pc[c] = "requesting" /\ Finish(c)
      /\ method[c] = "POST" /\ answer'[c] = "ok" => landed[c]
      /\ pc' = [pc EXCEPT ![c] = "closing"]
      /\ UNCHANGED <<tool, host, trail, reply, landed>>
  BY DEF ClientAnswers
<1>3. /\ gate' \in {"closed", "open", "half_open"}
      /\ waiting' \in [Invocations -> BOOLEAN] /\ waiting'[c] = FALSE
      /\ answer' \in [Invocations -> Answers \cup {"none"}]
      /\ answer'[c] \in Answers \ {"breaker_open"}
      /\ method[c] = "POST" => answer'[c] # "budget"
      /\ UNCHANGED <<method, sent>>
      /\ \A d \in Invocations : d # c => waiting'[d] = waiting[d] /\ answer'[d] = answer[d]
  BY <1>1, <1>2, FinishStep
<1>4. /\ pc' \in [Invocations -> {"idle", "eliciting", "requesting", "closing", "done"}]
      /\ pc'[c] = "closing" /\ \A d \in Invocations : d # c => pc'[d] = pc[d]
  BY <1>1, <1>2 DEF TTypeOK
<1>5. TTypeOK'
  BY <1>1, <1>2, <1>3, <1>4 DEF TTypeOK
<1>6. ASSUME NEW d \in Invocations PROVE One(d)'
  <2>1. CASE d # c
    BY <1>1, <1>2, <1>3, <1>4, <2>1, SameOne DEF Same
  <2>2. CASE d = c
    <3>1. method[c] = "POST" => answer'[c] \notin Refusals
      BY <1>3 DEF Refusals
    <3>2. method[c] = "POST" /\ answer'[c] = "ok" => landed[c] = TRUE
      BY <1>1, <1>2 DEF TTypeOK
    <3>3. reply[c] = "none" /\ tool[c] # "none" /\ (tool[c] = "write" <=> method[c] = "POST")
      BY <1>1, <1>2 DEF One
    <3>4. landed[c] = TRUE => method[c] = "POST" /\ sent[c] > 0
      BY <1>1 DEF One
    <3>5. method[c] = "POST" => Authorised(c)
      BY <1>1 DEF One
    <3>6. method[c] = "POST" => Authorised(c)'
      BY <1>2, <3>5 DEF Authorised
    <3> QED BY <1>2, <1>3, <1>4, <2>2, <3>1, <3>2, <3>3, <3>4, <3>6 DEF One
  <2> QED BY <2>1, <2>2
<1> QED BY <1>5, <1>6 DEF IInv

(* A read is answered. *)
LEMMA AnswerReadStep ==
    ASSUME IInv, NEW c \in Invocations, AnswerRead(c)
    PROVE  IInv'
<1>1. /\ TTypeOK /\ One(c) /\ pc[c] = "closing" /\ tool[c] = "read" /\ method[c] = "GET"
  BY DEF IInv, One, AnswerRead, TTypeOK
<1>2. PICK written \in BOOLEAN, result \in {"result", ProblemOf(answer[c]), "internal"} :
          /\ Emit(c, "read", written, "none", "none", IF result = "result" THEN "success" ELSE "error")
          /\ End(c, result)
  BY DEF AnswerRead
<1>3. result \in Results
  BY DEF ProblemOf, Results, Problems
<1>4. PICK status \in {"success", "error"} : Emit(c, "read", written, "none", "none", status)
  BY <1>2
<1>5. /\ trail' \in [Invocations -> [Phases -> Records \cup {NoRecord}]]
      /\ \A d \in Invocations : d # c => trail'[d] = trail[d]
  <2>1. "read" \in Phases
    BY DEF Phases
  <2> QED BY <1>1, <1>4, <2>1, EmitStep
<1>6. /\ UNCHANGED <<cvars, tool, host, landed>>
      /\ tool' \in [Invocations -> {"none", "read", "write"}] /\ tool'[c] = "read"
      /\ host' \in [Invocations -> [era : Eras, response : Responses \cup {NoResponse, NoHandler}]]
  BY <1>1 DEF AnswerRead, TTypeOK
<1> QED BY <1>1, <1>2, <1>3, <1>5, <1>6, EndStep

(* A write is answered with what its request said. *)
LEMMA AnswerWriteStep ==
    ASSUME IInv, NEW c \in Invocations, AnswerWrite(c)
    PROVE  IInv'
<1>1. /\ TTypeOK /\ One(c) /\ pc[c] = "closing" /\ tool[c] = "write" /\ method[c] = "POST"
      /\ Authorised(c)
  BY DEF IInv, One, AnswerWrite, TTypeOK
<1> DEFINE decided == trail[c]["before"]
<1>2. PICK written \in BOOLEAN :
          /\ Emit(c, "after", written, decided.approval, decided.mechanism, StatusAfter(answer[c]))
          /\ IF answer[c] = "ok" THEN End(c, AfterSuccess(c, written))
             ELSE \E result \in {ProblemOf(answer[c]), "conflict"} :
                    /\ result = "conflict" => answer[c] = "rejected" /\ ~landed[c]
                    /\ End(c, AfterFailure(c, written, result))
  BY DEF AnswerWrite
<1>3. /\ decided.approval \in {"none", "pending", "approved", "refused", "unavailable"}
      /\ decided.mechanism \in {"none", "mrtr", "elicitation", "no_handler"}
      /\ StatusAfter(answer[c]) \in {"success", "error"}
  <2>1. trail[c]["before"] \in Records \cup {NoRecord}
    BY <1>1 DEF TTypeOK, Phases
  <2> QED BY <2>1 DEF Records, NoRecord, StatusAfter
<1>4. /\ trail' \in [Invocations -> [Phases -> Records \cup {NoRecord}]]
      /\ \A d \in Invocations : d # c => trail'[d] = trail[d]
      /\ trail'[c]["before"] = trail[c]["before"]
  <2>1. "before" \in Phases /\ "after" \in Phases /\ "before" # "after"
    BY DEF Phases
  <2> QED BY <1>1, <1>2, <1>3, <2>1, EmitStep
<1>5. PICK result \in Results :
        /\ End(c, result)
        /\ result \notin {"pending", "forbidden", "audit_error", "host_error"}
        /\ result \in {"result", "warned"} => answer[c] = "ok"
        /\ result = "conflict" => landed[c] = FALSE
  <2>1. CASE answer[c] = "ok"
    <3>1. End(c, AfterSuccess(c, written)) /\ AfterSuccess(c, written) \in {"result", "warned"}
      BY <1>2, <2>1 DEF AfterSuccess
    <3> QED BY <2>1, <3>1 DEF Results
  <2>2. CASE answer[c] # "ok"
    <3>1. PICK result \in {ProblemOf(answer[c]), "conflict"} :
            /\ result = "conflict" => ~landed[c]
            /\ End(c, result)
      BY <1>2, <2>2 DEF AfterFailure
    <3>2. ProblemOf(answer[c]) \in {"unavailable", "upstream"}
      BY DEF ProblemOf
    <3>3. landed[c] \in BOOLEAN
      BY <1>1 DEF TTypeOK
    <3> QED BY <3>1, <3>2, <3>3 DEF Results, Problems
  <2> QED BY <2>1, <2>2
<1>6. /\ UNCHANGED <<cvars, tool, host, landed>>
      /\ tool' \in [Invocations -> {"none", "read", "write"}] /\ tool'[c] = "write"
      /\ host' \in [Invocations -> [era : Eras, response : Responses \cup {NoResponse, NoHandler}]]
  BY <1>1 DEF AnswerWrite, TTypeOK
<1>7. Authorised(c)'
  BY <1>1, <1>4, <1>6 DEF Authorised
<1> HIDE DEF decided
<1> QED BY <1>1, <1>4, <1>5, <1>6, <1>7, EndStep

(* A caller that leaves is told nothing. *)
LEMMA CallerLeavesStep ==
    ASSUME IInv, NEW c \in Invocations, CallerLeaves(c)
    PROVE  IInv'
<1>1. TTypeOK /\ \A d \in Invocations : One(d)
  BY DEF IInv
<1>2. End(c, "gone") /\ UNCHANGED <<tool, host, trail, landed>> /\ "gone" \in Results
  BY DEF CallerLeaves, Results
<1>3. CASE pc[c] \in {"eliciting", "closing"} /\ UNCHANGED cvars
  <2>1. tool[c] # "none" /\ (method[c] = "POST" => tool[c] = "write" /\ Authorised(c))
    BY <1>1, <1>3 DEF One
  <2>2. method[c] = "POST" => tool'[c] = "write" /\ Authorised(c)'
    BY <1>2, <2>1 DEF Authorised
  <2>3. /\ tool' \in [Invocations -> {"none", "read", "write"}]
        /\ host' \in [Invocations -> [era : Eras, response : Responses \cup {NoResponse, NoHandler}]]
        /\ trail' \in [Invocations -> [Phases -> Records \cup {NoRecord}]]
    BY <1>1, <1>2 DEF TTypeOK
  <2> QED BY <1>2, <1>3, <2>1, <2>2, <2>3, EndStep
<1>4. CASE pc[c] = "requesting" /\ Finish(c) /\ answer'[c] = "cancelled"
  <2>1. /\ gate' \in {"closed", "open", "half_open"}
        /\ waiting' \in [Invocations -> BOOLEAN] /\ waiting'[c] = FALSE
        /\ answer' \in [Invocations -> Answers \cup {"none"}]
        /\ UNCHANGED <<method, sent>>
        /\ \A d \in Invocations : d # c => waiting'[d] = waiting[d] /\ answer'[d] = answer[d]
    BY <1>1, <1>4, FinishStep
  <2>2. /\ pc' \in [Invocations -> {"idle", "eliciting", "requesting", "closing", "done"}]
        /\ reply' \in [Invocations -> Results \cup {"none"}]
        /\ pc'[c] = "done" /\ reply'[c] = "gone"
        /\ \A d \in Invocations : d # c => pc'[d] = pc[d] /\ reply'[d] = reply[d]
    BY <1>1, <1>2 DEF End, TTypeOK
  <2>3. TTypeOK'
    BY <1>1, <1>2, <2>1, <2>2 DEF TTypeOK
  <2>4. ASSUME NEW d \in Invocations PROVE One(d)'
    <3>1. CASE d # c
      BY <1>1, <1>2, <2>1, <2>2, <3>1, SameOne DEF Same
    <3>2. CASE d = c
      <4>1. (method[c] = "POST" => Authorised(c)) => (method'[c] = "POST" => Authorised(c)')
        BY <1>2, <2>1 DEF Authorised
      <4>2. /\ method[c] = "POST" => tool[c] = "write" /\ Authorised(c)
            /\ landed[c] = TRUE => method[c] = "POST" /\ sent[c] > 0
            /\ tool[c] # "none"
        BY <1>1, <1>4 DEF One
      <4> QED BY <1>2, <1>4, <2>1, <2>2, <3>2, <4>1, <4>2 DEF One, Refusals
    <3> QED BY <3>1, <3>2
  <2> QED BY <2>3, <2>4 DEF IInv
<1> QED BY <1>3, <1>4 DEF CallerLeaves

-----------------------------------------------------------------------------

(* The initial states satisfy the invariant. *)
LEMMA Initial == TInit => IInv
<1> SUFFICES ASSUME TInit PROVE IInv
  OBVIOUS
<1>1. TTypeOK
  BY ContractAssumption DEF TInit, CInit, TTypeOK, Eras, Answers
<1>2. ASSUME NEW c \in Invocations PROVE One(c)
  BY <1>2 DEF TInit, CInit, One
<1> QED BY <1>1, <1>2 DEF IInv

(* Every step keeps the invariant. *)
LEMMA NextStep == IInv /\ [TNext]_allvars => IInv'
<1> SUFFICES ASSUME IInv, [TNext]_allvars PROVE IInv'
  OBVIOUS
<1>1. ASSUME NEW c \in Invocations, Call(c) PROVE IInv'
  BY <1>1, CreateCandidateStep, HostAnswersStep, ElicitRaisesStep, ReadToolStep, LandStep,
     ClientResendsStep, ClientAnswersStep, AnswerReadStep, AnswerWriteStep, CallerLeavesStep
  DEF Call
<1>2. CASE RecoveryPasses
  <2>1. gate' = "half_open" /\ UNCHANGED <<waiting, method, sent, answer>> /\ UNCHANGED tvars
    BY <1>2 DEF RecoveryPasses, HalfOpen
  <2>2. \A d \in Invocations : Same(d)
    BY <2>1 DEF Same, tvars
  <2>3. TTypeOK'
    BY <2>1 DEF IInv, TTypeOK, tvars
  <2> QED BY <2>2, <2>3, SameOne DEF IInv
<1>3. CASE UNCHANGED allvars
  <2>1. \A d \in Invocations : Same(d)
    BY <1>3 DEF Same, allvars, cvars, tvars
  <2>2. TTypeOK'
    BY <1>3 DEF IInv, TTypeOK, allvars, cvars, tvars
  <2> QED BY <2>1, <2>2, SameOne DEF IInv
<1> QED BY <1>1, <1>2, <1>3 DEF TNext

(* The invariant holds in every reachable state. *)
LEMMA CallsInductive == TSpec => []IInv
BY Initial, NextStep, PTL DEF TSpec

(* Every variable keeps its type, however many calls are in progress and   *)
(* whatever the retry cap.                                                 *)
THEOREM CallTypes == TSpec => []TTypeOK
<1>1. IInv => TTypeOK
  BY DEF IInv
<1> QED BY <1>1, CallsInductive, PTL

(* No row without an approving response and its record: the gate and the   *)
(* audit before the POST of create_candidate.                              *)
THEOREM RowsAuthorised == TSpec => []NoRowUnauthorised
<1>1. IInv => NoRowUnauthorised
  BY DEF IInv, TTypeOK, One, Authorised, NoRowUnauthorised
<1> QED BY <1>1, CallsInductive, PTL

(* What a caller was told about its row is, and stays, true: the branches  *)
(* of create_candidate that follow the gate, the audit and the request.    *)
THEOREM CallersToldTheTruth == TSpec => []ToldTheTruth
<1>1. ASSUME IInv, NEW c \in Invocations, tool[c] = "write"
      PROVE  /\ reply[c] \in {"result", "warned"} => landed[c]
             /\ reply[c] \in {"pending", "forbidden", "conflict", "audit_error", "host_error"}
                  => ~landed[c]
             /\ answer[c] \in Refusals => ~landed[c]
  <2>1. One(c) /\ landed[c] \in BOOLEAN
    BY <1>1 DEF IInv, TTypeOK
  <2>2. reply[c] \in {"result", "warned"} => landed[c]
    BY <1>1, <2>1 DEF One
  <2>3. reply[c] \in {"pending", "forbidden", "conflict", "audit_error", "host_error"} => ~landed[c]
    BY <1>1, <2>1 DEF One
  <2>4. answer[c] \in Refusals => ~landed[c]
    BY <1>1, <2>1 DEF One
  <2> QED BY <2>2, <2>3, <2>4
<1>2. IInv => ToldTheTruth
  BY <1>1 DEF ToldTheTruth
<1> QED BY <1>2, CallsInductive, PTL

-----------------------------------------------------------------------------
(* The second record *)

\* What the second record of call c says, once there is one, and what c was
\* told when there is none.
RecordInv(c) ==
    /\ pc[c] \in {"idle", "eliciting"} => answer[c] = "none"
    /\ pc[c] # "done" \/ tool[c] # "write" => trail[c]["after"] = NoRecord
    /\ trail[c]["after"] # NoRecord =>
          /\ method[c] = "POST" /\ reply[c] # "gone"
          /\ trail[c]["after"].approval = trail[c]["before"].approval
          /\ trail[c]["after"].mechanism = trail[c]["before"].mechanism
          /\ trail[c]["after"].status = "success" <=> answer[c] = "ok"
    /\ tool[c] = "write" /\ pc[c] = "done" /\ reply[c] # "gone" =>
          IF answer[c] = "ok" THEN reply[c] = IF trail[c]["after"] = NoRecord THEN "warned" ELSE "result"
                              ELSE reply[c] \notin {"result", "warned"}

RInv == IInv /\ \A c \in Invocations : RecordInv(c)

(* A call that a step leaves alone, its row apart, keeps its records.      *)
LEMMA SameRecord ==
    ASSUME NEW d \in Invocations, RecordInv(d),
           method'[d] = method[d], answer'[d] = answer[d], pc'[d] = pc[d], tool'[d] = tool[d],
           trail'[d] = trail[d], reply'[d] = reply[d]
    PROVE  RecordInv(d)'
BY DEF RecordInv

(* A call that has nothing in its second record and does not get an answer *)
(* of Jobvite in this step keeps its records.                              *)
LEMMA NoSecondRecord ==
    ASSUME NEW c \in Invocations,
           trail'[c]["after"] = NoRecord,
           pc'[c] \in {"idle", "eliciting"} => answer'[c] = "none",
           tool'[c] = "write" /\ pc'[c] = "done" /\ reply'[c] # "gone" =>
               answer'[c] # "ok" /\ reply'[c] \notin {"result", "warned"}
    PROVE  RecordInv(c)'
BY DEF RecordInv

(* Emitting in another phase leaves the second record as it is.            *)
LEMMA EmitElsewhere ==
    ASSUME TTypeOK, NEW c \in Invocations, NEW phase \in Phases \ {"after"}, NEW written \in BOOLEAN,
           NEW a, NEW m, NEW s, Emit(c, phase, written, a, m, s)
    PROVE  /\ trail'[c]["after"] = trail[c]["after"]
           /\ \A d \in Invocations : d # c => trail'[d] = trail[d]
BY DEF Emit, TTypeOK, Phases

(* A settled answer writes no second record. *)
LEMMA SettleRecord ==
    ASSUME RInv, NEW c \in Invocations, NEW era \in Eras, NEW r,
           pc[c] \in {"idle", "eliciting"}, Settle(c, era, r),
           \A d \in Invocations : d # c => tool'[d] = tool[d]
    PROVE  \A d \in Invocations : RecordInv(d)'
<1>1. TTypeOK /\ (\A d \in Invocations : RecordInv(d)) /\ trail[c]["after"] = NoRecord /\ answer[c] = "none"
  BY DEF RInv, IInv, RecordInv
<1>2. PICK written \in BOOLEAN :
        IF Decision(era, r) = "approved" THEN PerformWrite(c, era, r, written)
                                         ELSE RefuseWrite(c, era, r, written)
  BY DEF Settle
<1>3. \E a, s : Emit(c, "before", written, a, Mechanism(era), s)
  BY <1>2 DEF PerformWrite, RefuseWrite
<1>4. /\ trail'[c]["after"] = NoRecord
      /\ \A d \in Invocations : d # c => trail'[d] = trail[d]
  BY <1>1, <1>3, EmitElsewhere DEF Phases
<1>5. CASE CallClient(c, "POST")
  <2>1. /\ pc'[c] \in {"requesting", "closing"} /\ reply' = reply
        /\ \A d \in Invocations : d # c =>
              method'[d] = method[d] /\ answer'[d] = answer[d] /\ pc'[d] = pc[d]
    BY <1>1, <1>5, CallClientStep
  <2>2. RecordInv(c)'
    BY <1>4, <2>1, NoSecondRecord
  <2> QED BY <1>1, <1>4, <2>1, <2>2, SameRecord
<1>6. CASE \E result \in {"audit_error", "forbidden"} : End(c, result) /\ UNCHANGED cvars
  <2>1. /\ pc'[c] = "done" /\ reply'[c] \in {"audit_error", "forbidden"}
        /\ \A d \in Invocations : d # c => pc'[d] = pc[d] /\ reply'[d] = reply[d]
        /\ method' = method /\ answer' = answer
    BY <1>1, <1>6 DEF End, TTypeOK, cvars
  <2>2. RecordInv(c)'
    BY <1>1, <1>4, <2>1, NoSecondRecord
  <2> QED BY <1>1, <1>4, <2>1, <2>2, SameRecord
<1> QED BY <1>2, <1>5, <1>6 DEF PerformWrite, RefuseWrite

LEMMA CreateCandidateRecord ==
    ASSUME RInv, NEW c \in Invocations, NEW era \in Eras, NEW r, CreateCandidate(c, era, r)
    PROVE  \A d \in Invocations : RecordInv(d)'
<1>1. /\ TTypeOK /\ (\A d \in Invocations : RecordInv(d))
      /\ pc[c] = "idle" /\ trail[c]["after"] = NoRecord /\ answer[c] = "none"
      /\ \A d \in Invocations : d # c => tool'[d] = tool[d]
  BY DEF RInv, IInv, TTypeOK, RecordInv, CreateCandidate
<1>2. CASE era = "modern" /\ r = NoResponse
  <2>1. PICK written \in BOOLEAN : FirstLeg(c, written)
    BY <1>2 DEF CreateCandidate
  <2>2. /\ trail'[c]["after"] = NoRecord
        /\ \A d \in Invocations : d # c => trail'[d] = trail[d]
    BY <1>1, <2>1, EmitElsewhere DEF FirstLeg, Phases
  <2>3. /\ pc'[c] = "done" /\ reply'[c] \in {"audit_error", "pending"}
        /\ \A d \in Invocations : d # c => pc'[d] = pc[d] /\ reply'[d] = reply[d]
        /\ method' = method /\ answer' = answer
    BY <1>1, <2>1 DEF FirstLeg, End, TTypeOK, cvars
  <2>4. RecordInv(c)'
    BY <1>1, <2>2, <2>3, NoSecondRecord
  <2> QED BY <1>1, <2>2, <2>3, <2>4, SameRecord
<1>3. CASE era = "handshake"
  <2>1. /\ pc' = [pc EXCEPT ![c] = "eliciting"]
        /\ method' = method /\ answer' = answer /\ trail' = trail /\ reply' = reply
    BY <1>3 DEF CreateCandidate, cvars
  <2>2. pc'[c] = "eliciting" /\ \A d \in Invocations : d # c => pc'[d] = pc[d]
    BY <1>1, <2>1 DEF TTypeOK
  <2>3. RecordInv(c)'
    BY <1>1, <2>1, <2>2, NoSecondRecord
  <2> QED BY <1>1, <2>1, <2>2, <2>3, SameRecord
<1>4. CASE ~(era = "modern" /\ r = NoResponse) /\ era # "handshake"
  <2>1. Settle(c, era, r)
    BY <1>4 DEF CreateCandidate
  <2> QED BY <1>1, <2>1, SettleRecord
<1> QED BY <1>2, <1>3, <1>4

(* The second record is written from the first and from the answer.        *)
LEMMA AnswerWriteRecord ==
    ASSUME RInv, NEW c \in Invocations, AnswerWrite(c)
    PROVE  \A d \in Invocations : RecordInv(d)'
<1>1. /\ TTypeOK /\ (\A d \in Invocations : RecordInv(d))
      /\ pc[c] = "closing" /\ tool[c] = "write" /\ trail[c]["after"] = NoRecord
      /\ UNCHANGED <<cvars, tool, host, landed>>
  BY DEF RInv, IInv, RecordInv, AnswerWrite
<1>2. method[c] = "POST"
  BY <1>1 DEF RInv, IInv, One
<1> DEFINE decided == trail[c]["before"]
           second == [approval |-> decided.approval, mechanism |-> decided.mechanism,
                      status |-> StatusAfter(answer[c])]
<1>3. PICK written \in BOOLEAN :
          /\ Emit(c, "after", written, decided.approval, decided.mechanism, StatusAfter(answer[c]))
          /\ IF answer[c] = "ok" THEN End(c, AfterSuccess(c, written))
             ELSE \E result \in {ProblemOf(answer[c]), "conflict"} :
                    /\ result = "conflict" => answer[c] = "rejected" /\ ~landed[c]
                    /\ End(c, AfterFailure(c, written, result))
  BY DEF AnswerWrite
<1>4. /\ \A d \in Invocations : d # c => trail'[d] = trail[d]
      /\ trail'[c]["before"] = trail[c]["before"]
      /\ trail'[c]["after"] = IF written THEN second ELSE NoRecord
  BY <1>1, <1>3 DEF Emit, TTypeOK, Phases
<1>5. /\ pc'[c] = "done"
      /\ \A d \in Invocations : d # c => pc'[d] = pc[d] /\ reply'[d] = reply[d]
      /\ IF answer[c] = "ok" THEN reply'[c] = IF written THEN "result" ELSE "warned"
                             ELSE reply'[c] \in {"unavailable", "upstream", "conflict"}
  BY <1>1, <1>3 DEF End, AfterSuccess, AfterFailure, ProblemOf, TTypeOK
<1>6. second # NoRecord
  BY DEF NoRecord, StatusAfter
<1>7. second.status = "success" <=> answer[c] = "ok"
  BY DEF StatusAfter
<1>8. RecordInv(c)'
  <2>1. method' = method /\ answer' = answer /\ tool' = tool
    BY <1>1 DEF cvars
  <2>2. CASE written
    <3>1. /\ trail'[c]["after"] = second
          /\ second.approval = trail'[c]["before"].approval
          /\ second.mechanism = trail'[c]["before"].mechanism
      BY <1>4, <2>2
    <3> HIDE DEF second
    <3> QED BY <1>1, <1>2, <1>5, <1>6, <1>7, <2>1, <2>2, <3>1 DEF RecordInv
  <2>3. CASE ~written
    BY <1>1, <1>4, <1>5, <2>1, <2>3 DEF RecordInv
  <2> QED BY <2>2, <2>3
<1>9. ASSUME NEW d \in Invocations, d # c PROVE RecordInv(d)'
  BY <1>1, <1>4, <1>5, <1>9, SameRecord DEF cvars
<1> QED BY <1>8, <1>9

(* Every other step: no second record, and no answer that would need one.  *)
LEMMA OtherRecords ==
    ASSUME RInv, NEW c \in Invocations,
           \/ \E r \in Responses \cup {NoHandler} : ElicitRaises(c, r)
           \/ ReadTool(c) \/ Land(c) \/ ClientResends(c) \/ ClientAnswers(c)
           \/ AnswerRead(c) \/ CallerLeaves(c)
    PROVE  \A d \in Invocations : RecordInv(d)'
<1>1. TTypeOK /\ (\A d \in Invocations : One(d) /\ RecordInv(d))
  BY DEF RInv, IInv
<1>2. ASSUME NEW r, ElicitRaises(c, r)
      PROVE  \A d \in Invocations : RecordInv(d)'
  <2>1. /\ pc[c] = "eliciting" /\ trail[c]["after"] = NoRecord /\ answer[c] = "none"
        /\ pc'[c] = "done" /\ reply'[c] = "host_error"
        /\ \A d \in Invocations : d # c => pc'[d] = pc[d] /\ reply'[d] = reply[d]
        /\ method' = method /\ answer' = answer /\ tool' = tool /\ trail' = trail
    BY <1>1, <1>2 DEF ElicitRaises, End, TTypeOK, RecordInv, cvars
  <2>2. RecordInv(c)'
    BY <2>1, NoSecondRecord
  <2> QED BY <1>1, <2>1, <2>2, SameRecord
<1>3. CASE ReadTool(c)
  <2>1. /\ pc[c] = "idle" /\ trail[c]["after"] = NoRecord /\ trail' = trail
        /\ \A d \in Invocations : d # c => tool'[d] = tool[d]
        /\ CallClient(c, "GET")
    BY <1>1, <1>3 DEF ReadTool, TTypeOK, RecordInv
  <2>2. /\ pc'[c] \in {"requesting", "closing"} /\ reply' = reply
        /\ \A d \in Invocations : d # c =>
              method'[d] = method[d] /\ answer'[d] = answer[d] /\ pc'[d] = pc[d]
    BY <1>1, <2>1, CallClientStep
  <2>3. RecordInv(c)'
    BY <2>1, <2>2, NoSecondRecord
  <2> QED BY <1>1, <2>1, <2>2, <2>3, SameRecord
<1>4. CASE Land(c) \/ ClientResends(c)
  <2>1. UNCHANGED <<method, answer, pc, tool, trail, reply>>
    BY <1>4 DEF Land, ClientResends, Resend, cvars, tvars
  <2> QED BY <1>1, <2>1, SameRecord
<1>5. CASE ClientAnswers(c)
  <2>1. /\ pc[c] = "requesting" /\ trail[c]["after"] = NoRecord /\ Finish(c)
        /\ pc'[c] = "closing" /\ \A d \in Invocations : d # c => pc'[d] = pc[d]
        /\ tool' = tool /\ trail' = trail /\ reply' = reply
    BY <1>1, <1>5 DEF ClientAnswers, TTypeOK, RecordInv
  <2>2. method' = method /\ \A d \in Invocations : d # c => answer'[d] = answer[d]
    BY <1>1, <2>1, FinishStep
  <2>3. RecordInv(c)'
    BY <2>1, NoSecondRecord
  <2> QED BY <1>1, <2>1, <2>2, <2>3, SameRecord
<1>6. CASE AnswerRead(c)
  <2>1. /\ pc[c] = "closing" /\ tool[c] = "read" /\ trail[c]["after"] = NoRecord
        /\ method' = method /\ answer' = answer /\ tool' = tool
    BY <1>1, <1>6 DEF AnswerRead, RecordInv, cvars
  <2>2. PICK written \in BOOLEAN, result \in {"result", ProblemOf(answer[c]), "internal"} :
          /\ Emit(c, "read", written, "none", "none", IF result = "result" THEN "success" ELSE "error")
          /\ End(c, result)
    BY <1>6 DEF AnswerRead
  <2>3. /\ trail'[c]["after"] = NoRecord
        /\ \A d \in Invocations : d # c => trail'[d] = trail[d]
    BY <1>1, <2>1, <2>2, EmitElsewhere DEF Phases
  <2>4. /\ pc'[c] = "done" /\ \A d \in Invocations : d # c => pc'[d] = pc[d] /\ reply'[d] = reply[d]
    BY <1>1, <2>2 DEF End, TTypeOK
  <2>5. RecordInv(c)'
    BY <2>1, <2>3, <2>4, NoSecondRecord
  <2> QED BY <1>1, <2>1, <2>3, <2>4, <2>5, SameRecord
<1>7. CASE CallerLeaves(c)
  <2>1. /\ pc[c] \in {"eliciting", "closing", "requesting"} /\ trail[c]["after"] = NoRecord
        /\ pc'[c] = "done" /\ reply'[c] = "gone"
        /\ \A d \in Invocations : d # c => pc'[d] = pc[d] /\ reply'[d] = reply[d]
        /\ tool' = tool /\ trail' = trail
    BY <1>1, <1>7 DEF CallerLeaves, End, TTypeOK, RecordInv
  <2>2. method' = method /\ \A d \in Invocations : d # c => answer'[d] = answer[d]
    BY <1>1, <1>7, FinishStep DEF CallerLeaves, cvars
  <2>3. RecordInv(c)'
    BY <2>1, NoSecondRecord
  <2> QED BY <1>1, <2>1, <2>2, <2>3, SameRecord
<1> QED BY <1>2, <1>3, <1>4, <1>5, <1>6, <1>7

LEMMA RecordsInductive == TSpec => []RInv
<1>1. TInit => RInv
  <2> SUFFICES ASSUME TInit, NEW c \in Invocations PROVE RecordInv(c)
    BY Initial DEF RInv
  <2> QED BY DEF TInit, CInit, RecordInv, Phases
<1>2. RInv /\ [TNext]_allvars => RInv'
  <2> SUFFICES ASSUME RInv, [TNext]_allvars PROVE \A d \in Invocations : RecordInv(d)'
    BY NextStep DEF RInv
  <2>1. ASSUME NEW c \in Invocations, NEW r \in Responses, HostAnswers(c, r)
        PROVE  \A d \in Invocations : RecordInv(d)'
    BY <2>1, SettleRecord DEF HostAnswers, Eras
  <2>2. ASSUME NEW c \in Invocations, Call(c)
        PROVE  \A d \in Invocations : RecordInv(d)'
    BY <2>1, <2>2, CreateCandidateRecord, AnswerWriteRecord, OtherRecords DEF Call
  <2>3. CASE RecoveryPasses \/ UNCHANGED allvars
    <3>1. UNCHANGED <<method, answer, pc, tool, trail, reply>>
      BY <2>3 DEF RecoveryPasses, HalfOpen, allvars, cvars, tvars
    <3> QED BY <3>1, SameRecord DEF RInv
  <2> QED BY <2>2, <2>3 DEF TNext
<1> QED BY <1>1, <1>2, PTL DEF TSpec

(* A write Jobvite accepted is not reported as a failure, whatever the     *)
(* audit sink does after it; the warning stands for a missing record.      *)
THEOREM SuccessKept == TSpec => []SuccessStaysSuccess
<1>1. ASSUME RInv, NEW c \in Invocations, tool[c] = "write", pc[c] = "done"
      PROVE  /\ answer[c] = "ok" => reply[c] \in {"result", "warned", "gone"}
             /\ reply[c] = "warned" <=> answer[c] = "ok" /\ reply[c] # "gone"
                                        /\ trail[c]["after"] = NoRecord
  BY <1>1 DEF RInv, RecordInv
<1>2. RInv => SuccessStaysSuccess
  BY <1>1 DEF SuccessStaysSuccess
<1> QED BY <1>2, RecordsInductive, PTL

(* The two records of a write agree with each other, with the row and with *)
(* the answer.                                                             *)
THEOREM RecordsAgree == TSpec => []TrailConsistent
<1>1. ASSUME RInv, NEW c \in Invocations
      PROVE  /\ trail[c]["after"] # NoRecord =>
                   /\ trail[c]["before"].approval = "approved"
                   /\ trail[c]["after"].approval = trail[c]["before"].approval
                   /\ trail[c]["after"].mechanism = trail[c]["before"].mechanism
                   /\ trail[c]["after"].status = "success" => landed[c]
             /\ tool[c] = "write" /\ reply[c] = "result" =>
                   /\ trail[c]["before"].approval = "approved"
                   /\ trail[c]["after"].status = "success"
  <2>1. One(c) /\ RecordInv(c)
    BY <1>1 DEF RInv, IInv
  <2>2. method[c] = "POST" => trail[c]["before"].approval = "approved"
    BY <2>1 DEF One, Authorised
  <2>3. method[c] = "POST" /\ answer[c] = "ok" => landed[c]
    BY <2>1 DEF One
  <2>4. tool[c] = "write" /\ reply[c] = "result" =>
           method[c] = "POST" /\ answer[c] = "ok" /\ pc[c] = "done"
    BY <2>1 DEF One
  <2> QED BY <2>1, <2>2, <2>3, <2>4 DEF RecordInv
<1>2. RInv => TrailConsistent
  BY <1>1 DEF TrailConsistent
<1> QED BY <1>2, RecordsInductive, PTL

=============================================================================
