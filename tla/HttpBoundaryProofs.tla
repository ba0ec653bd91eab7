------------------------- MODULE HttpBoundaryProofs -------------------------
(***************************************************************************)
(* Proofs about HttpBoundary, for every number of workers, every limit and *)
(* every set of body sizes.                                                *)
(*                                                                         *)
(* Three facts hold of a worker: what it has counted is what the           *)
(* application was given and no more than the request has (BodyInv); the   *)
(* variable is unbound outside on_request and the event's id under a tool  *)
(* (IdInv); and an id we minted is nobody else's while it is bound         *)
(* (FreshInv), the only one that speaks of two workers.                    *)
(***************************************************************************)
EXTENDS HttpBoundary, TLAPS

Oversize(w) ==
    req[w].size > Limit \/ (req[w].declared # NoLength /\ req[w].declared > Limit)

Bound(w) == pc[w] \in {"handling", "tool"}

Answered(w) == outcome[w] \in {"served", "refused"}

BodyInv(w) ==
    /\ body[w].given <= Limit
    /\ body[w].seen <= req[w].size
    /\ pc[w] # "idle" => body[w].given = body[w].seen /\ outcome[w] = "none"
    /\ Bound(w) => body[w].seen = req[w].size
    /\ outcome[w] = "served" => req[w].size <= Limit
    /\ outcome[w] \in {"refused", "dropped"} => Oversize(w)

IdInv(w) ==
    /\ ~Bound(w) => tokens[w] = <<>> /\ var[w] = NoId
    /\ Bound(w) => tokens[w] # <<>> /\ Head(tokens[w]) = NoId /\ var[w] # NoId
    /\ pc[w] # "idle" => outcome[w] = "none"
    /\ pc[w] \in {"reading", "handling"} => lines[w] = {}
    /\ pc[w] = "tool" => event[w] = var[w] /\ lines[w] \subseteq {var[w]}
    /\ outcome[w] = "served" => lines[w] \subseteq {answer[w]}
    /\ req[w].inbound \in CallerIds =>
          /\ lines[w] \subseteq {req[w].inbound}
          /\ Bound(w) => var[w] = req[w].inbound
          /\ Answered(w) => answer[w] = req[w].inbound

FreshInv(w) ==
    Bound(w) /\ req[w].inbound \notin CallerIds =>
        /\ var[w] \in Minted
        /\ \A v \in Workers : var[w] # answer[v] /\ (v # w => var[w] # var[v])

HInv == HTypeOK /\ \A w \in Workers : BodyInv(w) /\ IdInv(w) /\ FreshInv(w)

\* Nothing about worker v changes.
Same(v) ==
    /\ pc'[v] = pc[v] /\ req'[v] = req[v] /\ body'[v] = body[v]
    /\ outcome'[v] = outcome[v] /\ var'[v] = var[v] /\ tokens'[v] = tokens[v]
    /\ event'[v] = event[v] /\ lines'[v] = lines[v] /\ answer'[v] = answer[v]

-----------------------------------------------------------------------------
(* Lemmas *)

(* A worker that a step leaves alone keeps what is true of it alone. *)
LEMMA SameWorker ==
    ASSUME NEW v \in Workers, BodyInv(v), IdInv(v), Same(v)
    PROVE  BodyInv(v)' /\ IdInv(v)'
BY DEF Same, BodyInv, IdInv, Bound, Answered, Oversize

(* What a resolved id is: the caller's, the bound one, or nobody's yet. *)
LEMMA Resolved ==
    ASSUME HTypeOK, NEW inbound \in CallerIds \cup {NoId}, NEW bound \in RequestIds \cup {NoId},
           NEW id \in Resolve(inbound, bound)
    PROVE  /\ id \in RequestIds /\ id # NoId
           /\ inbound \in CallerIds => id = inbound
           /\ inbound \notin CallerIds /\ bound # NoId => id = bound
           /\ inbound \notin CallerIds /\ bound = NoId =>
                 id \in Minted /\ \A v \in Workers : id # answer[v] /\ id # var[v]
BY BoundaryAssumption DEF Resolve, Unused, RequestIds, HTypeOK

(* An id stays its holder's own when a step of another worker binds or     *)
(* answers with an id that is a caller's, unbound, or new.                 *)
LEMMA OthersStayFresh ==
    ASSUME HTypeOK, NEW w \in Workers, NEW v \in Workers, v # w, FreshInv(v),
           Same(v), \A u \in Workers \ {w} : Same(u),
           var'[w] \in CallerIds \cup {NoId, var[w]} \/ var'[w] # var[v],
           answer'[w] \in CallerIds \cup {NoId, answer[w]} \/ answer'[w] # var[v]
    PROVE  FreshInv(v)'
<1> SUFFICES ASSUME Bound(v)', req'[v].inbound \notin CallerIds
             PROVE  /\ var'[v] \in Minted
                    /\ \A u \in Workers : var'[v] # answer'[u] /\ (u # v => var'[v] # var'[u])
  BY DEF FreshInv
<1>1. /\ var[v] \in Minted /\ var'[v] = var[v]
      /\ \A u \in Workers : var[v] # answer[u] /\ (u # v => var[v] # var[u])
  BY DEF FreshInv, Same, Bound
<1>2. var[v] # NoId /\ var[v] \notin CallerIds
  BY <1>1, BoundaryAssumption
<1>3. var[v] # answer'[w] /\ var[v] # var'[w]
  BY <1>1, <1>2
<1>4. ASSUME NEW u \in Workers \ {w}
      PROVE  var[v] # answer'[u] /\ (u # v => var[v] # var'[u])
  BY <1>1, <1>4 DEF Same
<1> QED BY <1>1, <1>3, <1>4

(* A step of one worker keeps the invariant when it keeps that worker's    *)
(* part, leaves the others alone, and takes no other worker's id.          *)
LEMMA OneWorkerStep ==
    ASSUME HInv, NEW w \in Workers,
           HTypeOK', BodyInv(w)', IdInv(w)', FreshInv(w)',
           \A v \in Workers \ {w} : Same(v),
           \A v \in Workers \ {w} :
              /\ var'[w] \in CallerIds \cup {NoId, var[w]} \/ var'[w] # var[v]
              /\ answer'[w] \in CallerIds \cup {NoId, answer[w]} \/ answer'[w] # var[v]
    PROVE  HInv'
<1>1. ASSUME NEW v \in Workers, v # w
      PROVE  BodyInv(v)' /\ IdInv(v)' /\ FreshInv(v)'
  <2>1. BodyInv(v) /\ IdInv(v) /\ FreshInv(v) /\ Same(v) /\ HTypeOK
    BY <1>1 DEF HInv
  <2> QED BY <1>1, <2>1, SameWorker, OthersStayFresh
<1> QED BY <1>1 DEF HInv

(* A refusal: the record of the types and the id on it. *)
LEMMA RefuseStep ==
    ASSUME HTypeOK, NEW w \in Workers, NEW inbound \in CallerIds \cup {NoId}, var[w] = NoId,
           Refuse(w, inbound, 0)
    PROVE  /\ pc' = [pc EXCEPT ![w] = "idle"]
           /\ outcome' = [outcome EXCEPT ![w] = "refused"]
           /\ event' = [event EXCEPT ![w] = NoId]
           /\ starts' = [starts EXCEPT ![w] = 1]
           /\ \E id \in RequestIds :
                 /\ answer' = [answer EXCEPT ![w] = id]
                 /\ inbound \in CallerIds => id = inbound
                 /\ inbound \notin CallerIds =>
                       id \in Minted /\ \A v \in Workers : id # answer[v] /\ id # var[v]
<1>1. PICK id \in Resolve(inbound, var[w]) : answer' = [answer EXCEPT ![w] = id]
  BY DEF Refuse
<1>2. var[w] \in RequestIds \cup {NoId}
  BY DEF HTypeOK
<1>3. /\ id \in RequestIds
      /\ inbound \in CallerIds => id = inbound
      /\ inbound \notin CallerIds =>
            id \in Minted /\ \A v \in Workers : id # answer[v] /\ id # var[v]
  BY <1>2, Resolved
<1>4. /\ pc' = [pc EXCEPT ![w] = "idle"] /\ outcome' = [outcome EXCEPT ![w] = "refused"]
      /\ event' = [event EXCEPT ![w] = NoId] /\ starts' = [starts EXCEPT ![w] = 1]
  BY DEF Refuse, End
<1> QED BY <1>1, <1>3, <1>4

-----------------------------------------------------------------------------
(* One lemma per action *)

LEMMA ArriveStep ==
    ASSUME HInv, NEW w \in Workers, NEW h \in Headers, Arrive(w, h)
    PROVE  HInv'
<1>1. /\ pc[w] = "idle" /\ var[w] = NoId /\ tokens[w] = <<>> /\ var' = var /\ tokens' = tokens
      /\ req' = [req EXCEPT ![w] = h] /\ lines' = [lines EXCEPT ![w] = {}]
      /\ body' = [body EXCEPT ![w] = [seen |-> 0, given |-> 0]]
  BY DEF Arrive, HInv, IdInv, Bound
<1>2. /\ h.inbound \in CallerIds \cup {NoId} /\ h.size \in Sizes /\ h.size \in Nat
      /\ Limit \in Nat
  BY BoundaryAssumption DEF Headers
<1>3. HTypeOK
  BY DEF HInv
<1>4. CASE h.declared # NoLength /\ h.declared > Limit
  <2>1. Refuse(w, h.inbound, 0)
    BY <1>4 DEF Arrive
  <2>2. PICK id \in RequestIds :
           /\ answer' = [answer EXCEPT ![w] = id]
           /\ h.inbound \in CallerIds => id = h.inbound
           /\ h.inbound \notin CallerIds =>
                 id \in Minted /\ \A v \in Workers : id # answer[v] /\ id # var[v]
    BY <2>1, <1>1, <1>2, <1>3, RefuseStep
  <2>3. /\ pc' = [pc EXCEPT ![w] = "idle"] /\ outcome' = [outcome EXCEPT ![w] = "refused"]
        /\ event' = [event EXCEPT ![w] = NoId] /\ starts' = [starts EXCEPT ![w] = 1]
    BY <2>1, <1>1, <1>2, <1>3, RefuseStep
  <2>4. HTypeOK'
    BY <1>1, <1>2, <1>3, <2>2, <2>3 DEF HTypeOK
  <2>5. BodyInv(w)'
    BY <1>1, <1>2, <1>3, <1>4, <2>3 DEF HTypeOK, BodyInv, Bound, Oversize
  <2>6. IdInv(w)'
    BY <1>1, <1>2, <1>3, <2>2, <2>3 DEF HTypeOK, IdInv, Bound, Answered
  <2>7. FreshInv(w)'
    BY <1>3, <2>3 DEF HTypeOK, FreshInv, Bound
  <2>8. \A v \in Workers \ {w} : Same(v)
    BY <1>1, <1>3, <2>2, <2>3 DEF HTypeOK, Same
  <2>9. \A v \in Workers :
           /\ var'[w] \in CallerIds \cup {NoId, var[w]}
           /\ answer'[w] \in CallerIds \cup {NoId, answer[w]} \/ answer'[w] # var[v]
    BY <1>1, <1>2, <1>3, <2>2 DEF HTypeOK
  <2> QED BY <2>4, <2>5, <2>6, <2>7, <2>8, <2>9, OneWorkerStep
<1>5. CASE ~(h.declared # NoLength /\ h.declared > Limit)
  <2>1. /\ pc' = [pc EXCEPT ![w] = "reading"] /\ outcome' = [outcome EXCEPT ![w] = "none"]
        /\ starts' = [starts EXCEPT ![w] = 0] /\ event' = event /\ answer' = answer
    BY <1>5 DEF Arrive
  <2>2. HTypeOK'
    BY <1>1, <1>2, <1>3, <2>1 DEF HTypeOK
  <2>3. BodyInv(w)'
    BY <1>1, <1>2, <1>3, <2>1 DEF HTypeOK, BodyInv, Bound
  <2>4. IdInv(w)'
    BY <1>1, <1>3, <2>1 DEF HTypeOK, IdInv, Bound, Answered
  <2>5. FreshInv(w)'
    BY <1>3, <2>1 DEF HTypeOK, FreshInv, Bound
  <2>6. \A v \in Workers \ {w} : Same(v)
    BY <1>1, <1>3, <2>1 DEF HTypeOK, Same
  <2> QED BY <1>1, <2>1, <2>2, <2>3, <2>4, <2>5, <2>6, OneWorkerStep
<1> QED BY <1>4, <1>5

LEMMA ReceiveStep ==
    ASSUME HInv, NEW w \in Workers, NEW n \in Sizes \ {0}, Receive(w, n)
    PROVE  HInv'
<1> DEFINE seen == body[w].seen + n
<1>1. /\ pc[w] = "reading" /\ var[w] = NoId /\ tokens[w] = <<>> /\ seen <= req[w].size
      /\ outcome[w] = "none" /\ lines[w] = {}
      /\ req' = req /\ var' = var /\ tokens' = tokens /\ lines' = lines
  BY DEF Receive, HInv, IdInv, Bound
<1>2. HTypeOK /\ BodyInv(w) /\ IdInv(w) /\ Limit \in Nat /\ n \in Nat /\ seen \in Nat
  BY BoundaryAssumption DEF HInv, HTypeOK
<1>3. req[w].inbound \in CallerIds \cup {NoId} /\ req[w].size \in Nat
  <2>1. req[w] \in Headers \cup {NoRequest}
    BY <1>2 DEF HTypeOK
  <2>2. CASE req[w] \in Headers
    BY <2>2, BoundaryAssumption DEF Headers
  <2>3. CASE req[w] = NoRequest
    BY <2>3 DEF NoRequest
  <2> QED BY <2>1, <2>2, <2>3
<1>4. CASE seen <= Limit
  <2>1. /\ body' = [body EXCEPT ![w] = [seen |-> seen, given |-> seen]]
        /\ pc' = pc /\ starts' = starts /\ outcome' = outcome /\ event' = event /\ answer' = answer
    <3>1. ~Trips(w, seen)
      BY <1>2, <1>4 DEF Trips
    <3>2. body' = [body EXCEPT ![w] = [seen |-> seen,
                                       given |-> IF Trips(w, seen) THEN body[w].given ELSE seen]]
      BY <1>2 DEF Receive, HTypeOK
    <3> QED BY <3>1, <3>2 DEF Receive
  <2>2. HTypeOK'
    BY <1>1, <1>2, <2>1 DEF HTypeOK
  <2>3. BodyInv(w)'
    BY <1>1, <1>2, <1>4, <2>1 DEF HTypeOK, BodyInv, Bound
  <2>4. IdInv(w)' /\ FreshInv(w)'
    BY <1>1, <1>2, <2>1 DEF IdInv, FreshInv, Bound, Answered
  <2>5. \A v \in Workers \ {w} : Same(v)
    BY <1>1, <1>2, <2>1 DEF HTypeOK, Same
  <2> QED BY <1>1, <2>1, <2>2, <2>3, <2>4, <2>5, OneWorkerStep
<1>5. CASE seen > Limit
  <2>1. body' = [body EXCEPT ![w] = [seen |-> seen, given |-> body[w].given]]
    BY <1>2, <1>5 DEF Receive, Trips, HTypeOK
  <2>2. Tripped(w)
    BY <1>2, <1>5 DEF Receive, Trips
  <2>3. CASE starts[w] = 0
    <3>1. Refuse(w, req[w].inbound, 0)
      BY <2>2, <2>3 DEF Tripped
    <3>2. /\ pc' = [pc EXCEPT ![w] = "idle"] /\ outcome' = [outcome EXCEPT ![w] = "refused"]
          /\ event' = [event EXCEPT ![w] = NoId] /\ starts' = [starts EXCEPT ![w] = 1]
      BY <1>1, <1>2, <1>3, <3>1, RefuseStep
    <3>3. PICK id \in RequestIds :
             /\ answer' = [answer EXCEPT ![w] = id]
             /\ req[w].inbound \in CallerIds => id = req[w].inbound
             /\ req[w].inbound \notin CallerIds =>
                   id \in Minted /\ \A v \in Workers : id # answer[v] /\ id # var[v]
      BY <1>1, <1>2, <1>3, <3>1, RefuseStep
    <3>4. HTypeOK'
      BY <1>1, <1>2, <2>1, <3>2, <3>3 DEF HTypeOK
    <3>5. BodyInv(w)'
      BY <1>1, <1>2, <1>3, <1>5, <2>1, <3>2 DEF HTypeOK, BodyInv, Bound, Oversize
    <3>6. IdInv(w)' /\ FreshInv(w)'
      BY <1>1, <1>2, <3>2, <3>3 DEF HTypeOK, IdInv, FreshInv, Bound, Answered
    <3>7. \A v \in Workers \ {w} : Same(v)
      BY <1>1, <1>2, <2>1, <3>2, <3>3 DEF HTypeOK, Same
    <3>8. \A v \in Workers :
             answer'[w] \in CallerIds \cup {NoId, answer[w]} \/ answer'[w] # var[v]
      BY <1>2, <3>3 DEF HTypeOK
    <3> QED BY <1>1, <3>4, <3>5, <3>6, <3>7, <3>8, OneWorkerStep
  <2>4. CASE starts[w] # 0
    <3>1. /\ pc' = [pc EXCEPT ![w] = "idle"] /\ outcome' = [outcome EXCEPT ![w] = "dropped"]
          /\ event' = [event EXCEPT ![w] = NoId] /\ starts' = starts /\ answer' = answer
      BY <2>2, <2>4 DEF Tripped, End
    <3>2. HTypeOK'
      BY <1>1, <1>2, <2>1, <3>1 DEF HTypeOK
    <3>3. BodyInv(w)'
      BY <1>1, <1>2, <1>3, <1>5, <2>1, <3>1 DEF HTypeOK, BodyInv, Bound, Oversize
    <3>4. IdInv(w)' /\ FreshInv(w)'
      BY <1>1, <1>2, <3>1 DEF HTypeOK, IdInv, FreshInv, Bound, Answered
    <3>5. \A v \in Workers \ {w} : Same(v)
      BY <1>1, <1>2, <2>1, <3>1 DEF HTypeOK, Same
    <3> QED BY <1>1, <3>1, <3>2, <3>3, <3>4, <3>5, OneWorkerStep
  <2> QED BY <2>3, <2>4
<1>6. Limit \in Nat /\ seen \in Nat
  BY <1>2
<1> QED BY <1>4, <1>5, <1>6

LEMMA BeginResponseStep ==
    ASSUME HInv, NEW w \in Workers, BeginResponse(w)
    PROVE  HInv'
<1>1. /\ starts' = [starts EXCEPT ![w] = 1]
      /\ UNCHANGED <<pc, req, body, outcome, var, tokens, event, lines, answer>>
  BY DEF BeginResponse
<1>2. HTypeOK'
  BY <1>1 DEF HInv, HTypeOK
<1>3. BodyInv(w)' /\ IdInv(w)' /\ FreshInv(w)'
  BY <1>1 DEF HInv, BodyInv, IdInv, FreshInv, Bound, Answered, Oversize
<1>4. \A v \in Workers \ {w} : Same(v)
  BY <1>1 DEF Same
<1> QED BY <1>1, <1>2, <1>3, <1>4, OneWorkerStep

LEMMA OnRequestStep ==
    ASSUME HInv, NEW w \in Workers, OnRequest(w)
    PROVE  HInv'
<1>1. /\ pc[w] = "reading" /\ var[w] = NoId /\ tokens[w] = <<>> /\ lines[w] = {}
      /\ outcome[w] = "none" /\ body[w].seen = req[w].size
      /\ pc' = [pc EXCEPT ![w] = "handling"]
      /\ UNCHANGED <<req, body, starts, outcome, event, lines, answer>>
  BY DEF OnRequest, HInv, IdInv, Bound
<1>2. HTypeOK /\ BodyInv(w) /\ IdInv(w)
  BY DEF HInv
<1>3. req[w].inbound \in CallerIds \cup {NoId}
  <2>1. req[w] \in Headers \cup {NoRequest}
    BY <1>2 DEF HTypeOK
  <2> QED BY <2>1 DEF Headers, NoRequest
<1>4. PICK id \in Resolve(req[w].inbound, var[w]) : Bind(w, id)
  BY DEF OnRequest
<1>5. /\ id \in RequestIds /\ id # NoId
      /\ req[w].inbound \in CallerIds => id = req[w].inbound
      /\ req[w].inbound \notin CallerIds =>
            id \in Minted /\ \A v \in Workers : id # answer[v] /\ id # var[v]
  <2>1. var[w] \in RequestIds \cup {NoId} /\ HTypeOK
    BY <1>2 DEF HTypeOK
  <2> QED BY <1>1, <1>3, <1>4, <2>1, Resolved
<1>6. /\ var' = [var EXCEPT ![w] = id]
      /\ tokens' = [tokens EXCEPT ![w] = Append(<<>>, NoId)]
  BY <1>1, <1>4 DEF Bind
<1>7. /\ Append(<<>>, NoId) \in Seq(RequestIds \cup {NoId})
      /\ Append(<<>>, NoId) # <<>> /\ Head(Append(<<>>, NoId)) = NoId
  OBVIOUS
<1>8. HTypeOK'
  BY <1>1, <1>2, <1>5, <1>6, <1>7 DEF HTypeOK
<1>9. BodyInv(w)'
  BY <1>1, <1>2 DEF HTypeOK, BodyInv, Bound, Oversize
<1>10. IdInv(w)'
  BY <1>1, <1>2, <1>5, <1>6, <1>7 DEF HTypeOK, IdInv, Bound, Answered
<1>11. FreshInv(w)'
  BY <1>1, <1>2, <1>5, <1>6 DEF HTypeOK, FreshInv
<1>12. \A v \in Workers \ {w} : Same(v)
  BY <1>1, <1>2, <1>6 DEF HTypeOK, Same
<1>13. \A v \in Workers : var'[w] \in CallerIds \cup {NoId, var[w]} \/ var'[w] # var[v]
  BY <1>2, <1>5, <1>6 DEF HTypeOK
<1> QED BY <1>1, <1>8, <1>9, <1>10, <1>11, <1>12, <1>13, OneWorkerStep

LEMMA OpenAuditStep ==
    ASSUME HInv, NEW w \in Workers, OpenAudit(w)
    PROVE  HInv'
<1>1. /\ pc[w] = "handling" /\ var[w] # NoId /\ lines[w] = {}
      /\ tokens[w] # <<>> /\ Head(tokens[w]) = NoId /\ outcome[w] = "none"
      /\ pc' = [pc EXCEPT ![w] = "tool"]
      /\ UNCHANGED <<req, body, starts, outcome, lines, answer>>
  BY DEF OpenAudit, HInv, IdInv, Bound
<1>2. HTypeOK /\ BodyInv(w) /\ IdInv(w) /\ FreshInv(w)
  BY DEF HInv
<1>3. PICK id \in Resolve(NoId, var[w]) : Bind(w, id) /\ event' = [event EXCEPT ![w] = id]
  BY DEF OpenAudit
<1>4. id = var[w]
  BY <1>1, <1>3, BoundaryAssumption DEF Resolve
<1>5. /\ var' = var
      /\ tokens' = [tokens EXCEPT ![w] = Append(tokens[w], var[w])]
  BY <1>2, <1>3, <1>4 DEF Bind, HTypeOK
<1>6. tokens[w] \in Seq(RequestIds \cup {NoId}) /\ var[w] \in RequestIds \cup {NoId}
  BY <1>2 DEF HTypeOK
<1>7. /\ Append(tokens[w], var[w]) \in Seq(RequestIds \cup {NoId})
      /\ Append(tokens[w], var[w]) # <<>> /\ Head(Append(tokens[w], var[w])) = Head(tokens[w])
  BY <1>1, <1>6
<1>8. HTypeOK'
  BY <1>1, <1>2, <1>3, <1>4, <1>5, <1>6, <1>7 DEF HTypeOK
<1>9. BodyInv(w)'
  BY <1>1, <1>2 DEF HTypeOK, BodyInv, Bound, Oversize
<1>10. IdInv(w)'
  BY <1>1, <1>2, <1>3, <1>4, <1>5, <1>7 DEF HTypeOK, IdInv, Bound, Answered
<1>11. FreshInv(w)'
  BY <1>1, <1>2, <1>5 DEF HTypeOK, FreshInv, Bound
<1>12. \A v \in Workers \ {w} : Same(v)
  BY <1>1, <1>2, <1>3, <1>5 DEF HTypeOK, Same
<1> QED BY <1>1, <1>5, <1>8, <1>9, <1>10, <1>11, <1>12, OneWorkerStep

LEMMA LogStep ==
    ASSUME HInv, NEW w \in Workers, NEW id, Log(w, id)
    PROVE  HInv'
<1>1. /\ pc[w] = "tool" /\ id = var[w] /\ outcome[w] = "none" /\ var[w] # NoId
      /\ lines' = [lines EXCEPT ![w] = lines[w] \cup {id}]
      /\ UNCHANGED <<pc, req, body, starts, outcome, var, tokens, event, answer>>
  BY DEF Log, HInv, HTypeOK, IdInv, Bound
<1>2. HTypeOK /\ BodyInv(w) /\ IdInv(w) /\ FreshInv(w) /\ var[w] \in RequestIds
  BY <1>1 DEF HInv, HTypeOK
<1>3. HTypeOK'
  BY <1>1, <1>2 DEF HTypeOK
<1>4. BodyInv(w)' /\ FreshInv(w)'
  BY <1>1, <1>2 DEF BodyInv, FreshInv, Bound, Oversize
<1>5. IdInv(w)'
  BY <1>1, <1>2 DEF HTypeOK, IdInv, Bound, Answered
<1>6. \A v \in Workers \ {w} : Same(v)
  BY <1>1, <1>2 DEF HTypeOK, Same
<1> QED BY <1>1, <1>3, <1>4, <1>5, <1>6, OneWorkerStep

(* The scopes are left: the variable is what it was before the request. *)
LEMMA UnwindStep ==
    ASSUME HInv, NEW w \in Workers, NEW how, Unwind(w, how)
    PROVE  /\ var' = [var EXCEPT ![w] = NoId]
           /\ tokens' = [tokens EXCEPT ![w] = <<>>]
<1>1. IdInv(w) /\ HTypeOK
  BY DEF HInv
<1>2. CASE tokens[w] # <<>>
  BY <1>1, <1>2 DEF Unwind, IdInv
<1>3. CASE tokens[w] = <<>>
  BY <1>1, <1>3 DEF Unwind, IdInv, HTypeOK
<1> QED BY <1>2, <1>3

LEMMA AnswerStep ==
    ASSUME HInv, NEW w \in Workers, Answer(w)
    PROVE  HInv'
<1>1. /\ pc[w] = "tool" /\ event[w] = var[w] /\ lines[w] \subseteq {var[w]}
      /\ body[w].given <= Limit /\ body[w].given = body[w].seen /\ body[w].seen = req[w].size
  BY DEF Answer, HInv, IdInv, BodyInv, Bound
<1>2. HTypeOK /\ BodyInv(w) /\ IdInv(w) /\ FreshInv(w)
  BY DEF HInv
<1>3. /\ answer' = [answer EXCEPT ![w] = var[w]] /\ starts' = [starts EXCEPT ![w] = 1]
      /\ pc' = [pc EXCEPT ![w] = "idle"] /\ outcome' = [outcome EXCEPT ![w] = "served"]
      /\ event' = [event EXCEPT ![w] = NoId]
      /\ UNCHANGED <<req, body, lines>>
  BY <1>1 DEF Answer, End
<1>4. /\ var' = [var EXCEPT ![w] = NoId]
      /\ tokens' = [tokens EXCEPT ![w] = <<>>]
  BY UnwindStep DEF Answer
<1>5. HTypeOK'
  BY <1>2, <1>3, <1>4 DEF HTypeOK
<1>6. BodyInv(w)'
  BY <1>1, <1>2, <1>3 DEF HTypeOK, BodyInv, Bound, Oversize
<1>7. IdInv(w)'
  BY <1>1, <1>2, <1>3, <1>4 DEF HTypeOK, IdInv, Bound, Answered
<1>8. FreshInv(w)'
  BY <1>2, <1>3 DEF HTypeOK, FreshInv, Bound
<1>9. \A v \in Workers \ {w} : Same(v)
  BY <1>2, <1>3, <1>4 DEF HTypeOK, Same
<1>10. ASSUME NEW v \in Workers \ {w}
       PROVE  answer'[w] \in CallerIds \/ answer'[w] # var[v]
  BY <1>1, <1>2, <1>3 DEF HTypeOK, IdInv, FreshInv, Bound
<1> QED BY <1>4, <1>2, <1>5, <1>6, <1>7, <1>8, <1>9, <1>10, OneWorkerStep DEF HTypeOK

LEMMA AbortStep ==
    ASSUME HInv, NEW w \in Workers, Abort(w)
    PROVE  HInv'
<1>1. HTypeOK /\ BodyInv(w) /\ IdInv(w)
  BY DEF HInv
<1>2. /\ pc[w] # "idle" /\ outcome[w] = "none"
      /\ pc' = [pc EXCEPT ![w] = "idle"] /\ outcome' = [outcome EXCEPT ![w] = "aborted"]
      /\ event' = [event EXCEPT ![w] = NoId]
      /\ UNCHANGED <<req, body, starts, lines, answer>>
  BY <1>1 DEF Abort, End, IdInv
<1>3. /\ var' = [var EXCEPT ![w] = NoId]
      /\ tokens' = [tokens EXCEPT ![w] = <<>>]
  BY UnwindStep DEF Abort
<1>4. HTypeOK'
  BY <1>1, <1>2, <1>3 DEF HTypeOK
<1>5. BodyInv(w)'
  BY <1>1, <1>2 DEF HTypeOK, BodyInv, Bound, Oversize
<1>6. IdInv(w)'
  BY <1>1, <1>2, <1>3 DEF HTypeOK, IdInv, Bound, Answered
<1>7. FreshInv(w)'
  BY <1>1, <1>2 DEF HTypeOK, FreshInv, Bound
<1>8. \A v \in Workers \ {w} : Same(v)
  BY <1>1, <1>2, <1>3 DEF HTypeOK, Same
<1>9. var'[w] = NoId /\ answer'[w] = answer[w]
  BY <1>1, <1>2, <1>3 DEF HTypeOK
<1> QED BY <1>4, <1>5, <1>6, <1>7, <1>8, <1>9, OneWorkerStep

-----------------------------------------------------------------------------
(* The invariant is inductive *)

LEMMA HInitial == HInit => HInv
<1> SUFFICES ASSUME HInit PROVE HInv
  OBVIOUS
<1>1. HTypeOK
  BY DEF HInit, HTypeOK, NoRequest
<1>2. ASSUME NEW w \in Workers PROVE BodyInv(w) /\ IdInv(w) /\ FreshInv(w)
  BY BoundaryAssumption DEF HInit, NoRequest, BodyInv, IdInv, FreshInv, Bound, Answered
<1> QED BY <1>1, <1>2 DEF HInv

LEMMA HStep == HInv /\ [HNext]_hvars => HInv'
<1> SUFFICES ASSUME HInv, [HNext]_hvars PROVE HInv'
  OBVIOUS
<1>1. CASE HNext
  <2>1. PICK w \in Workers : Work(w)
    BY <1>1 DEF HNext
  <2> QED BY <2>1, ArriveStep, ReceiveStep, BeginResponseStep, OnRequestStep, OpenAuditStep,
             LogStep, AnswerStep, AbortStep DEF Work
<1>2. CASE UNCHANGED hvars
  BY <1>2 DEF hvars, HInv, HTypeOK, BodyInv, IdInv, FreshInv, Bound, Answered, Oversize
<1> QED BY <1>1, <1>2

LEMMA HInductive == HSpec => []HInv
BY HInitial, HStep, PTL DEF HSpec

-----------------------------------------------------------------------------
(* Theorems *)

(* Every variable keeps its type: in particular no request gets two heads  *)
(* of a response.                                                          *)
THEOREM BoundaryTypes == HSpec => []HTypeOK
<1>1. HInv => HTypeOK
  BY DEF HInv
<1> QED BY <1>1, HInductive, PTL

(* The application holds no more of a body than the limit, and no tool     *)
(* runs for a larger one, however the body is cut and whatever it declares.*)
THEOREM BodiesBounded == HSpec => []BodyBounded
<1>1. HInv => BodyBounded
  <2> SUFFICES ASSUME HInv, NEW w \in Workers
               PROVE  /\ body[w].given <= Limit
                      /\ pc[w] \in {"handling", "tool"} \/ outcome[w] = "served"
                            => req[w].size <= Limit
    BY DEF BodyBounded
  <2> QED BY DEF HInv, BodyInv, Bound
<1> QED BY <1>1, HInductive, PTL

(* Only a body that is, or says it is, over the limit is turned away.      *)
THEOREM OversizeRefused == HSpec => []OnlyOversizeRefused
<1>1. HInv => OnlyOversizeRefused
  BY DEF HInv, BodyInv, Oversize, OnlyOversizeRefused
<1> QED BY <1>1, HInductive, PTL

(* One id on a request's lines and its answer, the caller's if it sent one.*)
THEOREM OneId == HSpec => []OneIdPerRequest
<1>1. HInv => OneIdPerRequest
  BY DEF HInv, BodyInv, IdInv, Bound, Answered, OneIdPerRequest
<1> QED BY <1>1, HInductive, PTL

(* An id that we minted answers one request only, and is bound for no      *)
(* other: no id leaks into the next request of a worker or to another's.   *)
THEOREM IdsNotReused == HSpec => NoIdReused
<1> DEFINE Mine(w) == \A v \in Workers : answer'[w] # answer[v] /\ (v # w => answer'[w] # var[v])
<1>1. ASSUME HInv, [HNext]_hvars, NEW w \in Workers, Answers(w), req'[w].inbound \notin CallerIds
      PROVE  Mine(w)
  <2>1. HTypeOK /\ \A v \in Workers : IdInv(v) /\ FreshInv(v)
    BY <1>1 DEF HInv
  <2>2. PICK u \in Workers : Work(u)
    BY <1>1 DEF HNext, hvars, Answers
  <2>3. ASSUME NEW h \in Headers, Arrive(u, h)
        PROVE  Mine(w)
    <3>1. u = w /\ Refuse(w, h.inbound, 0) /\ req'[w] = h /\ pc[w] = "idle"
      BY <1>1, <2>1, <2>3 DEF Arrive, Refuse, End, Answers, HTypeOK
    <3>2. h.inbound \in CallerIds \cup {NoId} /\ var[w] = NoId
      BY <2>1, <3>1 DEF Headers, IdInv, Bound
    <3>3. \E id \in RequestIds :
             /\ answer' = [answer EXCEPT ![w] = id]
             /\ \A v \in Workers : id # answer[v] /\ id # var[v]
      BY <1>1, <2>1, <3>1, <3>2, RefuseStep
    <3> QED BY <2>1, <3>3 DEF HTypeOK
  <2>4. ASSUME NEW n \in Sizes \ {0}, Receive(u, n)
        PROVE  Mine(w)
    <3>1. u = w /\ pc[w] = "reading" /\ req' = req
      BY <1>1, <2>1, <2>4 DEF Receive, Tripped, Refuse, End, Answers, HTypeOK
    <3>2. starts[w] = 0 /\ Refuse(w, req[w].inbound, 0)
      BY <1>1, <2>1, <2>4, <3>1 DEF Receive, Tripped, End, Answers, HTypeOK, IdInv
    <3>3. req[w].inbound \in CallerIds \cup {NoId} /\ var[w] = NoId
      <4>1. req[w] \in Headers \cup {NoRequest}
        BY <2>1 DEF HTypeOK
      <4> QED BY <2>1, <3>1, <4>1 DEF Headers, NoRequest, IdInv, Bound
    <3>4. \E id \in RequestIds :
             /\ answer' = [answer EXCEPT ![w] = id]
             /\ \A v \in Workers : id # answer[v] /\ id # var[v]
      BY <1>1, <2>1, <3>1, <3>2, <3>3, RefuseStep
    <3> QED BY <2>1, <3>4 DEF HTypeOK
  <2>5. ASSUME Answer(u)
        PROVE  Mine(w)
    <3>1. u = w /\ pc[w] = "tool" /\ req' = req /\ answer'[w] = event[w]
      BY <1>1, <2>1, <2>5 DEF Answer, End, Answers, HTypeOK
    <3>2. event[w] = var[w]
      BY <2>1, <3>1 DEF IdInv
    <3> QED BY <1>1, <2>1, <3>1, <3>2 DEF FreshInv, Bound
  <2>6. ASSUME BeginResponse(u) \/ OnRequest(u) \/ OpenAudit(u) \/ (\E id : Log(u, id))
        PROVE  FALSE
    BY <1>1, <2>6 DEF BeginResponse, OnRequest, OpenAudit, Log, Answers
  <2>7. ASSUME Abort(u)
        PROVE  FALSE
    BY <1>1, <2>1, <2>7 DEF Abort, End, Answers, HTypeOK
  <2> QED BY <2>2, <2>3, <2>4, <2>5, <2>6, <2>7 DEF Work
<1>2. HInv /\ [HNext]_hvars =>
         [\A w \in Workers : Answers(w) /\ req'[w].inbound \notin CallerIds => Mine(w)]_hvars
  BY <1>1
<1> QED BY <1>2, HInductive, PTL DEF HSpec, NoIdReused

=============================================================================
