--------------------------- MODULE AdmissionProofs ---------------------------
(***************************************************************************)
(* Proofs about Admission, for every set of tokens, every burst and every  *)
(* set of deployments.                                                     *)
(*                                                                         *)
(* The argument: what load_settings refuses for is exactly what is unsafe  *)
(* (RefusedUnsafe) and covers what build_server raises for (Buildable),    *)
(* but for a token that cannot be encoded, which is unsafe and accepted; a *)
(* deployment that passed both registers and scopes its tools so that a    *)
(* verified caller is authorised exactly when it was granted               *)
(* (AuthorisedGranted); and a caller's bucket and what it owes add up to   *)
(* the burst, because nobody else draws on it (Balanced).                  *)
(***************************************************************************)
EXTENDS Admission, TLAPS

LEMMA CredentialsSplit ==
    ASSUME NEW s \in Deployments, NEW t \in KNOWN_TOOLS
    PROVE  Requires(t) \subseteq s.present
             <=> ~\E v \in Credentials \ s.present : (v \in {"api_key", "api_secret"}) <=> (t # "get_job_feed")
<1>1. CASE t = "get_job_feed"
  BY <1>1 DEF Requires, Credentials
<1>2. CASE t # "get_job_feed"
  BY <1>2 DEF Requires, Credentials
<1> QED BY <1>1, <1>2

(* A tool is enabled when both gates say so. *)
LEMMA EnabledIff ==
    ASSUME NEW s \in Deployments, NEW t \in KNOWN_TOOLS
    PROVE  t \in EnabledTools(s)
             <=> /\ t \in s.names \/ (t \in READ_TOOLS /\ s.names = Unset)
                 /\ t \in WRITE_TOOLS => s.writes
<1>1. "unset" \notin KNOWN_TOOLS
  BY DEF KNOWN_TOOLS, READ_TOOLS, WRITE_TOOLS
<1>2. READ_TOOLS \cap WRITE_TOOLS = {} /\ KNOWN_TOOLS = READ_TOOLS \cup WRITE_TOOLS
  BY DEF KNOWN_TOOLS, READ_TOOLS, WRITE_TOOLS
<1>3. CASE s.names = Unset
  BY <1>1, <1>2, <1>3 DEF EnabledTools, Unset
<1>4. CASE s.names # Unset
  BY <1>2, <1>4 DEF EnabledTools
<1> QED BY <1>3, <1>4

LEMMA EnabledKnown == ASSUME NEW s \in Deployments PROVE EnabledTools(s) \subseteq KNOWN_TOOLS
BY DEF EnabledTools, KNOWN_TOOLS

(* The reasons, one by one. *)
LEMMA NoReasons ==
    ASSUME NEW s \in Deployments
    PROVE  Reasons(s) = {} <=>
             /\ s.valid
             /\ "unknown" \notin s.names
             /\ \A t \in EnabledTools(s) : Requires(t) \subseteq s.present
             /\ ~(s.transport = "http" /\ (s.map.form = "unset" \/ TokenMapProblem(s.map)))
             /\ ~(s.transport = "http" /\ ~s.loopback /\ ~s.proxy)
<1> DEFINE Holds(r) == CASE r = "unknown_tool" -> "unknown" \in s.names
                         [] r = "credentials"  -> \E tool \in EnabledTools(s) : ~(Requires(tool) \subseteq s.present)
                         [] r = "tokens"       -> s.transport = "http" /\ (s.map.form = "unset" \/ TokenMapProblem(s.map))
                         [] r = "plaintext"    -> s.transport = "http" /\ ~s.loopback /\ ~s.proxy
<1>1. CASE ~s.valid
  BY <1>1 DEF Reasons
<1>2. CASE s.valid
  <2>1. Reasons(s) = {r \in {"unknown_tool", "credentials", "tokens", "plaintext"} : Holds(r)}
    BY <1>2 DEF Reasons
  <2>2. Reasons(s) = {} <=> /\ ~Holds("unknown_tool") /\ ~Holds("credentials")
                            /\ ~Holds("tokens") /\ ~Holds("plaintext")
    <3> HIDE DEF Holds
    <3> QED BY <2>1
  <2>3. /\ Holds("unknown_tool") <=> "unknown" \in s.names
        /\ Holds("credentials") <=> \E tool \in EnabledTools(s) : ~(Requires(tool) \subseteq s.present)
        /\ Holds("tokens") <=> s.transport = "http" /\ (s.map.form = "unset" \/ TokenMapProblem(s.map))
        /\ Holds("plaintext") <=> s.transport = "http" /\ ~s.loopback /\ ~s.proxy
    OBVIOUS
  <2> HIDE DEF Holds
  <2> QED BY <1>2, <2>2, <2>3
<1> QED BY <1>1, <1>2

LEMMA DeploymentTypes ==
    ASSUME NEW s \in Deployments
    PROVE  /\ s.valid \in BOOLEAN /\ s.writes \in BOOLEAN /\ s.loopback \in BOOLEAN /\ s.proxy \in BOOLEAN
           /\ s.present \subseteq Credentials
           /\ s.map.form \in {"unset", "not_json", "not_object", "not_lists", "object"}
           /\ DOMAIN s.map.grants \subseteq Tokens \cup {BlankToken, Unencodable}
           /\ \A t \in DOMAIN s.map.grants : s.map.grants[t] \subseteq Scopes \cup {BlankScope, "other"}
BY AdmissionAssumption DEF IsSettings, IsTokenMap

-----------------------------------------------------------------------------
(* The boot *)

(* What the token map is refused for, or cannot be built for, is what makes it *)
(* unsafe.                                                                     *)
LEMMA MapUnsafe ==
    ASSUME NEW s \in Deployments
    PROVE  (s.map.form = "unset" \/ TokenMapProblem(s.map) \/ Unencodable \in DOMAIN s.map.grants)
             <=> \/ s.map.form # "object"
                 \/ ~\E t \in Tokens : t \in DOMAIN s.map.grants
                 \/ \E t \in DOMAIN s.map.grants : t \notin Tokens \/ s.map.grants[t] \ {BlankScope} = {}
                                                    \/ BlankScope \in s.map.grants[t]
<1>1. BlankToken \notin Tokens /\ Unencodable \notin Tokens
  BY AdmissionAssumption
<1>2. CASE s.map.form # "object"
  BY <1>2, DeploymentTypes DEF TokenMapProblem
<1>3. CASE s.map.form = "object"
  <2>1. TokenMapProblem(s.map) <=> \/ DOMAIN s.map.grants = {}
                                   \/ BlankToken \in DOMAIN s.map.grants
                                   \/ \E t \in DOMAIN s.map.grants : s.map.grants[t] = {} \/ BlankScope \in s.map.grants[t]
    BY <1>3 DEF TokenMapProblem
  <2>2. \A t \in DOMAIN s.map.grants : t \in Tokens \/ t = BlankToken \/ t = Unencodable
    BY DeploymentTypes
  <2>3. ASSUME NEW t \in DOMAIN s.map.grants
        PROVE  (s.map.grants[t] = {} \/ BlankScope \in s.map.grants[t])
                 <=> (s.map.grants[t] \ {BlankScope} = {} \/ BlankScope \in s.map.grants[t])
    OBVIOUS
  <2>4. (BlankToken \in DOMAIN s.map.grants \/ Unencodable \in DOMAIN s.map.grants)
          <=> \E t \in DOMAIN s.map.grants : t \notin Tokens
    BY <1>1, <2>2
  <2>5. (\E t \in DOMAIN s.map.grants : t \notin Tokens)
           \/ (DOMAIN s.map.grants = {} <=> ~\E t \in Tokens : t \in DOMAIN s.map.grants)
    BY <2>2
  <2> QED BY <1>3, <2>1, <2>2, <2>3, <2>4, <2>5
<1> QED BY <1>2, <1>3

LEMMA RefusedUnsafe == ASSUME NEW s \in Deployments PROVE Reasons(s) # {} \/ Garbled(s) <=> Unsafe(s)
<1>1. (\A t \in EnabledTools(s) : Requires(t) \subseteq s.present)
        <=> ~\E t \in KNOWN_TOOLS :
               /\ t \in s.names \/ (t \in READ_TOOLS /\ s.names = Unset)
               /\ t \in WRITE_TOOLS => s.writes
               /\ \E v \in Credentials \ s.present : (v \in {"api_key", "api_secret"}) <=> (t # "get_job_feed")
  BY EnabledKnown, EnabledIff, CredentialsSplit
<1> DEFINE Lacking == \E t \in KNOWN_TOOLS :
                         /\ t \in s.names \/ (t \in READ_TOOLS /\ s.names = Unset)
                         /\ t \in WRITE_TOOLS => s.writes
                         /\ \E v \in Credentials \ s.present : (v \in {"api_key", "api_secret"}) <=> (t # "get_job_feed")
           BadMap == \/ s.map.form # "object"
                     \/ ~\E t \in Tokens : t \in DOMAIN s.map.grants
                     \/ \E t \in DOMAIN s.map.grants : t \notin Tokens \/ s.map.grants[t] \ {BlankScope} = {}
                                                        \/ BlankScope \in s.map.grants[t]
<1>2. Unsafe(s) <=> (\/ ~s.valid \/ "unknown" \in s.names \/ Lacking
                     \/ s.transport = "http" /\ ((~s.loopback /\ ~s.proxy) \/ BadMap))
  BY Zenon DEF Unsafe
<1>3. (s.map.form = "unset" \/ TokenMapProblem(s.map) \/ Unencodable \in DOMAIN s.map.grants)
        <=> BadMap
  BY MapUnsafe
<1> HIDE DEF Lacking, BadMap
<1> QED BY <1>1, <1>2, <1>3, NoReasons DEF Lacking, Garbled

(* What passed validate_settings, build_server can build, if it can encode it. *)
LEMMA Buildable ==
    ASSUME NEW s \in Deployments, Reasons(s) = {}
    PROVE  BuildRaises(s) <=> Garbled(s)
<1>1. \A t \in EnabledTools(s) : Requires(t) \subseteq s.present
  BY NoReasons
<1>2. s.transport = "http" => s.map.form \notin {"unset", "not_json", "not_object"}
  BY NoReasons DEF TokenMapProblem
<1>3. EnabledTools(s) \ {"get_job_feed"} # {} => {"api_key", "api_secret"} \subseteq s.present
  BY <1>1 DEF Requires
<1>4. "get_job_feed" \in EnabledTools(s) => {"feed_key", "feed_secret", "company_id"} \subseteq s.present
  BY <1>1 DEF Requires
<1> QED BY <1>2, <1>3, <1>4 DEF BuildRaises

-----------------------------------------------------------------------------
(* The inductive invariant *)

Settled ==
    /\ phase = "serving" => /\ Reasons(settings) = {} /\ ~Garbled(settings)
                            /\ tools = Registered(settings)
    /\ phase = "refused" => Reasons(settings) # {}
    /\ phase = "raised" => Garbled(settings)

Balanced == \A c \in Callers : bucket[c] = Burst - owed[c]

AInv == ATypeOK /\ Settled /\ Balanced /\ ReachedOnlyIfGranted

(* On a deployment that serves, a verified caller may use what it was granted. *)
LEMMA AuthorisedGranted ==
    ASSUME ATypeOK, Settled, phase = "serving", NEW c \in Callers, Present(c), Verified(c),
           NEW t \in KNOWN_TOOLS
    PROVE  (t \in DOMAIN tools /\ Authorised(c, t)) <=> Granted(c, t)
<1>1. tools = [u \in EnabledTools(settings) |->
                 IF settings.transport = "http" THEN TOOL_SCOPES[u] ELSE Open]
  BY DEF Settled, Registered
<1>2. settings \in Deployments
  BY DEF ATypeOK
<1>3. t \in DOMAIN tools <=> /\ t \in settings.names \/ (t \in READ_TOOLS /\ settings.names = Unset)
                             /\ t \in WRITE_TOOLS => settings.writes
  BY <1>1, <1>2, EnabledIff
<1>4. TOOL_SCOPES[t] = DataClass(t) /\ TOOL_SCOPES[t] # Open
  BY DEF TOOL_SCOPES, DataClass, Open, KNOWN_TOOLS, READ_TOOLS, WRITE_TOOLS
<1>5. CASE settings.transport = "http"
  <2>1. c \in DOMAIN settings.map.grants
    BY <1>5 DEF Verified
  <2>2. c \in Tokens
    BY <1>2, <1>5, <2>1, RefusedUnsafe DEF Settled, Unsafe
  <2>3. t \in DOMAIN tools => (Authorised(c, t) <=> DataClass(t) \in settings.map.grants[c])
    BY <1>1, <1>4, <1>5, <2>1 DEF Authorised
  <2> QED BY <1>3, <1>5, <2>1, <2>2, <2>3 DEF Granted
<1>6. CASE settings.transport # "http"
  <2>1. t \in DOMAIN tools => Authorised(c, t)
    BY <1>1, <1>6 DEF Authorised
  <2> QED BY <1>3, <1>6, <2>1 DEF Granted
<1> QED BY <1>5, <1>6

LEMMA RegisteredTyped ==
    ASSUME NEW s \in Deployments
    PROVE  /\ DOMAIN Registered(s) \subseteq KNOWN_TOOLS
           /\ \A t \in DOMAIN Registered(s) : Registered(s)[t] \in Scopes \cup {Open}
<1>1. \A t \in KNOWN_TOOLS : TOOL_SCOPES[t] \in Scopes
  BY DEF TOOL_SCOPES, Scopes, KNOWN_TOOLS, READ_TOOLS, WRITE_TOOLS
<1> QED BY <1>1, EnabledKnown DEF Registered

(* What an answer leaves behind. *)
LEMMA AnswerTyped ==
    ASSUME NEW c \in Callers, NEW ask \in KNOWN_TOOLS \cup {"list"},
           NEW verdict \in {"unauthorised", "throttled", "unknown_tool", "ran", "listed"},
           NEW shown \in SUBSET KNOWN_TOOLS, Answer(c, ask, verdict, shown)
    PROVE  /\ last' \in [caller  : Callers,
                         ask     : KNOWN_TOOLS \cup {"list", "none"},
                         verdict : {"none", "unauthorised", "throttled", "unknown_tool", "ran", "listed"},
                         shown   : SUBSET KNOWN_TOOLS,
                         client  : Callers]
           /\ last'.caller = c /\ last'.ask = ask /\ last'.verdict = verdict /\ last'.shown = shown
BY DEF Answer, AuditedClient, Callers

LEMMA AInitInv == ASSUME AInit PROVE AInv
<1>1. ATypeOK
  BY AdmissionAssumption DEF AInit, ATypeOK, NoRequestYet, Callers, KNOWN_TOOLS
<1>2. Settled /\ ReachedOnlyIfGranted
  BY DEF AInit, Settled, ReachedOnlyIfGranted, NoRequestYet
<1>3. Balanced
  BY AdmissionAssumption DEF AInit, Balanced
<1> QED BY <1>1, <1>2, <1>3 DEF AInv

LEMMA BootInv == ASSUME AInv, Boot PROVE AInv'
<1>1. settings \in Deployments /\ UNCHANGED <<settings, bucket, owed, last>>
  BY DEF Boot, AInv, ATypeOK
<1>2. phase' \in {"refused", "raised", "serving"} /\ Settled'
  BY <1>1, Buildable DEF Boot, Settled, Garbled
<1>3. ATypeOK'
  BY <1>1, <1>2, RegisteredTyped DEF Boot, AInv, ATypeOK
<1>4. Balanced'
  BY <1>1 DEF AInv, Balanced
<1>5. ReachedOnlyIfGranted'
  BY <1>1 DEF AInv, ReachedOnlyIfGranted, Granted
<1> QED BY <1>2, <1>3, <1>4, <1>5 DEF AInv

-----------------------------------------------------------------------------
(* The requests *)

(* A request that is turned away charges nothing. *)
LEMMA TurnedAwayInv ==
    ASSUME AInv, NEW c \in Callers, NEW ask \in KNOWN_TOOLS \cup {"list"},
           Stranger(c, ask) \/ Throttle(c, ask)
    PROVE  AInv'
<1>1. /\ UNCHANGED <<settings, phase, tools, bucket, owed>>
      /\ \E v \in {"unauthorised", "throttled"} : Answer(c, ask, v, {})
  BY DEF Stranger, Throttle
<1>2. PICK v \in {"unauthorised", "throttled"} : Answer(c, ask, v, {})
  BY <1>1
<1>3. ATypeOK' /\ last'.verdict = v
  <2>1. {} \in SUBSET KNOWN_TOOLS
    OBVIOUS
  <2>2. last' \in [caller  : Callers,
                   ask     : KNOWN_TOOLS \cup {"list", "none"},
                   verdict : {"none", "unauthorised", "throttled", "unknown_tool", "ran", "listed"},
                   shown   : SUBSET KNOWN_TOOLS,
                   client  : Callers] /\ last'.verdict = v
    BY <1>2, <2>1, AnswerTyped
  <2> QED BY <1>1, <2>2 DEF AInv, ATypeOK
<1>4. Settled' /\ Balanced'
  BY <1>1 DEF AInv, Settled, Balanced
<1>5. ReachedOnlyIfGranted'
  BY <1>3 DEF ReachedOnlyIfGranted
<1> QED BY <1>3, <1>4, <1>5 DEF AInv

(* A request that is let in is charged to its own caller. *)
LEMMA ChargeInv ==
    ASSUME AInv, NEW c \in Callers, Charge(c)
    PROVE  /\ bucket' \in [Callers -> 0..Burst] /\ owed' \in [Callers -> 0..Burst]
           /\ Balanced' /\ Settled'
<1>1. /\ bucket[c] > 0
      /\ bucket' = [bucket EXCEPT ![c] = @ - 1]
      /\ owed' = [owed EXCEPT ![c] = @ + 1]
      /\ UNCHANGED <<settings, phase, tools>>
  BY DEF Charge, ClientId
<1>2. bucket \in [Callers -> 0..Burst] /\ owed \in [Callers -> 0..Burst] /\ bucket[c] = Burst - owed[c]
  BY DEF AInv, ATypeOK, Balanced
<1>3. bucket[c] - 1 \in 0..Burst /\ owed[c] + 1 \in 0..Burst /\ bucket[c] - 1 = Burst - (owed[c] + 1)
  BY <1>1, <1>2, AdmissionAssumption
<1>4. bucket' \in [Callers -> 0..Burst] /\ owed' \in [Callers -> 0..Burst]
  BY <1>1, <1>2, <1>3
<1>5. Balanced'
  BY <1>1, <1>2, <1>3 DEF AInv, Balanced
<1>6. Settled'
  BY <1>1 DEF AInv, Settled
<1> QED BY <1>4, <1>5, <1>6

LEMMA ListInv == ASSUME AInv, NEW c \in Callers, List(c) PROVE AInv'
<1> DEFINE shown == {t \in DOMAIN tools : Authorised(c, t)}
<1>1. Charge(c) /\ Answer(c, "list", "listed", shown)
  BY DEF List
<1>2. phase = "serving" /\ Present(c) /\ Verified(c) /\ UNCHANGED <<settings, phase, tools>>
  BY <1>1 DEF Charge
<1>3. shown = {t \in KNOWN_TOOLS : Granted(c, t)}
  <2>1. DOMAIN tools \subseteq KNOWN_TOOLS /\ ATypeOK /\ Settled
    BY DEF AInv, ATypeOK
  <2>2. \A t \in KNOWN_TOOLS : (t \in DOMAIN tools /\ Authorised(c, t)) <=> Granted(c, t)
    BY <1>2, <2>1, AuthorisedGranted
  <2> QED BY <2>1, <2>2
<1>4. shown \in SUBSET KNOWN_TOOLS
  BY <1>3
<1> HIDE DEF shown
<1>5. ATypeOK' /\ last'.caller = c /\ last'.verdict = "listed" /\ last'.shown = shown
  BY <1>1, <1>2, <1>4, AnswerTyped, ChargeInv DEF AInv, ATypeOK
<1>6. ReachedOnlyIfGranted'
  BY <1>2, <1>3, <1>5 DEF ReachedOnlyIfGranted, Granted
<1> QED BY <1>1, <1>5, <1>6, ChargeInv DEF AInv

LEMMA CallToolInv == ASSUME AInv, NEW c \in Callers, NEW t \in KNOWN_TOOLS, CallTool(c, t) PROVE AInv'
<1> DEFINE v == IF t \in DOMAIN tools /\ Authorised(c, t) THEN "ran" ELSE "unknown_tool"
<1>1. Charge(c) /\ Answer(c, t, v, {})
  BY DEF CallTool
<1>2. phase = "serving" /\ Present(c) /\ Verified(c) /\ UNCHANGED <<settings, phase, tools>>
  BY <1>1 DEF Charge
<1>3. v = IF Granted(c, t) THEN "ran" ELSE "unknown_tool"
  BY <1>2, AuthorisedGranted DEF AInv
<1> HIDE DEF v
<1>4. v \in {"ran", "unknown_tool"} /\ (v = "ran" <=> Granted(c, t))
  BY <1>3
<1>5. ATypeOK' /\ last'.caller = c /\ last'.ask = t /\ last'.verdict = v
  BY <1>1, <1>2, <1>4, AnswerTyped, ChargeInv DEF AInv, ATypeOK
<1>6. Granted(c, t)' <=> Granted(c, t)
  BY <1>2 DEF Granted
<1>7. ReachedOnlyIfGranted'
  BY <1>4, <1>5, <1>6 DEF ReachedOnlyIfGranted
<1> QED BY <1>1, <1>5, <1>7, ChargeInv DEF AInv

LEMMA RefillInv == ASSUME AInv, Refill PROVE AInv'
<1>1. /\ bucket' = [c \in Callers |-> IF bucket[c] < Burst THEN bucket[c] + 1 ELSE Burst]
      /\ owed' = [c \in Callers |-> IF owed[c] > 0 THEN owed[c] - 1 ELSE 0]
      /\ UNCHANGED <<settings, phase, tools, last>>
  BY DEF Refill
<1>2. ASSUME NEW c \in Callers
      PROVE  bucket'[c] \in 0..Burst /\ owed'[c] \in 0..Burst /\ bucket'[c] = Burst - owed'[c]
  <2>1. bucket[c] \in 0..Burst /\ owed[c] \in 0..Burst /\ bucket[c] = Burst - owed[c] /\ Burst \in Nat
    BY AdmissionAssumption DEF AInv, ATypeOK, Balanced
  <2> QED BY <1>1, <2>1
<1>3. ATypeOK'
  BY <1>1, <1>2 DEF AInv, ATypeOK
<1>4. Settled' /\ Balanced' /\ ReachedOnlyIfGranted'
  BY <1>1, <1>2 DEF AInv, Settled, Balanced, ReachedOnlyIfGranted, Granted
<1> QED BY <1>3, <1>4 DEF AInv

-----------------------------------------------------------------------------
(* The theorems *)

LEMMA AInvStep == AInv /\ [ANext]_avars => AInv'
<1> SUFFICES ASSUME AInv, [ANext]_avars PROVE AInv'
  OBVIOUS
<1>1. CASE UNCHANGED avars
  BY <1>1 DEF avars, AInv, ATypeOK, Settled, Balanced, ReachedOnlyIfGranted, Granted
<1>2. CASE ANext
  BY <1>2, BootInv, TurnedAwayInv, ListInv, CallToolInv, RefillInv DEF ANext
<1> QED BY <1>1, <1>2

LEMMA AInvHolds == ASpec => []AInv
BY AInitInv, AInvStep, PTL DEF ASpec

(* Every variable keeps to its type: no scope a tool requires is made up, no
   caller has more outstanding than the burst. *)
THEOREM AdmissionTyped == ASpec => []ATypeOK
<1>1. AInv => ATypeOK
  BY DEF AInv
<1> QED BY <1>1, AInvHolds, PTL

(* The gates agree: a caller reaches and is shown exactly what it was granted. *)
THEOREM AdmissionGranted == ASpec => []ReachedOnlyIfGranted
<1>1. AInv => ReachedOnlyIfGranted
  BY DEF AInv
<1> QED BY <1>1, AInvHolds, PTL

(* The boot refuses only what is unsafe, serves only what is not, and can build *)
(* what it accepts but for a token that cannot be encoded.                      *)
THEOREM AdmissionBoot == ASpec => []BootRefusesUnsafe
<1>1. AInv => BootRefusesUnsafe
  BY RefusedUnsafe DEF AInv, ATypeOK, Settled, BootRefusesUnsafe
<1> QED BY <1>1, AInvHolds, PTL

(* A caller is throttled only by its own requests. *)
THEOREM AdmissionOwnBucket == ASpec => OwnBucketOnly
<1>1. ASSUME AInv, AInv', [ANext]_avars
      PROVE  [last'.verdict = "throttled" => owed[last'.caller] = Burst]_last
  <2>1. CASE \E c \in Callers, ask \in KNOWN_TOOLS \cup {"list"} : Throttle(c, ask)
    <3> PICK c \in Callers, ask \in KNOWN_TOOLS \cup {"list"} : Throttle(c, ask)
      BY <2>1
    <3>1. last'.caller = c
      BY DEF Throttle, Answer
    <3>2. bucket[c] = 0 /\ bucket[c] = Burst - owed[c] /\ owed[c] \in 0..Burst /\ Burst \in Nat
      BY <1>1, AdmissionAssumption DEF Throttle, ClientId, AInv, Balanced, ATypeOK
    <3>3. owed[c] = Burst
      BY <3>2
    <3> QED BY <3>1, <3>3
  <2>2. CASE \/ \E c \in Callers, ask \in KNOWN_TOOLS \cup {"list"} : Stranger(c, ask)
             \/ \E c \in Callers : List(c)
             \/ \E c \in Callers, t \in KNOWN_TOOLS : CallTool(c, t)
    BY <2>2 DEF Stranger, List, CallTool, Answer
  <2>3. CASE Boot \/ Refill \/ UNCHANGED avars
    BY <2>3 DEF Boot, Refill, avars
  <2> QED BY <1>1, <2>1, <2>2, <2>3 DEF ANext
<1> QED BY <1>1, AInvHolds, PTL DEF ASpec, OwnBucketOnly

=============================================================================
