------------------------------ MODULE Admission ------------------------------
(***************************************************************************)
(* From the settings to the answer: what a configuration is refused for    *)
(* (config.py), which tools it registers and scopes (server.py, the tool   *)
(* modules, http_hardening.py), and what each request then gets past: the  *)
(* bearer token, the inbound rate limit, the scope of the tool.            *)
(*                                                                         *)
(* The checks sit in four files and each trusts the one before; the        *)
(* callers share the limiter.  Settings are what an operator may set, one  *)
(* record per deployment.                                                  *)
(***************************************************************************)
EXTENDS FiniteSets, Naturals

CONSTANTS
    Tokens,       \* bearer tokens somebody may present
    BlankToken,   \* an empty or whitespace-only one
    Unencodable,  \* one UTF-8 cannot encode: JSON may hold half a surrogate pair
    NoToken,      \* a request without one; the one caller of stdio
    Burst,        \* INBOUND_BURST_CAPACITY
    Deployments   \* the settings to consider

VARIABLES
    settings,   \* the deployment's Settings
    phase,      \* "boot", then "refused", "raised" or "serving"
    tools,      \* the registered tools, each with the scope it requires
    bucket,     \* per client id: what is left in its token bucket
    owed,       \* per caller: its own requests that have not been refilled
    last        \* the last request and what became of it

avars == <<settings, phase, tools, bucket, owed, last>>

-----------------------------------------------------------------------------
(* Values *)

READ_TOOLS == {"search_candidates", "get_candidate", "search_jobs", "get_job_feed"}
WRITE_TOOLS == {"create_candidate"}
KNOWN_TOOLS == READ_TOOLS \cup WRITE_TOOLS

Unset == {"unset"}       \* JOBVITE_TOOLS absent or blank, which _empty_is_unset makes the same

Credentials == {"api_key", "api_secret", "feed_key", "feed_secret", "company_id"}

Scopes == {"candidates:read", "jobs:read", "feed:read"}
BlankScope == "blank"
Open == "open"           \* a tool that requires no scope

\* JOBVITE_HTTP_TOKENS.  A map that has a value other than a list of strings is
\* "not_lists"; in an "object", grants names every key with its scopes.
IsTokenMap(m) ==
    /\ m.form \in {"unset", "not_json", "not_object", "not_lists", "object"}
    /\ DOMAIN m.grants \subseteq Tokens \cup {BlankToken, Unencodable}
    /\ \A t \in DOMAIN m.grants : m.grants[t] \subseteq Scopes \cup {BlankScope, "other"}

\* valid: every field parses, and meets its own constraint (port, maxima, ...).
IsSettings(s) ==
    /\ {s.valid, s.writes, s.loopback, s.proxy} \subseteq BOOLEAN
    /\ s.names \subseteq KNOWN_TOOLS \cup {"unset", "unknown"}
    /\ "unset" \in s.names => s.names = Unset
    /\ s.present \subseteq Credentials
    /\ s.transport \in {"stdio", "http"}
    /\ IsTokenMap(s.map)

Callers == Tokens \cup {BlankToken, NoToken}

ASSUME AdmissionAssumption ==
    /\ Burst \in Nat \ {0}
    /\ \A s \in Deployments : IsSettings(s)
    /\ {BlankToken, NoToken, Unencodable} \cap Tokens = {}
    /\ BlankToken # NoToken /\ Unencodable \notin {BlankToken, NoToken}

-----------------------------------------------------------------------------
(* Settings, and validate_settings *)

\* Mutant: the flag alone enables the write.
EnabledByFlag(s) ==
    LET selected == IF s.names = Unset THEN KNOWN_TOOLS ELSE s.names \cap KNOWN_TOOLS
    IN  IF s.writes THEN selected ELSE selected \ WRITE_TOOLS

\* Settings.enabled_tools: both gates, and a write only if it is named.
EnabledTools(s) ==
    LET selected == IF s.names = Unset THEN READ_TOOLS ELSE s.names \cap KNOWN_TOOLS
    IN  IF s.writes THEN selected ELSE selected \ WRITE_TOOLS

\* Mutant: an unlisted tool needs nothing (missing_for's old .get(tool, ())).
RequiresByRead(tool) ==
    CASE tool = "get_job_feed" -> {"feed_key", "feed_secret", "company_id"}
      [] tool \in READ_TOOLS \ {"get_job_feed"} -> {"api_key", "api_secret"}
      [] OTHER -> {}

\* TOOL_REQUIREMENTS, which missing_for subscripts.
Requires(tool) ==
    IF tool = "get_job_feed" THEN {"feed_key", "feed_secret", "company_id"}
                             ELSE {"api_key", "api_secret"}

\* Mutant: only the values of the map are examined (R3-M1).
TokenMapByValues(m) ==
    \/ m.form \in {"not_json", "not_object", "not_lists"}
    \/ m.form = "object" /\ \/ DOMAIN m.grants = {}
                            \/ \E t \in DOMAIN m.grants : m.grants[t] = {} \/ BlankScope \in m.grants[t]

\* _token_map_problems has something to say.
TokenMapProblem(m) ==
    \/ m.form \in {"not_json", "not_object", "not_lists"}
    \/ m.form = "object" /\ \/ DOMAIN m.grants = {}
                            \/ BlankToken \in DOMAIN m.grants
                            \/ \E t \in DOMAIN m.grants : m.grants[t] = {} \/ BlankScope \in m.grants[t]

\* load_settings: the fields first, and then every reason validate_settings has.
Reasons(s) ==
    IF ~s.valid THEN {"field"}
    ELSE {r \in {"unknown_tool", "credentials", "tokens", "plaintext"} :
            CASE r = "unknown_tool" -> "unknown" \in s.names
              [] r = "credentials"  -> \E tool \in EnabledTools(s) : ~(Requires(tool) \subseteq s.present)
              [] r = "tokens"       -> s.transport = "http" /\ (s.map.form = "unset" \/ TokenMapProblem(s.map))
              [] r = "plaintext"    -> s.transport = "http" /\ ~s.loopback /\ ~s.proxy}

-----------------------------------------------------------------------------
(* build_server *)

\* TOOL_SCOPES; _assert_total refuses to import it with a tool missing.
TOOL_SCOPES == [t \in KNOWN_TOOLS |-> CASE t = "search_jobs"  -> "jobs:read"
                                        [] t = "get_job_feed" -> "feed:read"
                                        [] OTHER              -> "candidates:read"]

\* Mutant: the scopes are applied between the two registrations.
RegisteredScopedEarly(s) ==
    [t \in EnabledTools(s) |->
        IF s.transport = "http" /\ t \in {"search_jobs", "get_job_feed"} THEN TOOL_SCOPES[t] ELSE Open]

\* Mutant: a tool requires a scope of its own name.
RegisteredByName(s) == [t \in EnabledTools(s) |-> IF s.transport = "http" THEN t ELSE Open]

\* jobs.register and candidates.register, each tool behind its own gate, then
\* apply_tool_scopes over whatever they registered.
Registered(s) ==
    [t \in EnabledTools(s) |-> IF s.transport = "http" THEN TOOL_SCOPES[t] ELSE Open]

\* A token map that parses and holds a key token_client_id cannot encode.
Garbled(s) == s.transport = "http" /\ Unencodable \in DOMAIN s.map.grants

\* What build_token_verifier and the registrations raise a ValueError for,
\* trusting validate_settings to have refused it.  It does not look at whether a
\* token can be encoded, as token_client_id needs it to be.
BuildRaises(s) ==
    \/ Garbled(s)
    \/ s.transport = "http" /\ s.map.form \in {"unset", "not_json", "not_object"}
    \/ EnabledTools(s) \ {"get_job_feed"} # {}
       /\ ~({"api_key", "api_secret"} \subseteq s.present)
    \/ "get_job_feed" \in EnabledTools(s)
       /\ ~({"feed_key", "feed_secret", "company_id"} \subseteq s.present)

NoRequestYet == [caller |-> NoToken, ask |-> "none", verdict |-> "none", shown |-> {}, client |-> NoToken]

AInit ==
    /\ settings \in Deployments
    /\ phase = "boot"
    /\ tools = <<>>
    /\ bucket = [c \in Callers |-> Burst]
    /\ owed = [c \in Callers |-> 0]
    /\ last = NoRequestYet

Boot ==
    /\ phase = "boot"
    /\ phase' = IF Reasons(settings) # {} THEN "refused"
                ELSE IF BuildRaises(settings) THEN "raised" ELSE "serving"
    /\ tools' = IF phase' = "serving" THEN Registered(settings) ELSE tools
    /\ UNCHANGED <<settings, bucket, owed, last>>

-----------------------------------------------------------------------------
(* One request *)

\* The callers a transport has: stdio's has no token.
Present(c) == settings.transport = "stdio" => c = NoToken

\* StaticTokenVerifier, from build_token_verifier; none on stdio.
Verified(c) == settings.transport = "stdio" \/ c \in DOMAIN settings.map.grants

\* Mutant: the middleware's default, one bucket for everybody.
ClientGlobal(c) == NoToken

\* rate_limit_client_id: token_client_id of the caller's token, taken to be
\* injective, or "anonymous", which is NoToken here.
ClientId(c) == c

\* require_scopes on the tool: without it, or on stdio, anyone.
Authorised(c, t) == tools[t] = Open \/ (c \in DOMAIN settings.map.grants /\ tools[t] \in settings.map.grants[c])

\* The client id on the audit line of a call: audit_scope takes one, and no tool
\* gives it one.
AuditedClient(c) == NoToken

Answer(c, ask, verdict, shown) ==
    last' = [caller |-> c, ask |-> ask, verdict |-> verdict, shown |-> shown,
             client |-> IF verdict = "ran" THEN AuditedClient(c) ELSE NoToken]

\* Refused before any middleware: nothing is charged.
Stranger(c, ask) ==
    /\ phase = "serving" /\ Present(c) /\ ~Verified(c)
    /\ Answer(c, ask, "unauthorised", {})
    /\ UNCHANGED <<settings, phase, tools, bucket, owed>>

\* RateLimitingMiddleware over an empty bucket: an MCPError, and nothing charged.
Throttle(c, ask) ==
    /\ phase = "serving" /\ Present(c) /\ Verified(c)
    /\ bucket[ClientId(c)] = 0
    /\ Answer(c, ask, "throttled", {})
    /\ UNCHANGED <<settings, phase, tools, bucket, owed>>

Charge(c) ==
    /\ phase = "serving" /\ Present(c) /\ Verified(c)
    /\ bucket[ClientId(c)] > 0
    /\ bucket' = [bucket EXCEPT ![ClientId(c)] = @ - 1]
    /\ owed' = [owed EXCEPT ![c] = @ + 1]
    /\ UNCHANGED <<settings, phase, tools>>

\* tools/list, which the limiter counts too.
List(c) ==
    /\ Charge(c)
    /\ Answer(c, "list", "listed", {t \in DOMAIN tools : Authorised(c, t)})

\* tools/call: a tool the caller may not use is as unknown as one that is not there.
CallTool(c, t) ==
    /\ Charge(c)
    /\ Answer(c, t, IF t \in DOMAIN tools /\ Authorised(c, t) THEN "ran" ELSE "unknown_tool", {})

\* Time passes: every bucket regains a token, whether or not it is asked.
Refill ==
    /\ phase = "serving" /\ \E c \in Callers : bucket[c] < Burst
    /\ bucket' = [c \in Callers |-> IF bucket[c] < Burst THEN bucket[c] + 1 ELSE Burst]
    /\ owed' = [c \in Callers |-> IF owed[c] > 0 THEN owed[c] - 1 ELSE 0]
    /\ UNCHANGED <<settings, phase, tools, last>>

ANext ==
    \/ Boot
    \/ \E c \in Callers, ask \in KNOWN_TOOLS \cup {"list"} : Stranger(c, ask) \/ Throttle(c, ask)
    \/ \E c \in Callers : List(c)
    \/ \E c \in Callers, t \in KNOWN_TOOLS : CallTool(c, t)
    \/ Refill

ASpec == AInit /\ [][ANext]_avars

-----------------------------------------------------------------------------
(* Properties *)

ATypeOK ==
    /\ settings \in Deployments
    /\ phase \in {"boot", "refused", "raised", "serving"}
    /\ DOMAIN tools \subseteq KNOWN_TOOLS
    /\ \A t \in DOMAIN tools : tools[t] \in Scopes \cup {Open}
    /\ bucket \in [Callers -> 0..Burst]
    /\ owed \in [Callers -> 0..Burst]
    /\ last \in [caller  : Callers,
                 ask     : KNOWN_TOOLS \cup {"list", "none"},
                 verdict : {"none", "unauthorised", "throttled", "unknown_tool", "ran", "listed"},
                 shown   : SUBSET KNOWN_TOOLS,
                 client  : Callers]

(* What the operator said this caller may use, straight from docs/DESIGN.md 7.2
   and 7.3: a read unless the allow-list leaves it out, the write only if it is
   named and switched on; on HTTP only with the scope of the tool's data class. *)
DataClass(t) == CASE t \in {"search_candidates", "get_candidate", "create_candidate"} -> "candidates:read"
                  [] t = "search_jobs"  -> "jobs:read"
                  [] t = "get_job_feed" -> "feed:read"

Granted(c, t) ==
    /\ t \in settings.names \/ (t \in READ_TOOLS /\ settings.names = Unset)
    /\ t \in WRITE_TOOLS => settings.writes
    /\ settings.transport = "http" => /\ c \in Tokens
                                      /\ c \in DOMAIN settings.map.grants
                                      /\ DataClass(t) \in settings.map.grants[c]

(* A caller reaches a tool, and sees it listed, exactly when it was granted: the
   allow-list, the write switch, the registration order, the scopes and the
   token map agree although no one place checks all of them. *)
ReachedOnlyIfGranted ==
    /\ last.verdict = "ran" => Granted(last.caller, last.ask)
    /\ last.verdict = "unknown_tool" => ~Granted(last.caller, last.ask)
    /\ last.verdict = "listed" => last.shown = {t \in KNOWN_TOOLS : Granted(last.caller, t)}

(* What a deployment must not serve with (docs/DESIGN.md 7.2, 7.3). *)
Unsafe(s) ==
    \/ ~s.valid \/ "unknown" \in s.names
    \/ \E t \in KNOWN_TOOLS :
          /\ t \in s.names \/ (t \in READ_TOOLS /\ s.names = Unset)
          /\ t \in WRITE_TOOLS => s.writes
          /\ \E v \in Credentials \ s.present : (v \in {"api_key", "api_secret"}) <=> (t # "get_job_feed")
    \/ /\ s.transport = "http"
       /\ \/ ~s.loopback /\ ~s.proxy
          \/ s.map.form # "object"
          \/ ~\E t \in Tokens : t \in DOMAIN s.map.grants
          \/ \E t \in DOMAIN s.map.grants : t \notin Tokens \/ s.map.grants[t] \ {BlankScope} = {}
                                             \/ BlankScope \in s.map.grants[t]

(* The boot refuses what is unsafe and nothing else, nothing unsafe serves, and
   what is accepted can be built: the ValueErrors that build_token_verifier and
   the registrations keep for "validate_settings should have refused this" are
   not reached, but for a token that cannot be encoded. *)
BootRefusesUnsafe ==
    /\ phase = "refused" => Unsafe(settings)
    /\ phase = "serving" => ~Unsafe(settings)
    /\ phase = "raised" => Garbled(settings)

(* A caller is turned away for rate only for its own requests (docs/DESIGN.md
   4.4: one noisy integrator must not throttle everyone); strangers, who hold
   no token, spend nobody's bucket. *)
OwnBucketOnly == [][last'.verdict = "throttled" => owed[last'.caller] = Burst]_last

(* docs/DESIGN.md 5.3, on which client invoked the tool over HTTP: "That value is
   recorded in the audit event." *)
CallsAreAttributed ==
    last.verdict = "ran" /\ settings.transport = "http" => last.client = last.caller

=============================================================================
