---------------------------- MODULE MCAdmission ----------------------------
(* Small instances of Admission for TLC. *)
EXTENDS Admission, TLC

V2 == {"api_key", "api_secret"}
Feed == {"feed_key", "feed_secret", "company_id"}

MCNames == {Unset, {}, {"get_job_feed"}, {"search_jobs", "get_candidate"}, {"create_candidate"},
            {"create_candidate", "search_candidates"}, {"search_jobs", "unknown"}, KNOWN_TOOLS}

MCPresent == {Credentials, V2, Feed, Credentials \ {"company_id"}}

MCGrants == {{"candidates:read"}, {"jobs:read", "feed:read"}, {"other"}, {}, {"jobs:read", BlankScope}}

MCMaps ==
    {[form |-> f, grants |-> <<>>] : f \in {"unset", "not_json", "not_object", "not_lists", "object"}}
    \cup {[form |-> "object", grants |-> g] : g \in UNION {[ts -> MCGrants] :
              ts \in {{t} : t \in Tokens} \cup {Tokens}}}
    \cup {[form |-> "object", grants |-> g] : g \in UNION {[{t} \cup Tokens -> {{"candidates:read"}}] :
              t \in {BlankToken, Unencodable}}}

OnStdio ==
    [valid : BOOLEAN, names : MCNames, writes : BOOLEAN, present : MCPresent, transport : {"stdio"},
     loopback : {TRUE}, proxy : {FALSE}, map : {[form |-> "unset", grants |-> <<>>]}]

OnHttp ==
    [valid : {TRUE}, names : MCNames \ {{"search_jobs", "unknown"}}, writes : BOOLEAN,
     present : {Credentials, V2}, transport : {"http"}, loopback : BOOLEAN, proxy : BOOLEAN,
     map : MCMaps]

MCDeployments == OnStdio \cup OnHttp

Interchangeable == Permutations(Tokens)

=============================================================================
