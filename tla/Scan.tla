-------------------------------- MODULE Scan --------------------------------
(***************************************************************************)
(* JobviteClient.scan: offset paging over a resource whose first offset    *)
(* nobody has established, whose records may lack an id, and which may     *)
(* change between two pages.  One request per page; what happens inside    *)
(* the request is Resilience's subject, and here it answers or raises.     *)
(*                                                                         *)
(* Jobvite is the catalog it would serve and the way it reads an offset.   *)
(* A record is its id; Blank is a record without one, and Junk an entry    *)
(* of the page that is not an object.                                      *)
(***************************************************************************)
EXTENDS Integers, FiniteSets, SequencesExt

CONSTANTS
    Ids, Blank, Junk,   \* the entries of a page
    MaxRecords,         \* bound: entries of the catalog
    MaxDrift,           \* bound: changes of the catalog during the scan
    MaxPages,           \* bound: requests of one scan
    Ceiling,            \* MAX_SCAN_RECORDS
    Caps,               \* result_cap: what min(transport cap, configured cap) may be
    Limits, NoLimit     \* what the caller may pass

ASSUME ScanAssumption ==
    /\ Caps \subseteq Nat \ {0}
    /\ Ceiling \in Nat \ {0}
    /\ Limits \subseteq Int \cup {NoLimit}
    /\ MaxRecords \in Nat /\ MaxDrift \in Nat /\ MaxPages \in Nat

VARIABLES
    catalog,   \* Jobvite's records, in the order it serves them
    drift,     \* how often the catalog has changed since the scan began
    server,    \* its base and the total it reports
    ask,       \* the caller's limit, the client's cap, the declared base
    start,     \* offset of the next request
    items,     \* records kept
    pages,     \* requests answered
    total,     \* the last integer total reported
    stop,      \* why the loop ended, or "none"
    result     \* the ScanResult

svars == <<catalog, drift, server, ask, start, items, pages, total, stop, result>>

-----------------------------------------------------------------------------
(* Jobvite *)

Catalogs == UNION {[1..n -> Ids \cup {Blank, Junk}] : n \in 0..MaxRecords}

\* 0-based; 1-based with 0 clamped to 1; or ignoring start altogether.
Bases == {"zero", "one", "stuck"}

\* The whole result set's size, no integer, or a wrong one.
Totals == {"true", "absent", "wrong"}
Unreported == -1

FirstServed(from) == CASE server.base = "zero"  -> from + 1
                       [] server.base = "one"   -> IF from = 0 THEN 1 ELSE from
                       [] server.base = "stuck" -> 1

Served(from, count) ==
    LET first == FirstServed(from)
        last  == first + count - 1
    IN  SubSeq(catalog, first, IF last < Len(catalog) THEN last ELSE Len(catalog))

ReportedTotal == CASE server.total = "true"   -> Len(catalog)
                   [] server.total = "absent" -> total
                   [] server.total = "wrong"  -> Len(catalog) + 1

\* Records come and go while the scan is between two pages.
Drift ==
    /\ stop = "none" /\ drift < MaxDrift
    /\ drift' = drift + 1
    /\ \/ \E k \in DOMAIN catalog : catalog' = RemoveAt(catalog, k)
       \/ /\ Len(catalog) < MaxRecords
          /\ \E k \in 1..(Len(catalog) + 1), r \in Ids \cup {Blank} : catalog' = InsertAt(catalog, k, r)
    /\ UNCHANGED <<server, ask, start, items, pages, total, stop, result>>

-----------------------------------------------------------------------------
(* scan *)

Exhaustive == ask.limit = NoLimit

EffectiveLimit == IF Exhaustive \/ ask.limit > ask.cap THEN ask.cap ELSE ask.limit

\* The page size on the wire.
Count == IF EffectiveLimit < 1 THEN 1 ELSE EffectiveLimit

\* Mutant: the vendor's 1-based claim as the default.
ScanStartOne(declared) == 1

\* scan_start: SCAN_START unless the operator has declared the resource's base.
ScanStart(declared) == IF declared = "one" THEN 1 ELSE 0

NoResult == [items |-> <<>>, capped |-> FALSE, incomplete |-> FALSE]

SInit ==
    /\ catalog \in Catalogs
    /\ drift = 0
    /\ server \in [base : Bases, total : Totals]
    /\ ask \in [limit : Limits, cap : Caps, declared : {"none", "one"}]
    /\ start = ScanStart(ask.declared)
    /\ items = <<>>
    /\ pages = 0
    /\ total = Unreported
    /\ stop = "none"
    /\ result = NoResult

-----------------------------------------------------------------------------
(* _scan_pages *)

\* Mutant: the page is taken as it came.
PageRaw(from, count) == Served(from, count)

\* The positions of a set, in their order.
InOrder(S) == CHOOSE f \in [1..Cardinality(S) -> S] : \A j, k \in DOMAIN f : j < k => f[j] < f[k]

\* The entries of a page at these positions.
Entries(page, S) == [k \in 1..Cardinality(S) |-> page[InOrder(S)[k]]]

\* The objects of the page; anything else in the list is passed over.
Page(from, count) ==
    LET raw == Served(from, count)
    IN  Entries(raw, {k \in DOMAIN raw : raw[k] # Junk})

\* Mutant: the seen set is rebuilt for each page.
KeepPerPage(kept, page) ==
    kept \o Entries(page, {k \in DOMAIN page :
                             page[k] = Blank \/ \A j \in 1..(k - 1) : page[j] # page[k]})

\* Where the page has a record to keep: one without an id, always, and an id
\* that is not in the seen set when its turn comes.
New(kept, page) ==
    {k \in DOMAIN page :
        page[k] = Blank \/ (page[k] \notin ToSet(kept) /\ \A j \in 1..(k - 1) : page[j] # page[k])}

Keep(kept, page) == kept \o Entries(page, New(kept, page))

\* Mutant: ADR-0024's zero-progress break is missing.
StopReasonNoStall(n, before, after) ==
    IF n < Count THEN "short_page"
    ELSE IF ~Exhaustive /\ after >= EffectiveLimit THEN "capped"
    ELSE IF after >= Ceiling THEN "ceiling" ELSE "none"

\* The loop's exits, in the order they are tried: a page of n records took
\* the records kept from before to after.
StopReason(n, before, after) ==
    IF n < Count THEN "short_page"
    ELSE IF ~Exhaustive /\ after >= EffectiveLimit THEN "capped"
    ELSE IF after = before THEN "stalled"
    ELSE IF after >= Ceiling THEN "ceiling" ELSE "none"

\* Mutant: no truncation after the loop.
TruncateNot(s) == s

\* items[:effective_limit], a negative one included.
Truncate(s) ==
    IF Exhaustive \/ Len(s) <= EffectiveLimit THEN s
    ELSE IF EffectiveLimit >= 0 THEN SubSeq(s, 1, EffectiveLimit)
    ELSE SubSeq(s, 1, Len(s) + EffectiveLimit)

\* Mutant: only the comparison with total makes a result incomplete.
IncompleteByTotalOnly(reason, unique, reported) ==
    Exhaustive /\ reason = "short_page" /\ reported # Unreported /\ unique # reported

\* _check_completeness, or either of the two bounds.
Incomplete(reason, unique, reported) ==
    \/ Exhaustive /\ reason = "short_page" /\ reported # Unreported /\ unique # reported
    \/ reason \in {"stalled", "ceiling"}

\* One turn of the loop, with all that follows it when it is the last.
NextPage ==
    /\ stop = "none" /\ pages < MaxPages
    /\ LET page   == Page(start, Count)
           kept   == Keep(items, page)
           reason == StopReason(Len(page), Len(items), Len(kept))
       IN  /\ pages' = pages + 1
           /\ total' = ReportedTotal
           /\ items' = kept
           /\ stop' = reason
           /\ start' = IF reason = "none" THEN start + Count ELSE start
           /\ result' = IF reason = "none" THEN result
                        ELSE [items      |-> Truncate(kept),
                              capped     |-> \/ reason = "capped"
                                             \/ ~Exhaustive /\ Len(kept) > EffectiveLimit,
                              incomplete |-> Incomplete(reason, Len(kept), total')]
    /\ UNCHANGED <<catalog, drift, server, ask>>

\* request raises: the scan does too, and what it has kept is lost.
RequestRaises ==
    /\ stop = "none"
    /\ stop' = "raised"
    /\ UNCHANGED <<catalog, drift, server, ask, start, items, pages, total, result>>

SNext == NextPage \/ RequestRaises \/ Drift

SSpec == SInit /\ [][SNext]_svars

-----------------------------------------------------------------------------
(* Properties *)

Records(s) == ToSet(s) \ {Junk}

\* Nothing changed, and every id is listed once.
Stable == drift = 0 /\ \A j, k \in DOMAIN catalog : catalog[j] = catalog[k] /\ j # k => catalog[j] = Blank

\* The base the scan starts at is one this server answers from its first record.
BaseKnown == server.base = "one" \/ (server.base = "zero" /\ ask.declared = "none")

Returned == stop \notin {"none", "raised"}

\* Every variable stays within its type, and the result within what was kept.
STypeOK ==
    /\ catalog \in Catalogs
    /\ drift \in 0..MaxDrift
    /\ server \in [base : Bases, total : Totals]
    /\ ask \in [limit : Limits, cap : Caps, declared : {"none", "one"}]
    /\ start \in Nat
    /\ pages \in 0..MaxPages
    /\ items \in Seq(Ids \cup {Blank})
    /\ total \in Nat \cup {Unreported}
    /\ stop \in {"none", "short_page", "capped", "stalled", "ceiling", "raised"}
    /\ result \in [items : Seq(Ids \cup {Blank}), capped : BOOLEAN, incomplete : BOOLEAN]
    /\ ToSet(result.items) \subseteq ToSet(items)

\* ADR-0024: whatever the server does (ignore start, repeat records without
\* ids, grow under the scan, misreport its total), a scan makes no more
\* requests than the ceiling has records, and holds no more than one page
\* above the ceiling.
WorkBounded ==
    /\ pages <= Ceiling
    /\ stop = "none" => pages <= Len(items)
    /\ Len(items) < Ceiling + Count

\* An exhaustive scan that is not marked incomplete has every record, as long
\* as the server's total is true and the catalog held still: entries that end
\* a page early, a declared base that is wrong, a server that repeats itself
\* and a record counted twice never cancel out.
NoSilentLoss ==
    Returned /\ Exhaustive /\ drift = 0 /\ server.total = "true" /\ ~result.incomplete
        => Records(catalog) \subseteq ToSet(result.items)

\* DESIGN 4.5: starting at 0 is gap-free on a 0-based server and on a 1-based
\* one that clamps, for pages of two records and more: the scan reaches the
\* last page, whatever the total says, and stalls on neither.
GapFree ==
    Returned /\ Exhaustive /\ Stable /\ BaseKnown /\ Junk \notin ToSet(catalog)
             /\ Count > 1 /\ stop # "ceiling"
        => stop = "short_page" /\ ToSet(result.items) = ToSet(catalog)

\* No identified record is returned twice, though pages overlap and records
\* move from one page to the next while the scan runs.
NoIdTwice ==
    \A j, k \in DOMAIN result.items :
        j # k /\ result.items[j] = result.items[k] => result.items[j] = Blank

\* A bounded call returns at most what was asked for, and when it neither
\* says it was cut nor that it is incomplete, it is the whole resource.
CappedOrWhole ==
    Returned /\ ~Exhaustive =>
        /\ Len(result.items) <= IF EffectiveLimit < 0 THEN 0 ELSE EffectiveLimit
        /\ ~result.capped /\ ~result.incomplete /\ Stable /\ BaseKnown /\ Junk \notin ToSet(catalog)
              => ToSet(result.items) = ToSet(catalog)

\* The comment on the paging constants: gap-free under both hypotheses, "and
\* NO record is skipped".  GapFree without its condition on the page size,
\* which a configured cap of 1 makes a legal one.
GapFreeAtEveryPageSize ==
    Returned /\ Exhaustive /\ Stable /\ BaseKnown /\ Junk \notin ToSet(catalog)
             /\ stop # "ceiling"
        => ToSet(result.items) = ToSet(catalog)

=============================================================================
