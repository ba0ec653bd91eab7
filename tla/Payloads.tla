------------------------------ MODULE Payloads ------------------------------
(***************************************************************************)
(* What is kept of a payload on its way through the server, in the two     *)
(* directions.  A Jobvite candidate record is fenced path by path          *)
(* (utils/redaction.py, decisions generated by models/fencing.py) and      *)
(* mapped onto the output model (tools/candidates.py).  A tool's arguments *)
(* are measured (utils/constraints.py) and redacted for the audit record.  *)
(* All of them walk a JSON value recursively, and each walk has to decide  *)
(* on the path it has come down, never on the name of a key alone.         *)
(*                                                                         *)
(* The registry here has the shape of CANDIDATE_FENCING_PATHS with fewer   *)
(* fields: a title at two depths, with opposite decisions, the résumé      *)
(* body, a date, an identifier.  Its paths hold no wildcard, and none of   *)
(* the shipped ones does.                                                  *)
(***************************************************************************)
EXTENDS FiniteSets, Naturals, Sequences, SequencesExt

CONSTANTS
    Strings,         \* the names of JSON objects and the pieces of its texts
    Trees,           \* what json.loads may return, and every value inside it
    Depth(_),        \* how deep a JSON value nests, a scalar 1
    RecursionLimit,  \* json.loads raises RecursionError on a deeper text
    Records,         \* candidate records Jobvite may send
    Arguments,       \* raw arguments a caller may send
    MaxNesting,      \* MAX_NESTING_DEPTH
    MaxItems,        \* MAX_LIST_ITEMS
    MaxKeys          \* MAX_DICT_KEYS

VARIABLES
    task,     \* "none", "record" or "arguments"
    input,    \* the JSON value the walk starts from
    output    \* what came of it

pvars == <<task, input, output>>

-----------------------------------------------------------------------------
(* JSON values *)

\* A text is a sequence of pieces.  The two delimiters are two pieces long, a
\* capital is the same piece in another case; "w" stands for everything else.
Str(text) == [kind |-> "str", text |-> text]
Scalar(k) == [kind |-> k]          \* "null", "blank", "int", "huge" or "bool"
Dict(fields) == [kind |-> "dict", fields |-> fields]
List(items) == [kind |-> "list", items |-> items]

Undone == Scalar("none")
Refused == Scalar("refused")       \* a ValidationError before the tool body
Failed == Scalar("failed")         \* an exception in the tool body

Container(v) == v.kind \in {"dict", "list"}

\* The values directly inside v.
Parts(v) == CASE v.kind = "dict" -> {v.fields[k] : k \in DOMAIN v.fields}
              [] v.kind = "list" -> {v.items[j] : j \in DOMAIN v.items}
              [] OTHER           -> {}

Json == {v \in Trees : v.kind \in {"null", "blank", "int", "huge", "bool", "str", "dict", "list"}}
Objects == {v \in Json : v.kind = "dict"}

-----------------------------------------------------------------------------
(* Fencing decisions: fencing_paths over the output models *)

Leaf(decision) == [decision |-> decision, model |-> "none"]
Nested(model) == [decision |-> "not_free_text", model |-> model]

JobModel == [title |-> Leaf("not_free_text")]
ResumeModel == [content |-> Leaf("fence")]
ApplicationModel == [sentDate |-> Leaf("not_free_text"),
                     resume   |-> Nested("CandidateResume"),
                     job      |-> Nested("CandidateJob")]
CandidateModel == [eId         |-> Leaf("not_free_text"),
                   title       |-> Leaf("fence"),
                   application |-> Nested("CandidateApplication")]

Models == [CandidateJob         |-> JobModel,
           CandidateResume      |-> ResumeModel,
           CandidateApplication |-> ApplicationModel,
           Candidate            |-> CandidateModel]

\* A JSON path: a name for each object on the way, "[]" for each list.
Paths == Seq(Strings)

\* What json.loads returns is a tree, and not a deep one.
ASSUME PayloadsAssumption ==
    /\ \A v \in Json : /\ v.kind = "str" => v.text \in Seq(Strings)
                       /\ v.kind = "dict" => DOMAIN v.fields \subseteq Strings
                       /\ Depth(v) \in 1..RecursionLimit
                       /\ \A p \in Parts(v) : p \in Json /\ Depth(p) < Depth(v)
    /\ RecursionLimit \in Nat
    /\ Records \subseteq Objects
    /\ Arguments \subseteq Objects
    /\ MaxNesting \in Nat
    /\ {"candidates", "[]"} \cup UNION {DOMAIN Models[m] : m \in DOMAIN Models} \subseteq Strings

\* The paths of a model, given those of the models nested in it: every field
\* gets one.
PathsOfModel(m, prefix, paths) ==
    UNION {LET at == Append(prefix, f)
               field == Models[m][f]
           IN  {<<at, field.decision>>}
               \cup IF field.model = "none" THEN {} ELSE paths[field.model][at] :
           f \in DOMAIN Models[m]}

FencingPaths(model, prefix) ==
    LET paths[m \in DOMAIN Models] == [at \in Paths |-> PathsOfModel(m, at, paths)]
    IN  paths[model][prefix]

CANDIDATE_FENCING_PATHS == FencingPaths("Candidate", <<"candidates", "[]">>)

\* Mutant: the registry is keyed by the last name of the path.
LookupByName(path) ==
    {d \in {"fence", "not_free_text"} :
        \E r \in CANDIDATE_FENCING_PATHS : Last(r[1]) = Last(path) /\ r[2] = d}

\* _lookup: no decision, or the one of this path.
Lookup(path) == {d \in {"fence", "not_free_text"} : <<path, d>> \in CANDIDATE_FENCING_PATHS}

-----------------------------------------------------------------------------
(* fence_text and fence_payload *)

FENCE_OPEN == <<"o1", "o2">>
FENCE_CLOSE == <<"c1", "c2">>
FENCE_STRIPPED == <<"[stripped]">>

\* _FENCE_TOKENS, matched without regard to case.
TokenAt(t, j) ==
    /\ j \in 1..(Len(t) - 1)
    /\ <<t[j], t[j + 1]>> \in ({"o1", "O1"} \X {"o2", "O2"}) \cup ({"c1", "C1"} \X {"c2", "C2"})

\* The text with every delimiter in it replaced, in one pass.
Stripped(t, by) ==
    FlattenSeq([j \in DOMAIN t |-> IF TokenAt(t, j) THEN by
                                   ELSE IF TokenAt(t, j - 1) THEN <<>> ELSE <<t[j]>>])

\* Mutant: a stripped delimiter leaves nothing behind.
FenceTextSilently(t) == FENCE_OPEN \o <<"nl">> \o Stripped(t, <<>>) \o <<"nl">> \o FENCE_CLOSE

\* Strip first, then wrap.
FenceText(t) ==
    FENCE_OPEN \o <<"nl">> \o Stripped(t, FENCE_STRIPPED) \o <<"nl">> \o FENCE_CLOSE

\* Which fields of an object survive: the path is registered, the value is no
\* absence (blank_to_none), and one to be fenced is a string.
Admitted(v, path) ==
    /\ Lookup(path) # {}
    /\ Container(v) \/ (/\ v.kind \notin {"null", "blank"}
                        /\ "fence" \in Lookup(path) => v.kind = "str")

\* Which elements of a list survive: an object is walked whatever the path, and
\* anything else, a nested list included, needs a decision of the element path.
AdmittedElement(v, path) ==
    \/ v.kind = "dict"
    \/ Lookup(path) # {} /\ ("fence" \in Lookup(path) => v.kind \in {"str", "blank"})

Text(v) == IF v.kind = "str" THEN v.text ELSE <<>>

\* What becomes of one object of a payload, given what becomes of the objects
\* inside it: fence[v][path] is for object v found at path.
FenceObject(object, prefix, fence) ==
    LET Fenced(v, path) == IF v.kind = "dict" THEN Dict(fence[v][path])
                           ELSE IF "fence" \in Lookup(path) THEN Str(FenceText(Text(v)))
                           ELSE v
        Element(v, path) == IF AdmittedElement(v, path) THEN Fenced(v, path) ELSE Undone
        FenceList(items, path) == SelectSeq([j \in DOMAIN items |-> Element(items[j], path)],
                                            LAMBDA v : v # Undone)
        Field(v, path) == IF v.kind = "list" THEN List(FenceList(v.items, Append(path, "[]")))
                          ELSE Fenced(v, path)
        kept == {k \in DOMAIN object.fields : Admitted(object.fields[k], Append(prefix, k))}
    IN  [k \in kept |-> Field(object.fields[k], Append(prefix, k))]

FencePayload(payload, prefix) ==
    LET fence[v \in Objects] == [path \in Paths |-> FenceObject(v, path, fence)]
    IN  fence[payload][prefix]

-----------------------------------------------------------------------------
(* to_candidate *)

Get(fields, k) == IF k \in DOMAIN fields THEN fields[k] ELSE Scalar("null")

\* The fields of an object, and of anything else none: the tool maps it to None.
Fields(v) == IF v.kind = "dict" THEN v.fields ELSE <<>>

\* epoch_ms_to_date after _int_or_none: an integer is a date, or out of range.
Date(v) == CASE v.kind = "int" -> Scalar("date") [] v.kind = "huge" -> Failed
             [] OTHER -> Scalar("null")

\* Each key is named; the strict models refuse any value that is no string.
ToCandidate(raw) ==
    LET fenced == FencePayload(raw, <<"candidates", "[]">>)
        application == Fields(Get(fenced, "application"))
        values == [eId |-> Get(fenced, "eId"), title |-> Get(fenced, "title"),
                   sentDate |-> Date(Get(application, "sentDate")),
                   content  |-> Get(Fields(Get(application, "resume")), "content"),
                   jobTitle |-> Get(Fields(Get(application, "job")), "title")]
    IN  IF \E a \in DOMAIN values : values[a].kind \notin {"str", "date", "null"} THEN Failed
        ELSE Dict(values)

-----------------------------------------------------------------------------
(* check_structural_limits and redact_arguments *)

\* The limits on one value, a scalar being a level of its own.
WithinLimits(v, depth) ==
    /\ depth <= MaxNesting
    /\ v.kind = "dict" => Cardinality(DOMAIN v.fields) <= MaxKeys
    /\ v.kind = "list" => Len(v.items) <= MaxItems

\* Mutant: the level below is measured as if it were this one.
MeasuredOneLevel(value, depth) ==
    LET measured[v \in Json] ==
            [d \in Nat |-> WithinLimits(v, d) /\ \A p \in Parts(v) : measured[p][d]]
    IN  measured[value][depth]

\* _measure
Measured(value, depth) ==
    LET measured[v \in Json] ==
            [d \in Nat |-> WithinLimits(v, d) /\ \A p \in Parts(v) : measured[p][d + 1]]
    IN  measured[value][depth]

NON_SENSITIVE_ARGUMENT_KEYS == {"job_id", "ids"}

\* _redacted_value names the type and nothing else.
RedactedValue(v) == [kind |-> "redacted", of |-> v.kind]

\* Mutant: containers are walked whatever their key.
RedactArgumentsByLeaf(arguments) ==
    LET redact[v \in Json] ==
            CASE v.kind = "dict" ->
                    Dict([k \in DOMAIN v.fields |->
                            IF k \in NON_SENSITIVE_ARGUMENT_KEYS \/ Container(v.fields[k])
                            THEN redact[v.fields[k]] ELSE RedactedValue(v.fields[k])])
              [] v.kind = "list" -> List([j \in DOMAIN v.items |-> redact[v.items[j]]])
              [] OTHER           -> v
    IN  redact[arguments]

\* What is shown of one value, given what is shown of the values inside it.
RedactOne(v, redact) ==
    CASE v.kind = "dict" ->
            Dict([k \in DOMAIN v.fields |->
                    IF k \in NON_SENSITIVE_ARGUMENT_KEYS
                    THEN redact[v.fields[k]] ELSE RedactedValue(v.fields[k])])
      [] v.kind = "list" -> List([j \in DOMAIN v.items |-> redact[v.items[j]]])
      [] OTHER           -> v

RedactArguments(arguments) ==
    LET redact[v \in Json] == RedactOne(v, redact)
    IN  redact[arguments]

-----------------------------------------------------------------------------
(* The two walks *)

PInit == task = "none" /\ input = Undone /\ output = Undone

\* A record of a successful read is mapped onto the model.
MapRecord ==
    /\ task = "none"
    /\ task' = "record"
    /\ input' \in Records
    /\ output' = ToCandidate(input')

\* The arguments of a call are measured, then redacted for its audit record.
RecordCall ==
    /\ task = "none"
    /\ task' = "arguments"
    /\ input' \in Arguments
    /\ output' = IF Measured(input', 1) THEN RedactArguments(input') ELSE Refused

PNext == MapRecord \/ RecordCall

PSpec == PInit /\ [][PNext]_pvars

-----------------------------------------------------------------------------
(* Properties *)

\* What the record holds for each attribute of a Candidate; nothing is a null.
At(v, k) == Get(Fields(v), k)
Source == [eId      |-> At(input, "eId"),
           title    |-> At(input, "title"),
           sentDate |-> At(At(input, "application"), "sentDate"),
           content  |-> At(At(At(input, "application"), "resume"), "content"),
           jobTitle |-> At(At(At(input, "application"), "job"), "title")]

\* The attributes a candidate types.
Typed == {"title", "content"}

\* A value that the strict model, or the calendar, refuses.
Mistyped(a) ==
    LET v == Source[a]
    IN  IF a = "sentDate" THEN v.kind = "huge"
        ELSE IF a \in Typed THEN Container(v)
        ELSE v.kind \notin {"str", "null", "blank"}

Words(t) == {j \in DOMAIN t : t[j] = "w"}

\* The text behind one delimiter and before one, with none in between in any
\* spelling and no word lost.
Encloses(t, text) ==
    /\ <<t[1], t[2]>> = FENCE_OPEN
    /\ <<t[Len(t) - 1], t[Len(t)]>> = FENCE_CLOSE
    /\ {j \in DOMAIN t : TokenAt(t, j)} = {1, Len(t) - 1}
    /\ Cardinality(Words(t)) = Cardinality(Words(text))

\* DESIGN 6.1: what a candidate typed reaches a tool result fenced, whatever it
\* holds, and cannot close its own fence; what the operator's side wrote is
\* passed on as it came, though it bears the same name one level down; an
\* absence stays one, and what cannot be fenced becomes one.  A field nobody
\* registered neither leaves nor takes the call down.
FencedByPath ==
    task = "record" =>
        IF \E a \in DOMAIN Source : Mistyped(a) THEN output = Failed
        ELSE /\ output # Failed
             /\ \A a \in DOMAIN Source :
                   LET v == Source[a]
                       shown == output.fields[a]
                   IN  CASE a = "sentDate" /\ v.kind = "int" -> shown = Scalar("date")
                         [] a # "sentDate" /\ v.kind = "str" ->
                               IF a \in Typed
                               THEN shown.kind = "str" /\ Encloses(shown.text, v.text)
                               ELSE shown = v
                         [] OTHER -> shown = Scalar("null")

\* What is directly under a value, with the names on the way down to it.
Under(w) ==
    CASE w.value.kind = "dict" ->
            {[names |-> w.names \cup {k}, value |-> w.value.fields[k]] : k \in DOMAIN w.value.fields}
      [] w.value.kind = "list" ->
            {[names |-> w.names, value |-> w.value.items[j]] : j \in DOMAIN w.value.items}
      [] OTHER -> {}

\* What is n levels below a value.
Reached(v, n) ==
    LET level[m \in 0..n] == IF m = 0 THEN {[names |-> {}, value |-> v]}
                             ELSE UNION {Under(w) : w \in level[m - 1]}
    IN  level[n]

\* DESIGN 5.3: an audit record tells which arguments a call had, and shows a
\* value only when every name on the way down to it is allowed; what it was
\* given is nowhere deeper than the limit.
RecordShowsOnlyAllowed ==
    task = "arguments" /\ output # Refused =>
        /\ DOMAIN output.fields = DOMAIN input.fields
        /\ \A n \in 0..MaxNesting : \A w \in Reached(output, n) :
              w.value.kind # "redacted" => w.names \subseteq NON_SENSITIVE_ARGUMENT_KEYS
        /\ Reached(input, MaxNesting) = {}
        /\ Reached(output, MaxNesting) = {}

=============================================================================
