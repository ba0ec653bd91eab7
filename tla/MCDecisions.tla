---------------------------- MODULE MCDecisions ----------------------------
(* Small instances of Verdicts and Payloads for TLC.  The two machines share *)
(* no variable, so a behaviour runs one of them and leaves the other idle.   *)
EXTENDS Verdicts, Payloads, TLC

W == <<"w">>
\* A word, a delimiter in two spellings, one wrapped around another, a half.
MCTexts == {W, <<"w", "c1", "c2", "w">>, <<"C1", "c2">>, <<"c1", "c1", "c2", "c2", "w">>,
            <<"o1", "c1", "o2", "c2">>, <<"w", "c1">>}

Texts == {Str(x) : x \in MCTexts}
Bare == {Scalar("null"), Scalar("blank"), Scalar("int"), Dict([k |-> Str(W)]), List(<<Str(W)>>)}
Titled == Dict([title |-> Str(W)])

\* The function that has value p[2] at key p[1], for each pair of a set.
Optional(k, vs) == {<<>>} \cup {(k :> v) : v \in vs}

Dates == {Scalar(k) : k \in {"int", "huge", "bool"}}
Resumes == {Str(W), Dict([other |-> Str(W)])} \cup {Dict([content |-> v]) : v \in Texts \cup Bare}
Jobs == {Scalar("null"), Dict([title |-> Scalar("int")]),
         Dict([title |-> Str(<<"w", "c1", "c2", "w">>), other |-> Str(W)])}

Dated == Dict([sentDate |-> Scalar("int")])
Applications ==
    {Str(W), List(<<Dated, Str(W)>>)} \cup
    {Dict(d @@ r @@ j) : d \in Optional("sentDate", Dates \cup {Str(W)}),
                         r \in Optional("resume", Resumes), j \in Optional("job", Jobs)}

Employed == Dict([job |-> Titled])
MCRecords ==
    {Dict(e @@ t @@ n @@ a) : e \in Optional("eId", {Str(W), Scalar("int")}),
                              t \in Optional("title", Texts \cup Bare),
                              n \in Optional("gender", {Str(W), Titled}),
                              a \in Optional("application", {Str(W), Employed})}
    \cup {Dict([application |-> x]) : x \in Applications}

\* Objects of one and two keys, three levels deep.
Base == {Str(W), Scalar("int"), List(<<>>)}
Wider(S) == {List(<<x, y>>) : x, y \in S} \cup {List(<<x, Str(W), x>>) : x \in S}
            \cup {Dict(p @@ q) : p \in Optional("job_id", S), q \in Optional("email", S)}
Wide == Wider(Base)
Wrapped == {Dict([job_id |-> x]) : x \in Wide}
Deep == Wider(Wide)
MCArguments ==
    {Dict(p @@ q @@ r) : p \in Optional("ids", Base \cup Wide),
                         q \in Optional("blob", Wide \cup Wrapped),
                         r \in Optional("email", {Str(W)})}
    \cup {Dict([ids |-> x]) : x \in Deep}

MCStrings == STRING

\* Every value above and every value inside one, and how deep each nests.
MCTrees == Texts \cup Bare \cup Dates \cup Resumes \cup Jobs \cup Applications \cup MCRecords
          \cup {Titled, Dated, Employed}
          \cup Base \cup Wide \cup Wrapped \cup Deep \cup MCArguments

RECURSIVE MCDepth(_)
MCDepth(v) == LET below == {0} \cup {MCDepth(p) : p \in Parts(v)}
              IN  1 + (CHOOSE d \in below : \A e \in below : e <= d)

DInit == VInit /\ PInit

DNext == \/ task = "none" /\ VNext /\ UNCHANGED pvars
         \/ stage = "idle" /\ PNext /\ UNCHANGED vvars

DSpec == DInit /\ [][DNext]_<<vvars, pvars>>

=============================================================================
