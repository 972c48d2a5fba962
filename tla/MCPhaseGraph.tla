----------------------------- MODULE MCPhaseGraph -----------------------------
(***************************************************************************)
(* Pipelines of N phases with up to MaxLinks links of any kinds between    *)
(* any two of them, and odd pipelines: a phase linked to itself, a link to *)
(* a phase that is not there, two phases of one name.                      *)
(***************************************************************************)
EXTENDS PhaseGraph

CONSTANTS
    MaxLinks,    \* bound on the links of one pipeline
    Kinds        \* the kinds of links used

PhaseName == <<"A", "B", "C", "D">>
MCNode == 1..(2 * N)
MCName == {PhaseName[p] : p \in Phase} \cup {"Missing"}

Placed == [at : Phase, kind : Kinds, name : {PhaseName[p] : p \in Phase}]
Pipeline(names, ls) ==
    [p \in Phase |-> [name  |-> names[p],
                      links |-> {[kind |-> l.kind, name |-> l.name] :
                                    l \in {k \in ls : k.at = p}}]]

Selfish == {l \in Placed : l.name = PhaseName[l.at]}
Readable ==
    LET atMost[k \in 0..MaxLinks] ==
            IF k = 0 THEN {{}}
            ELSE LET fewer == atMost[k - 1]
                 IN  fewer \cup {ls \cup {l} : ls \in fewer, l \in Placed \ Selfish}
    IN  {Pipeline(PhaseName, ls) : ls \in atMost[MaxLinks]}
Odd ==
    {Pipeline(PhaseName, {[at |-> p, kind |-> k, name |-> "Missing"]}) : p \in Phase, k \in Kinds}
    \cup {Pipeline(PhaseName, {l, k}) : l \in Selfish, k \in Placed}
    \cup {Pipeline([PhaseName EXCEPT ![2] = "A"], {l}) : l \in Placed}

MCDeclarations == {d \in Readable \cup Odd : IsDeclaration(d)}
MCReadable == {d \in Readable : IsDeclaration(d)}
=============================================================================
