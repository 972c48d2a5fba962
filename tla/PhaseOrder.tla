------------------------------ MODULE PhaseOrder ------------------------------
(***************************************************************************)
(* What phases declare about the order they run in                         *)
(* (include/api/Phase.h: runsRightAfter, runsRightBefore, runsAfter,       *)
(* runsBefore), and what an order that satisfies the declarations is, the  *)
(* way checkExecutionOrder of tests/PhaseGraphTests.cpp tests it.          *)
(*                                                                         *)
(* A pipeline is a function d from its phases to what each declares: a     *)
(* name and a set of links [kind, name].                                   *)
(***************************************************************************)
EXTENDS Naturals, Sequences, FiniteSets

CONSTANT Name            \* the names phases have or refer to

HardKind == {"rightAfter", "rightBefore"}
SoftKind == {"after", "before"}
Link == [kind : HardKind \cup SoftKind, name : Name]

\* runsRightAfter and runsRightBefore return one name each (or none).
IsDeclaration(d) ==
    \A p \in DOMAIN d :
        /\ DOMAIN d[p] = {"name", "links"}
        /\ d[p].name \in Name
        /\ d[p].links \subseteq Link
        /\ \A k, l \in d[p].links : k.kind = l.kind /\ k.kind \in HardKind => k = l

----------------------------------------------------------------------------
\* Somewhere at the positions P of the order s a phase named nm runs.
RunsAt(d, s, nm, P) == \E j \in P \cap 1..Len(s) : d[s[j]].name = nm

LinkHolds(d, s, i, l) ==
    CASE l.kind = "rightAfter"  -> RunsAt(d, s, l.name, {i - 1})
      [] l.kind = "rightBefore" -> RunsAt(d, s, l.name, {i + 1})
      [] l.kind = "after"       -> RunsAt(d, s, l.name, 1..(i - 1))
      [] l.kind = "before"      -> RunsAt(d, s, l.name, (i + 1)..Len(s))

(* checkExecutionOrder: as many phases come out as went in, and each of    *)
(* them finds what it declared at the places it declared.                  *)
ValidOrder(d, s) ==
    /\ Len(s) = Cardinality(DOMAIN d)
    /\ \A i \in 1..Len(s) : \A l \in d[s[i]].links : LinkHolds(d, s, i, l)

\* Nothing p or the last phase of s declares keeps p from running next.
MayFollow(d, s, p) ==
    /\ \A i \in 1..Len(s) : s[i] # p
    /\ \A l \in d[p].links :
          /\ l.kind = "after" => RunsAt(d, s, l.name, 1..Len(s))
          /\ l.kind = "rightAfter" => RunsAt(d, s, l.name, {Len(s)})
    /\ s # << >> => \A l \in d[s[Len(s)]].links : l.kind = "rightBefore" => l.name = d[p].name

\* The orders in which the declared phases can run, each exactly once,
\* built from the front.
ValidOrders(d) ==
    LET first[k \in 0..Cardinality(DOMAIN d)] ==
            IF k = 0 THEN {<< >>}
            ELSE UNION {{Append(s, p) : p \in {q \in DOMAIN d : MayFollow(d, s, q)}} : s \in first[k - 1]}
    IN  {s \in first[Cardinality(DOMAIN d)] : ValidOrder(d, s)}
=============================================================================
