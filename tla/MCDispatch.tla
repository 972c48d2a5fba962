----------------------------- MODULE MCDispatch -----------------------------
(***************************************************************************)
(* Programs with two or three classes and up to four definitions, over two *)
(* argument types of which X is a subtype of P: classes ahead of their     *)
(* parents or after them, inside a method or a class of another, abstract  *)
(* or not, with methods that are abstract, redefs, or both.                *)
(***************************************************************************)
EXTENDS Dispatch

CONSTANTS P, X, f, g,
          MaxDefs,     \* of a program with arguments of one type
          MaxRedefs    \* of a program

MCTypes == {P, X}
MCSubTypes == {<<X, P>>}

\* The classes, each declared before its parent or after it.
C(parent, abstract) == [parent |-> parent, abstract |-> abstract, method |-> 0, outer |-> 0]
Chain     == <<C(0, FALSE), C(1, FALSE), C(2, FALSE)>>
ChainBack == <<C(2, FALSE), C(3, FALSE), C(0, FALSE)>>
Fork      == <<C(2, FALSE), C(0, FALSE), C(2, FALSE)>>
Two       == <<C(0, FALSE), C(1, FALSE)>>
TwoAbstract == <<C(0, TRUE), C(1, FALSE)>>

\* The last class is declared in the first method, or is a member of a class.
Inside(classes, d) == [classes EXCEPT ![Len(classes)].method = d]
Within(classes, c) == [classes EXCEPT ![Len(classes)].outer = c]
Nested ==
    {Inside(s, 1) : s \in {Chain, Fork, Two}}
        \cup {Within(s, 1) : s \in {Chain, Fork}} \cup {Within(Chain, 2)}
        \cup {<<C(2, FALSE), C(0, FALSE), [C(1, FALSE) EXCEPT !.outer = 2]>>}
        \cup {<<C(0, FALSE), [C(0, FALSE) EXCEPT !.method = 1], [C(1, FALSE) EXCEPT !.outer = 2]>>}

Signature(args, ret) == [args |-> args, ret |-> ret]
One  == {Signature(<<P>>, P), Signature(<<X>>, P)}
OneR == {Signature(<<P>>, P), Signature(<<P>>, X), Signature(<<X>>, P)}
Both == {Signature(<<a, b>>, P) : a, b \in {P, X}}
Some == {Signature(<< >>, P), Signature(<<X>>, P)}

Kinds == {"plain", "redef"}
AllKinds == Kinds \cup {"abstract", "abstract redef"}
Define(id, owner, name, kind, signature) ==
    [id |-> id, owner |-> owner, name |-> name, args |-> signature.args, ret |-> signature.ret,
     redef |-> kind \in {"redef", "abstract redef"},
     abstract |-> kind \in {"abstract", "abstract redef"}]

\* A class inside a method is in a method of another class that has a body.
WellNested(p) ==
    \A c \in 1..Len(p.classes) : LET d == p.classes[c].method
        IN  d # 0 => d <= Len(p.defs) /\ p.defs[d].owner < c /\ ~ p.defs[d].abstract

\* All programs of n definitions over those classes, class by class.
ProgramsOf(shapes, n, names, kinds, signatures) ==
    {p \in {[classes |-> s,
             defs |-> [d \in 1..n |-> Define(d, o[d], m[d], k[d], t[d])]] :
        s \in shapes,
        o \in {h \in [1..n -> 1..Len(CHOOSE s \in shapes : TRUE)] :
                  \A d \in 1..(n - 1) : h[d] <= h[d + 1]},
        m \in [1..n -> names],
        k \in {h \in [1..n -> kinds] : Cardinality({d \in 1..n : h[d] = "redef"}) \in 1..MaxRedefs},
        t \in [1..n -> signatures]} : WellNested(p)}

\* (TLC is fast at the union of a set that it has sorted with another.)
MCPrograms ==
    ProgramsOf({Chain, ChainBack}, MaxDefs, {f}, Kinds, One)
    \cup (ProgramsOf({Two, TwoAbstract}, 3, {f}, AllKinds, Some)
    \cup (ProgramsOf({s \in Nested : Len(s) = 3}, 2, {f}, Kinds \cup {"abstract"}, One)
    \cup (ProgramsOf({Two, TwoAbstract}, 3, {f, g}, Kinds \cup {"abstract"}, {Signature(<<P>>, P)})
    \cup (ProgramsOf({Fork}, 3, {f}, Kinds, OneR)
    \cup (ProgramsOf({Two}, 3, {f}, Kinds, Both)
    \cup (ProgramsOf({Chain}, 3, {f}, AllKinds, {Signature(<<P>>, P)})
    \cup ProgramsOf({s \in Nested : Len(s) = 2}, 3, {f}, Kinds, One)))))))

\* An abstract class and one that extends it with a redef.
MCAbstractPrograms ==
    {p \in ProgramsOf({TwoAbstract}, 3, {f, g}, Kinds \cup {"abstract"}, {Signature(<<P>>, P)}) :
        \A d \in 1..3 : (p.defs[d].owner = 2) <=> p.defs[d].redef}
=============================================================================
