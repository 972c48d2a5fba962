------------------------------- MODULE MCTyping -------------------------------
(***************************************************************************)
(* Small programs over two classes P and X : P and a few generic classes,  *)
(* in four families: inheritance and variance, bounds, the bodies of       *)
(* methods, redefinitions.                                                 *)
(***************************************************************************)
EXTENDS Typing

App(n, args) == [name |-> n, args |-> args]
Kind(lower, upper) == [is |-> "proper", lower |-> lower, upper |-> upper]
Free == Kind(<< >>, << >>)
Param(variance, kind) == [variance |-> variance, kind |-> kind]
Class(params, parent) == [params |-> params, parent |-> parent]
Generic(params, class) == [params |-> params, outer |-> << >>, body |-> Name(class)]

P == Name("P")
X == Name("X")
Plain == [c \in {"unit", "bool", "P", "X"} |-> Class(<< >>, IF c = "X" THEN <<P>> ELSE << >>)]
Boxes == "Box." :> Class(<<"V">>, << >>)
Box(t) == App("Box", <<t>>)

Program(family, classes, constructors, params, order) ==
    [family |-> family, classes |-> classes @@ Plain, constructors |-> constructors,
     params |-> params, aliases |-> NoEnv, members |-> NoEnv, redefs |-> << >>, order |-> <<"unit", "bool">> \o order]

-----------------------------------------------------------------------------
(* A[T] and B[U] : A[...], with any variance and in any order. *)

A(t) == App("A", <<t>>)
B(t) == App("B", <<t>>)
U == Name("U")
Orders == {<<"P", "X", "T", "A.", "U", "B.", "V", "Box.">>, <<"X", "P", "U", "B.", "T", "A.", "V", "Box.">>,
           <<"U", "B.", "P", "X", "V", "Box.", "T", "A.">>}
Inheriting ==
    {Program("inheritance",
             "A." :> Class(<<"T">>, << >>) @@ "B." :> Class(<<"U">>, <<A(arg)>>) @@ Boxes,
             "A" :> Generic(<<"T">>, "A.") @@ "B" :> Generic(<<"U">>, "B.") @@ "Box" :> Generic(<<"V">>, "Box."),
             "T" :> Param(v, Free) @@ "U" :> Param(w, Free) @@ "V" :> Param("none", Free), order) :
        v, w \in {"in", "out", "none"}, arg \in {U, P, X, Box(U)}, order \in Orders}
Inherited == {P, X, U, A(P), A(X), A(U), B(P), B(X), B(U), Box(P), A(Box(P)), A(Box(X)), A(Box(U)),
              B(Box(P)), A(A(P)), A(B(X)), A(B(P)), B(A(X))}

-----------------------------------------------------------------------------
(* A method with two parameters S and T, and constructors whose parameters *)
(* have bounds: from above, from below, by one another, and one that takes *)
(* a constructor.                                                          *)

S == Name("S")
T == Name("T")
Bounds(other) == {Free} \cup {Kind(<<b>>, << >>) : b \in {P, X, other}} \cup {Kind(<< >>, <<b>>) : b \in {P, X, other}}
Circular(s, t) == (s.lower = <<T>> /\ t.lower = <<S>>) \/ (s.upper = <<T>> /\ t.upper = <<S>>)
Bounded ==
    {Program("bounds",
             "D." :> Class(<<"D1">>, << >>) @@ "L." :> Class(<<"L1">>, << >>)
                 @@ "E." :> Class(<<"E1", "E2">>, << >>) @@ "M." :> Class(<<"F">>, << >>)
                 @@ "F.Ret" :> Class(<<"F.Arg(0)">>, << >>) @@ Boxes,
             "D" :> Generic(<<"D1">>, "D.") @@ "L" :> Generic(<<"L1">>, "L.")
                 @@ "E" :> Generic(<<"E1", "E2">>, "E.") @@ "M" :> Generic(<<"F">>, "M.")
                 @@ "Box" :> Generic(<<"V">>, "Box."),
             "S" :> Param("none", s) @@ "T" :> Param("none", t) @@ "V" :> Param("none", Free)
                 @@ "D1" :> Param("none", Kind(<< >>, <<P>>)) @@ "L1" :> Param("none", Kind(<<P>>, << >>))
                 @@ "E1" :> Param("none", Free) @@ "E2" :> Param("none", Kind(<< >>, <<Name("E1")>>))
                 @@ "F" :> Param("none", [is |-> "constructor", params |-> <<"F.Arg(0)">>, ret |-> "F.Ret"])
                 @@ "F.Arg(0)" :> Param("none", Free),
             order \o <<"P", "X", "D1", "D.", "L1", "L.", "E1", "E2", "E.", "F.Arg(0)", "F.Ret", "M.", "V", "Box.">>) :
        s \in Bounds(T), t \in Bounds(S), order \in {<<"S", "T">>, <<"X", "S", "T">>}}
WellBounded == {p \in Bounded : ~ Circular(p.params["S"].kind, p.params["T"].kind)}
InBoundsOrNot ==
    {P, X, S, T, Name("Box"), Box(S), Box(Name("Box")), App("E", <<P>>), App("P", <<P>>),
     App("M", <<Name("Box")>>), App("M", <<P>>), App("M", <<Name("E")>>), Box(App("D", <<T>>))}
        \cup {App(k, <<a>>) : k \in {"D", "L"}, a \in {P, X, S, T, Box(P)}}
        \cup {App("E", <<a, b>>) : a, b \in {P, X, S, T}}

-----------------------------------------------------------------------------
(* The body of a method of Main with a type parameter R, over Box, Pair and *)
(* a class Sub[U] that extends one of them.                                *)

R == Name("R")
A1 == Name("A1")
A2 == Name("A2")
V == Name("V")
Pair(a, b) == App("Pair", <<a, b>>)
Sub(t) == App("Sub", <<t>>)
Field(type) == [is |-> "field", type |-> type]
Def(targs, args, ret) == [is |-> "method", targs |-> targs, args |-> args, ret |-> ret]
Void == Name("unit")

Q == Name("Q")
Q2 == Name("Q2")
W == Name("W")
Members ==
    "Box." :> ("v" :> Field(V) @@ "get" :> Def(<< >>, << >>, V) @@ "set" :> Def(<< >>, <<V>>, Void)
                 @@ "new" :> Def(<< >>, <<V>>, Void))
        @@ "Pair." :> ("a" :> Field(A1) @@ "b" :> Field(A2) @@ "flip" :> Def(<< >>, << >>, Pair(A2, A1)))
        @@ "Main." :> ("id" :> Def(<<"Q">>, <<Q>>, Q) @@ "open" :> Def(<<"Q">>, <<Box(Q)>>, Q)
                         @@ "same" :> Def(<<"Q">>, <<Q, Q>>, Box(Q)) @@ "low" :> Def(<<"W">>, <<W>>, W)
                         @@ "both" :> Def(<<"Q", "Q2">>, <<Pair(Q, Q2)>>, Pair(Q2, Q)))
Bodies ==
    {Program("bodies",
             "Main." :> Class(<< >>, << >>) @@ "Pair." :> Class(<<"A1", "A2">>, << >>)
                 @@ "Sub." :> Class(<<"U">>, <<parent>>) @@ Boxes,
             "Pair" :> Generic(<<"A1", "A2">>, "Pair.") @@ "Sub" :> Generic(<<"U">>, "Sub.")
                 @@ "Box" :> Generic(<<"V">>, "Box."),
             [p \in {"A1", "A2", "U", "V", "Q", "Q2"} |-> Param("none", Free)]
                 @@ "R" :> Param("none", r) @@ "W" :> Param("none", Kind(<< >>, <<P>>)),
             <<"R", "P", "X", "U", "Sub.", "V", "Box.", "A1", "A2", "Pair.", "Q", "Q2", "W", "Main.">>) :
        parent \in {Box(U), Box(Box(U)), Pair(Box(U), P)}, r \in {Free, Kind(<< >>, <<P>>)}}

x == [is |-> "local", name |-> "x"]
y == [is |-> "local", name |-> "y"]
this == [is |-> "this"]
Bool1 == [is |-> "literal", name |-> "bool"]
Of(e, n) == [is |-> "member", of |-> e, name |-> n]
CallOf(e, n, targs, args) == [is |-> "call", of |-> e, name |-> n, targs |-> targs, args |-> args]
Set(l, r) == [is |-> "assign", lhs |-> l, rhs |-> r]
Block(stats) == [is |-> "block", stats |-> stats]
If(then, else) == [is |-> "if", cond |-> Bool1, then |-> then, else |-> else]

OverX ==
    {Of(x, "v"), Of(x, "a"), Of(Of(x, "v"), "v"), CallOf(x, "get", << >>, << >>),
     CallOf(this, "id", << >>, <<x>>), CallOf(this, "id", <<R>>, <<x>>), CallOf(this, "open", << >>, <<x>>),
     CallOf(this, "low", << >>, <<x>>), CallOf(this, "both", << >>, <<x>>),
     Of(CallOf(x, "flip", << >>, << >>), "a"), [is |-> "new", type |-> Box(R), args |-> <<x>>],
     Block(<<Of(x, "v"), Set(x, Of(x, "v"))>>)}
OverXY ==
    {Set(Of(x, "v"), y), CallOf(x, "set", << >>, <<y>>), CallOf(this, "same", << >>, <<x, y>>),
     If(x, <<y>>), If(Set(Of(x, "v"), y), << >>), Block(<<Set(Of(x, "v"), y), CallOf(x, "get", << >>, << >>)>>)}
Values == {R, P, X, Box(R), Box(P), Box(Box(R)), Pair(R, P), Pair(P, R), Sub(R), Sub(P)}
Item(tx, ty, ret, body) ==
    [owner |-> "Main.", targs |-> <<"R">>, locals |-> ("x" :> tx @@ "y" :> ty), ret |-> ret, body |-> body]
Items ==
    {Item(t, P, ret, body) : t \in Values, ret \in Values \cup {Void}, body \in OverX}
        \cup {Item(t, u, ret, body) : t, u \in Values, ret \in {R, P, Box(P), Void}, body \in OverXY}
Grounds == {Name("Main."), P, X, Box(P), Box(X), Sub(P), Sub(X), Pair(P, X), Box(Box(X)), Sub(Box(P)), Void}

-----------------------------------------------------------------------------
(* A class C[A1] with a method m[Q], and D[U] : C[...] that redefines it.   *)

C(t) == App("C", <<t>>)
Redef(class, redef, owner, name, type) ==
    [class |-> class, redef |-> redef, owner |-> owner, name |-> name, type |-> type]
Redefining(parents, roots, redefs, rootBounds, redefBounds) ==
    {[Program("redefs",
              "C." :> Class(<<"A1">>, << >>) @@ "D." :> Class(<<"U">>, <<C(parent)>>) @@ Boxes,
              "C" :> Generic(<<"A1">>, "C.") @@ "D" :> Generic(<<"U">>, "D.") @@ "Box" :> Generic(<<"V">>, "Box."),
              [p \in {"A1", "U", "V"} |-> Param("none", Free)]
                  @@ "Q" :> Param("none", q) @@ "Q2" :> Param("none", q2),
              <<"P", "X", "V", "Box.", "U", "D.", "Q", "Q2">>)
        EXCEPT !.members = "C." :> ("m" :> Def(<<"Q">>, <<old.arg>>, old.ret))
                               @@ "D." :> ("redef m" :> Def(<<"Q2">>, <<new.arg>>, new.ret)),
               !.redefs = <<Redef("D.", "redef m", "C.", "m", "D")>>] :
        parent \in parents,
        old \in [arg : roots, ret : roots], new \in [arg : redefs, ret : redefs],
        q \in rootBounds, q2 \in redefBounds}
Below(t) == Kind(<< >>, <<t>>)
Redefinitions ==
    Redefining({P, U, Box(U)}, {Q, A1, Box(Q)}, {Q2, U, P, Box(Q2), Box(U)}, {Free}, {Free})
        \cup Redefining({U}, {Q, P, A1}, {Q2, P, X, U}, {Free, Below(P), Below(X)}, {Below(P), Below(X)})

-----------------------------------------------------------------------------

MCPrograms ==
    Inheriting \cup WellBounded \cup {[p EXCEPT !.members = Members] : p \in Bodies} \cup Redefinitions
MCItemsOf(p) == IF p.family = "bodies" THEN Items ELSE {}
MCUniverse(p) ==
    CASE p.family = "inheritance" -> Inherited
      [] p.family = "bounds" -> InBoundsOrNot
      [] p.family = "bodies" -> Grounds
      [] p.family = "redefs" -> {P, X, U, Box(P)}
=============================================================================
