-------------------------- MODULE MCNameResolution --------------------------
(***************************************************************************)
(* Instances of NameResolution: four families of programs.  Their names    *)
(* are few, so that they collide.                                          *)
(***************************************************************************)
EXTENDS NameResolution

MCNames == <<"A", "B", "C", "T", "f", "m", "n", "new", "o">>

End_ == <<[op |-> "end"]>>
Module(n, uses, body) == <<[op |-> "module", name |-> n, uses |-> uses]>> \o body \o End_
Class(n, path, body) == <<[op |-> "class", name |-> n, path |-> path]>> \o body \o End_
Def(n, flag, body) == <<[op |-> "def", name |-> n, flag |-> flag]>> \o body \o End_
Block(uses, body) == <<[op |-> "block", uses |-> uses]>> \o body \o End_
Alias(n, path) == <<[op |-> "alias", name |-> n, path |-> path]>>
Var(n) == <<[op |-> "var", name |-> n]>>
Uses(path) == <<[op |-> "use", path |-> path]>>

Only(p, when) == IF when THEN p ELSE << >>

----------------------------------------------------------------------------
(* Classes that inherit, from each other and from a class inside one of    *)
(* them, in any order, with members that overload or conflict.             *)
Members == {<<Var("f"), Def("f", "plain", << >>)>>,
            <<Def("f", "plain", << >>), Var("f") \o Def("f", "static", << >>)>>,
            <<Def("f", "plain", << >>) \o Def("new", "constructor", << >>),
              Def("f", "static", Uses(<<"T">>)) \o Def("new", "constructor", << >>)>>}
Inheriting ==
    {Module("m", << >>,
        Class("A", a, Class("T", t, << >>) \o member[1])
        \o Class("B", b, member[2])
        \o Class("C", c, Def("new", "constructor", Uses(<<"f">>)))) :
     a \in {<< >>, <<"B">>, <<"C">>, <<"A">>}, t \in {<< >>, <<"A">>, <<"B">>},
     b \in {<< >>, <<"A">>, <<"C">>, <<"T">>, <<"A", "T">>},
     c \in {<< >>, <<"A">>, <<"B">>, <<"A", "T">>, <<"B", "T">>}, member \in Members}

----------------------------------------------------------------------------
(* Modules in modules and modules in parts, that use each other.           *)
Usings == {<< >>, <<<<"n">>>>, <<<<"o">>>>, <<<<"n">>, <<"o">>>>, <<<<"m", "o">>>>}
Using ==
    {Module("m", first, Only(Module("o", << >>, Class("B", << >>, << >>)), inner)
                        \o Class("C", p, << >>) \o Def("f", "plain", Block(used, Uses(<<"B">>) \o Uses(u))))
     \o Module("n", << >>, Class("A", << >>, Class("T", << >>, << >>)) \o Class("B", <<"A">>, << >>))
     \o Module("o", <<<<"n">>>>, Class("B", <<"A">>, << >>))
     \o Only(Module("m", second, Def("new", "plain", Uses(<<"A">>))), parts) :
     first \in Usings, used \in Usings, second \in {<< >>, <<<<"n">>>>}, inner \in BOOLEAN,
     parts \in BOOLEAN, p \in {<<"B">>, <<"n", "A">>}, u \in {<<"o", "B">>, <<"m", "o", "A">>}}

----------------------------------------------------------------------------
(* Types that stand for each other and for classes.                        *)
Standing ==
    {Module("m", << >>,
        (IF early THEN Alias("A", a) \o Class("C", c, Alias("T", t)) ELSE Class("C", c, Alias("T", t)) \o Alias("A", a))
        \o Alias("B", b) \o Class("f", <<"B">>, Uses(<<"A", "T">>))) :
     early \in BOOLEAN,
     a \in {<<"B">>, <<"C">>, <<"C", "T">>}, b \in {<<"A">>, <<"C">>, <<"f">>, <<"A", "T">>},
     c \in {<< >>, <<"A">>, <<"f">>, <<"A", "T">>}, t \in {<<"A">>, <<"B", "T">>, <<"f">>}}

----------------------------------------------------------------------------
(* One name, declared twice on the way down to where it is used.           *)
Level(op, body) ==
    CASE op = "class"  -> Class("C", << >>, body)
      [] op = "plain"  -> Def("f", "plain", body)
      [] op = "static" -> Def("f", "static", body)
      [] op = "block"  -> Block(<< >>, body)
Declaration(op) ==
    CASE op = "var"    -> Var("T")
      [] op = "none"   -> << >>
      [] op = "class"  -> Class("T", << >>, << >>)
      [] op = "plain"  -> Def("T", "plain", << >>)
      [] op = "static" -> Def("T", "static", << >>)
\* What the parser accepts inside what.
Inside(outer, inner) ==
    CASE outer = "module" -> inner \in {"class", "plain", "none"}
      [] outer = "class"  -> inner \in {"class", "plain", "static", "var", "none"}
      [] OTHER            -> inner \in {"class", "plain", "block", "var", "none"}
\* The visitors meet types before fields before definitions.
Rank(op) == CASE op \in {"none", "class"} -> 1 [] op = "var" -> 2 [] OTHER -> 3
Both(d, op, body) ==
    IF Rank(d) <= Rank(op) THEN Declaration(d) \o Level(op, body) ELSE Level(op, body) \o Declaration(d)
Levels == {"class", "plain", "static", "block"}
Declarations == {"var", "none", "class", "plain", "static"}
Nested4 ==
    {o \in Levels \X Levels \X Levels \X Levels :
        /\ Inside("module", o[1]) /\ o[4] # "class"
        /\ \A k \in 1..3 : Inside(o[k], o[k + 1])}
Nesting ==
    {Module("m", << >>,
        Level(o[1], Both(d[1], o[2], Both(d[2], o[3], Both(d[3], o[4], Uses(<<"T">>))))
                    \o Def("new", "plain", << >>))) :
     <<o, d>> \in {p \in Nested4 \X (Declarations \X Declarations \X Declarations) :
                      /\ \A k \in 1..3 : Inside(p[1][k], p[2][k])
                      /\ \E k \in 1..3 : p[2][k] = "none"}}

MCPrograms == Inheriting \cup Using \cup Standing \cup Nesting
=============================================================================
