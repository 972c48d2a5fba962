------------------------------ MODULE MCClosures ------------------------------
(***************************************************************************)
(* Programs whose main declares a variable and uses it in nested closures, *)
(* methods and initializers, and programs whose module has aliases.        *)
(***************************************************************************)
EXTENDS Execution, TLC

Def(params, body, redefines) ==
    [params |-> params, body |-> body, redefines |-> redefines,
     constructor |-> FALSE, abstract |-> FALSE, extern |-> FALSE]
Constructor(params, body) == [Def(params, body, <<>>) EXCEPT !.constructor = TRUE]
ClassAt(parent, fields, defs, within, method) ==
    [parent |-> parent, fields |-> fields, defs |-> defs, within |-> within, method |-> method]

\* What is added to a program: classes, methods, and the classes in the order
\* their visits end.
Part(classes, defs, visits) == [classes |-> classes, defs |-> defs, visits |-> visits]
Join(p, q) == Part(p.classes @@ q.classes, p.defs @@ q.defs, p.visits \o q.visits)
NoPart == Part(<<>>, <<>>, <<>>)

Apply == Method("Func0", "()")
Library == Part(
    "Func0" :> ClassAt("", <<>>, <<Apply>>, "", <<>>)
        @@ "Box" :> ClassAt("", <<Value>>, <<>>, "", <<>>),
    Apply :> [Def(<<>>, Block(<<>>), <<>>) EXCEPT !.abstract = TRUE], <<>>)

Get(s) == Identifier(s)
Set(s, n) == AssignmentExpression(Identifier(s), IntLiteral(n))
Declare(s, e) == AssignmentExpression(TypeSpecifier(s), e)
CallOf(e, m, args) == FunctionCall(MemberAccess(e, m), args)

----------------------------------------------------------------------------
(* A level is a function or a class, at depth n, that is created in the    *)
(* block around it and then called once; its code may have a level itself. *)

Name(n) == <<"c1", "c2">>[n]
Held(n) == Var(<<"o1", "o2">>[n])             \* the function or the object
Local(n) == Var(<<"l1", "l2">>[n])
Parameter(n) == Var(<<"p1", "p2">>[n])
Member(n) == Field(Name(n), "n")
New(c) == Method(c, "new")
Getter(n) == Method(Name(n), "get")
Entry(kind, n) == Method(Name(n), IF kind = "function" THEN "()" ELSE "m")

\* The variables that only the code of a level sees.
Own(kind, n) == CASE kind = "field" -> {Member(n)}
                  [] kind = "parameter" -> {Parameter(n)}
                  [] kind = "local" -> {Local(n)}
                  [] OTHER -> {}

\* The class of a level, with the code of its method.
Level(kind, n, base, within, method, code) ==
    LET c == Name(n) m == Entry(kind, n)
        arg == Var(<<"a1", "a2">>[n])
    IN  Part(c :> ClassAt(IF kind = "function" THEN "Func0" ELSE base,
                          IF kind = "field" THEN <<Member(n)>> ELSE <<>>,
                          CASE kind = "function" -> <<m>>
                            [] kind = "field" -> <<New(c), m, Getter(n)>>
                            [] OTHER -> <<New(c), m>>,
                          within, method),
             (m :> Def(IF kind = "parameter" THEN <<Parameter(n)>> ELSE <<>>,
                       IF kind = "local" THEN Block(<<Declare(Local(n), IntLiteral(9)), code>>) ELSE code,
                       IF kind = "function" THEN Apply ELSE <<>>))
             @@ (CASE kind = "function" -> <<>>
                   [] kind = "field" ->
                        (New(c) :> Constructor(<<arg>>, AssignmentExpression(Get(Member(n)), Get(arg))))
                        @@ (Getter(n) :> Def(<<>>, Get(Member(n)), <<>>))
                   [] OTHER -> New(c) :> Constructor(<<>>, Block(<<>>))),
             <<c>>)

Creation(kind, n) ==
    IF kind = "function" THEN FunctionCreation(Name(n))
    ELSE CallOf(Instantiation(Type(Name(n), Name(n))), New(Name(n)),
                IF kind = "field" THEN <<IntLiteral(3)>> ELSE <<>>)
Called(kind, n) ==
    CallOf(Get(Held(n)), IF kind = "function" THEN Apply ELSE Entry(kind, n),
           IF kind = "parameter" THEN <<IntLiteral(7)>> ELSE <<>>)

\* The block around a level: the class is declared, an object is created, then
\* comes the call; something is assigned between, and read in the end.
Use(kind, n, between, end) ==
    <<Declare(Held(n), Creation(kind, n))>> \o between \o <<Called(kind, n)>> \o end
Surrounding(kind, n, between, end) ==
    Block((IF kind = "function" THEN <<>> ELSE <<TypeDecl(Name(n))>>) \o Use(kind, n, between, end))

\* The innermost code: a variable is read, after another one was assigned.
Innermost(visible) ==
    {Get(s) : s \in visible} \cup {Block(<<Set(s, 5), Get(t)>>) : s, t \in visible}

\* What is between, and what is read in the end.
Ways(visible) == {<<<<>>, <<>>>>} \cup {<<<<Set(s, 2)>>, <<>>>> : s \in visible}
                 \cup {<<<<>>, <<Get(s)>>>> : s \in visible}

----------------------------------------------------------------------------
(* Programs                                                                *)

RECURSIVE AssignedIn(_)
AssignedIn(e) ==
    (IF e.op = "AssignmentExpression" /\ e.parts[1].op = "Identifier" THEN {e.parts[1].sym} ELSE {})
    \cup UNION {AssignedIn(e.parts[i]) : i \in DOMAIN e.parts}

Exports(name, exported, value) ==
    [name |-> name, exported |-> exported, extern |-> FALSE, value |-> value]
Extern(name) == [Exports(name, TRUE, Block(<<>>)) EXCEPT !.extern = TRUE]
TypeOf(c) == Exports(Type(c, c), FALSE, Node("ClassDecl", Anonymous(c), <<>>))

\* A program: the code of main, the classes in it, those of the module, and
\* the module's other definitions.
X == Var("x")
Main == Method("main", "()")
Program(code, part, types, globals) ==
    LET all == Join(part, Join(Library, Part("main" :> ClassAt("Func0", <<>>, <<Main>>, "", <<>>),
                                             Main :> Def(<<>>, code, Apply), <<"main">>)))
    IN  [classes |-> all.classes, defs |-> all.defs, visits |-> all.visits,
         mutable |-> UNION {AssignedIn(all.defs[d].body) : d \in DOMAIN all.defs},
         globals |-> [i \in DOMAIN types |-> TypeOf(types[i])] \o <<TypeOf("Func0"), TypeOf("Box")>>
                     \o globals \o <<Exports(Global("main"), FALSE, FunctionCreation("main"))>>]
InMain(code, part) == Program(Block(<<Declare(X, IntLiteral(1)), code>>), part, <<>>, <<>>)

Kinds == {"function", "class", "field", "parameter", "local"}

\* One level in main.
Single == UNION {
    {InMain(Surrounding(k, 1, w[1], w[2]), Level(k, 1, "", "main", Main, code)) :
        w \in Ways({X}), code \in Innermost({X} \cup Own(k, 1))} : k \in Kinds}

\* Two levels, the outer one in main or in the module.  It has a getter that
\* the inner one may call.
Inside(outer, inner, base, around, within, method) ==
    {Join(Level(inner, 2, base, Name(1), Entry(outer, 1), code),
          Level(outer, 1, base, within, method, Surrounding(inner, 2, w[1], w[2]))) :
        w \in Ways(around \cup Own(outer, 1)),
        code \in Innermost(around \cup Own(outer, 1) \cup Own(inner, 2))
                 \cup (IF outer = "field" THEN {FunctionCall(Get(Getter(1)), <<>>)} ELSE {})
                 \cup (IF inner = "field" THEN {MemberAccess(This, Member(2)), CallOf(This, Getter(2), <<>>)} ELSE {})}
Double == UNION {
    {InMain(Surrounding(outer, 1, <<>>, end), part) :
        end \in {<<>>, <<Get(X)>>}, part \in Inside(outer, inner, "", {X}, "main", Main)}
    : outer, inner \in Kinds}
InModule == UNION {
    {Program(Block(Use(outer, 1, <<>>, <<>>)), part, <<"c1">>, <<>>) :
        part \in Inside(outer, inner, "", {}, "", <<>>)}
    : outer \in Kinds \ {"function", "class"}, inner \in Kinds}

\* Both levels extend the same class.
Siblings == UNION {
    {Program(Block(Use("field", 1, <<>>, <<>>)),
             Join(part, Part("p" :> ClassAt("", <<>>, <<>>, "", <<>>), <<>>, <<"p">>)), <<"p", "c1">>, <<>>) :
        part \in Inside("field", inner, "p", {}, "", <<>>)}
    : inner \in {"class", "field"}}

\* A function in the method of a class names `this', or has a function or a
\* class in it that does.
WithThis == UNION {
    {Program(Block(Use("field", 1, <<>>, <<>>)), part, <<"c1">>, <<>>) :
        part \in {Join(Level("function", 2, "", "c1", Entry("field", 1), code),
                       Level("field", 1, "", "", <<>>, Surrounding("function", 2, <<>>, end))) :
                     code \in {MemberAccess(This, Member(1)), CallOf(This, Getter(1), <<>>),
                               Block(<<Set(Member(1), 5), MemberAccess(This, Member(1))>>)}}}
    : end \in {<<>>, <<MemberAccess(This, Member(1))>>}}

\* A class in a method of another is instantiated by a closure next to it.
ByClosure == UNION {
    {Program(Block(Use("field", 1, <<>>, <<>>)),
             Join(Level(inner, 2, "", "c1", Entry("field", 1), code),
             Join(Part("k" :> ClassAt("Func0", <<>>, <<Method("k", "()")>>, "c1", Entry("field", 1)),
                       Method("k", "()") :> Def(<<>>, Creation(inner, 2), Apply), <<"k">>),
                  Level("field", 1, "", "", <<>>,
                        Block(<<TypeDecl(Name(2)),
                                Declare(Held(2), CallOf(FunctionCreation("k"), Apply, <<>>)),
                                Called(inner, 2)>>)))),
             <<"c1">>, <<>>) :
        code \in Innermost({Member(1)} \cup Own(inner, 2))}
    : inner \in Kinds \ {"function"}}

\* A class and one that extends it, which redefines its method or adds one.
Y == Var("y")
Extended == UNION {
    {InMain(Block(<<Declare(Y, IntLiteral(2)), TypeDecl("c1"), TypeDecl("d"),
                    Declare(Held(1), CallOf(Instantiation(Type("d", "d")), New("d"), <<>>)),
                    Set(X, 4), CallOf(Get(Held(1)), called, <<>>)>> \o end),
            Join(Level("class", 1, "", "main", Main, code),
                 Part("d" :> ClassAt("c1", <<>>, <<New("d"), Method("d", "g")>>, "main", Main),
                      (New("d") :> Constructor(<<>>, Block(<<>>)))
                      @@ (Method("d", "g") :> Def(<<>>, other, redefines)), <<"d">>))) :
        code, other \in {Get(X), Block(<<Set(Y, 5), Get(Y)>>)}, end \in {<<>>, <<Get(Y)>>},
        called \in {Entry("class", 1), Method("d", "g")}}
    : redefines \in {<<>>, Entry("class", 1)}}

\* Definitions and types of the module that stand for one another.
Acyclic(to) == \A n \in DOMAIN to : to[n] # n /\ (to[n] \in DOMAIN to => to[to[n]] # n)
                                    /\ (to[n] \in DOMAIN to /\ to[to[n]] \in DOMAIN to => to[to[to[n]]] # n)
Globals(exported, to) ==
    [i \in 1..3 |->
        LET n == <<"a", "b", "c">>[i]
        IN  CASE to[n] = "extern" -> Extern(Global(n))
              [] to[n] = "1" -> Exports(Global(n), n \in exported, IntLiteral(i))
              [] OTHER -> Exports(Global(n), n \in exported, Get(Global(to[n])))]
Values == {Program(Get(Global(seen)), NoPart, <<>>, Globals(exported, to)) :
              seen \in {"a", "b"}, exported \in SUBSET {"a", "b", "c"},
              to \in {f \in [{"a", "b", "c"} -> {"a", "b", "c", "1", "extern"}] : Acyclic(f)}}
Names == {[Program(Block(<<Declare(X, CallOf(Instantiation(Type(seen, "c1")), New("c1"), <<IntLiteral(3)>>)),
                           CallOf(Get(X), Entry("field", 1), <<>>)>>),
                   Level("field", 1, "", "", <<>>, Get(Member(1))), <<"c1">>, <<>>)
           EXCEPT !.globals = [i \in 1..2 |-> LET n == <<"t", "u">>[i]
                                              IN  Exports(Type(n, "c1"), n \in exported,
                                                          Node("TypeIdentifier", Type(to[n], "c1"), <<>>))]
                              \o [@ EXCEPT ![1] = IF linked THEN Extern(Type("c1", "c1"))
                                                  ELSE [@ EXCEPT !.exported = "c1" \in exported]]] :
             seen \in {"t", "u", "c1"}, exported \in SUBSET {"t", "u", "c1"}, linked \in BOOLEAN,
             to \in {f \in [{"t", "u"} -> {"t", "u", "c1"}] : Acyclic(f)}}

\* A class whose getter is extern.
ExternGetter == {
    Program(Block(Use("field", 1, <<>>, <<CallOf(Get(Held(1)), Getter(1), <<>>)>>)),
            [part EXCEPT !.defs[Getter(1)] = [@ EXCEPT !.body = Block(<<>>), !.extern = TRUE]],
            <<"c1">>, <<>>) :
        part \in {Level("field", 1, "", "", <<>>, code) :
                     code \in {Get(Member(1)), FunctionCall(Get(Getter(1)), <<>>)}}}

MCPrograms == Single \cup Double \cup InModule \cup Siblings \cup ByClosure \cup WithThis
              \cup Extended \cup Values \cup Names \cup ExternGetter
MCByClosure == ByClosure
MCThis == WithThis
MCExtern == Values
===============================================================================
