------------------------------- MODULE Parsing --------------------------------
(***************************************************************************)
(* What the parser promises: it accepts the language of the grammar, gives *)
(* every operand to the operator that binds it tightest, leaves no hole in *)
(* a tree it accepts, and a tree that is printed is read back.             *)
(***************************************************************************)
EXTENDS Parser, FiniteSetsExt

-----------------------------------------------------------------------------
(***************************************************************************)
(* ASTPrinter.cpp: a tree as text, here the words of that text.  Once a    *)
(* source is parsed without error, its tree may be printed and the text    *)
(* parsed again.                                                           *)
(***************************************************************************)
VARIABLE printed        \* the tree the source is the text of, Null if it is a user's

Between(open, words, close) == <<open>> \o words \o <<close>>

\* Names of methods are spelled "(=)" too, names of nothing "<anonymous class>".
Spelling(name) ==
    IF Len(name) > 2 /\ SubSeq(name, 1, 1) = "(" THEN Between("(", <<SubSeq(name, 2, Len(name) - 1)>>, ")")
    ELSE IF name = "()" THEN <<"(", ")">>
    ELSE IF name = "" THEN <<"<", "anonymous", "class", ">">>
    ELSE <<name>>

OptionalWord(w) == IF w = "" THEN <<>> ELSE <<w>>

RECURSIVE visit(_), visitAll(_, _)
visitAll(nodes, separator) ==
    IF nodes = <<>> THEN <<>>
    ELSE IF Len(nodes) = 1 THEN visit(nodes[1])
    ELSE visit(nodes[1]) \o separator \o visitAll(Tail(nodes), separator)

\* What is only there if the node is.
Preceded(word, node) == IF node = Null THEN <<>> ELSE <<word>> \o visit(node)

PrintUsings(usings) == IF usings = <<>> THEN <<>> ELSE <<"using">> \o visitAll(usings, <<"using">>)

\* Every element but the last.
PrintTypeTuple(exprs) ==
    Between("[", IF exprs = <<>> THEN <<>>
                 ELSE visitAll([i \in 1..Len(exprs) - 1 |-> exprs[i]], <<",">>) \o (IF Len(exprs) > 1 THEN <<",">> ELSE <<>>),
            "]")

PrintModule(p) ==
    <<"module">> \o visit(p[1])
    \o Between("{", PrintUsings(p[5].parts) \o visitAll(p[2].parts, <<>>) \o visitAll(p[3].parts, <<>>)
                    \o visitAll(p[4].parts, <<>>), "}")

PrintField(field) == <<field.parts[1].word, ":">> \o visit(field.parts[2]) \o <<";">>
RECURSIVE PrintFields(_)
PrintFields(fields) == IF fields = <<>> THEN <<>> ELSE PrintField(fields[1]) \o PrintFields(Tail(fields))

PrintClass(name, p) ==
    <<"class">> \o Spelling(name) \o Preceded(":", p[1])
    \o Between("{", visitAll(p[2].parts, <<>>) \o PrintFields(p[3].parts) \o visitAll(p[4].parts, <<>>), "}")

PrintDefine(def, p) ==
    (IF HasFlag(def, "extern") THEN <<"extern">> ELSE IF HasFlag(def, "abstract") THEN <<"abstract">> ELSE <<>>)
    \o <<IF HasFlag(def, "redef") THEN "redef" ELSE "def">>
    \o visit(p[1]) \o Preceded(":", p[2]) \o Preceded("=", p[3])

PrintFunctionBare(p) ==  \* mutant: no parentheses
    (IF p[1] = Null THEN <<>> ELSE visit(p[1])) \o visit(p[2]) \o Preceded("->", p[4]) \o <<"=>">> \o visit(p[3])

PrintFunction(p) ==
    (IF p[1] = Null THEN <<>> ELSE visit(p[1]))
    \o Between("(", visit(p[2]) \o Preceded("->", p[4]) \o <<"=>">> \o visit(p[3]), ")")

visit(n) ==
    LET p == n.parts
        TypeArgs == IF p[1].parts = <<>> THEN <<>> ELSE Between("[", visitAll(p[1].parts, <<",">>), "]")
    IN  CASE n.kind = "Program" -> visitAll(p, <<>>)
          [] n.kind = "ModuleDecl" -> PrintModule(p)
          [] n.kind = "TypeDecl" -> <<"type">> \o visit(p[1]) \o <<"=">> \o visit(p[2])
          [] n.kind = "ClassDecl" -> PrintClass(n.word, p)
          [] n.kind = "DefineDecl" -> PrintDefine(n, p)
          [] n.kind = "ModulePath" -> visitAll(p, <<".">>)
          [] n.kind = "ProperTypeKindSpecifier" ->
                (IF p[1] = Null THEN <<>> ELSE visit(p[1]) \o <<"<">>) \o <<"*">> \o Preceded("<", p[2])
          [] n.kind = "KindParameter" -> OptionalWord(n.word) \o visit(p[1])
          [] n.kind = "TypeConstructorKindSpecifier" ->
                Between("[", visitAll(p[1].parts, <<",">>), "]") \o <<"->">> \o visit(p[2])
          [] n.kind = "FunctionTypeDecl" -> TypeArgs \o Between("(", visitAll(p[2].parts, <<",">>), ")") \o <<"->">> \o visit(p[3])
          [] n.kind \in {"TypeMemberAccess", "MemberAccess"} -> Between("(", visit(p[1]) \o <<".">> \o visit(p[2]), ")")
          [] n.kind = "TypeTuple" -> PrintTypeTuple(p)
          [] n.kind = "TypeConstructorCreation" -> Between("(", visit(p[1]) \o <<"=>">> \o visit(p[2]), ")")
          [] n.kind = "TypeConstructorCall" -> visit(p[1]) \o visit(p[2])
          [] n.kind = "TypeToBeInferred" -> <<>>
          [] n.kind = "TypeParameter" -> OptionalWord(n.word) \o visit(p[1]) \o <<":">> \o visit(p[2])
          [] n.kind = "ExpressionStatement" -> visit(p[1]) \o <<";">>
          [] n.kind = "AssignmentExpression" -> Between("(", visit(p[1]) \o <<"=">> \o visit(p[2]), ")")
          [] n.kind = "TypeSpecifier" -> Between("(", visit(p[1]) \o <<":">> \o visit(p[2]), ")")
          [] n.kind = "Block" -> Between("{", visitAll(p[1].parts, <<>>), "}")
          [] n.kind = "IfExpression" -> <<"if">> \o visit(p[1]) \o visit(p[2]) \o Preceded("else", p[3])
          [] n.kind = "Tuple" -> Between("(", visitAll(p, <<",">>), ")")
          [] n.kind = "FunctionCreation" -> PrintFunction(p)
          [] n.kind = "FunctionCall" -> visit(p[1]) \o (IF p[2] = Null THEN <<>> ELSE visit(p[2])) \o visit(p[3])
          [] n.kind = "Instantiation" -> visit(p[1])
          [] n.kind \in {"Identifier", "TypeIdentifier"} -> Spelling(n.word)
          [] n.kind = "This" -> <<"this">>
          [] n.kind = "Literal" -> <<n.word>>

\* The text of a tree replaces its source, every word apart.
print ==
    /\ parser.over = "parsed" /\ parser.errors = {} /\ printed = Null
    /\ printed' = parser.node
    /\ source' = visit(parser.node)
    /\ loose' = DOMAIN source'
    /\ parser' = Start

-----------------------------------------------------------------------------
(***************************************************************************)
(* The language the parser is to accept, as a grammar.  A phrase is the    *)
(* operator that takes the places where it may begin to those where it may *)
(* end, in every way it can be read: no phrase looks ahead, but for a type *)
(* and an expression in brackets, which extend as far as they can.         *)
(* The tree an expression should have is given by its loosest operator.    *)
(***************************************************************************)

\* Words.
In(words, I) == {i + 1 : i \in {k \in I : k \in DOMAIN source /\ source[k] \in words}}
W(word, I) == In({word}, I)
Name(I) == In(Names, I)
Optionally(J, I) == I \cup J
NotBefore(words, I) == {i \in I : i \notin DOMAIN source \/ source[i] \notin words}
Only(words, I) == {i \in I : i \in DOMAIN source /\ source[i] \in words}

\* A block, a class or a module that is still open at the end of the file is closed by it.
Close(I) == W("}", I) \cup (I \ DOMAIN source)

Infix == {o \in OPERATORS : PRECEDENCE[o] >= 0}
AfterType(allow) == Infix \ ({"=", "<"} \cup IF allow THEN {} ELSE {"=>"})

\* What may be within something else.
RECURSIVE Phrase(_, _), Elements(_, _)
Type(allow, I) == Phrase(IF allow THEN "type" ELSE "type without =>", I)
Kind(I) == Phrase("kind", I)
Expr(I) == Phrase("expression", I)
Statement(I) == Phrase("statement", I)
Statements(I) == Phrase("statements", I)
ClassMembers(I) == Phrase("members", I)

Elements(what, I) ==
    LET one == Phrase(what, I) IN IF one = {} THEN {} ELSE one \cup Elements(what, W(",", one))
Enclosed(open, what, close, I) == LET J == W(open, I) IN W(close, J \cup Elements(what, J))

-----------------------------------------------------------------------------
\* Types and kinds.
ClassTail(I) ==
    LET fields == NotBefore({"("}, I) \cup Enclosed("(", "field", ")", I)
        parent == NotBefore({":"}, fields) \cup Type(TRUE, W(":", fields))
    IN  NotBefore({"{"}, parent) \cup Close(ClassMembers(W("{", parent)))

Single(I) == W(")", Type(TRUE, W("(", I)))
PrimaryType(allow, I) ==
    LET params == Enclosed("[", "parameter", "]", I)
        to == W("->", Name(I) \cup NotBefore({"("}, params) \cup Enclosed("(", "type", ")", I \cup params) \cup I)
        class == W("class", Optionally(W("abstract", I), I))
    IN  Name(I) \cup NotBefore({"("}, params) \cup Single(I) \cup Type(allow, to)
        \cup ClassTail(NotBefore(Names, class) \cup Name(class))
RECURSIVE TypeTail(_, _)
TypeTail(allow, I) ==
    IF I = {} THEN {}
    ELSE I \cup TypeTail(allow, Enclosed("[", "type", "]", I) \cup Name(W(".", I)))
           \cup IF allow THEN Type(TRUE, W("=>", I)) ELSE {}
WholeType(allow, I) == NotBefore(AfterType(allow), TypeTail(allow, PrimaryType(allow, I)))

OneKind(I) ==
    LET from == I \cup W("<", Type(FALSE, NotBefore({"*", "["}, I)))
        star == W("*", from)
        proper == NotBefore({"<"}, star) \cup Type(FALSE, W("<", star))
    IN  NotBefore({"->"}, proper) \cup Kind(W("->", proper \cup Enclosed("[", "parameter of a kind", "]", from)))

TypeParameterPhrase(I) ==
    LET id == Name(Optionally(In({"in", "out"}, I), I))
        lower == Optionally(Type(FALSE, W(">", id)), NotBefore({">", ":"}, id))
    IN  Kind(W(":", id)) \cup Optionally(Type(FALSE, W("<", lower)), NotBefore({"<"}, lower))

-----------------------------------------------------------------------------
\* Expressions.
Specials == {"(", "[", "->", "=>", "."}
MethodName(I) == In(Overridable, I) \cup W(")", In(Assignments, W("(", I)) \cup W("(", I))
Member(I) == Name(I) \cup MethodName(I)
New(I) ==
    LET J == W("new", I)
    IN  Close(ClassMembers(W("{", J \cup Type(TRUE, NotBefore({"{"}, J)))))
If(I) ==
    LET then == Expr(W(")", Expr(W("(", W("if", I)))))
    IN  NotBefore({"else"}, then) \cup Expr(W("else", then))
Primary(I) ==
    In(Literals, I) \cup NotBefore({":"}, Name(I)) \cup Only({"="}, W(":", Name(I)))
    \cup Type(TRUE, NotBefore({"="}, W(":", Name(I))))
    \cup Enclosed("(", "expression", ")", I) \cup Close(Statements(W("{", I)))
    \cup If(I) \cup W("this", I) \cup New(I)
\* A type: a name, members of it and type arguments, as many as there are and that no call follows.
RECURSIVE TypeArgs(_)
TypeArgs(I) == LET J == Enclosed("[", "type", "]", I) IN IF I = {} THEN {} ELSE J \cup TypeArgs(J)
RECURSIVE PathTail(_)
PathTail(I) ==
    LET more == Member(W(".", I)) \cup NotBefore({"(", "->", "["}, TypeArgs(I))
    IN  IF I = {} THEN {} ELSE I \cup PathTail(more)
RECURSIVE Path(_)
Path(I) == IF I = {} THEN {} ELSE PathTail(NotBefore({":"}, Name(I)) \cup W(")", Path(W("(", I))))
RECURSIVE Postfix(_)
Postfix(I) ==
    LET args == Enclosed("(", "expression", ")", I \cup Enclosed("[", "type", "]", I))
        more == args \cup Member(W(".", I))
    IN  IF I = {} THEN {} ELSE I \cup Postfix(more)
Operand(I) == IF I = {} THEN {} ELSE Postfix(Primary(I) \cup Path(I))
RECURSIVE Function(_)
Function(I) ==
    LET args == Operand(I) \cup Enclosed("(", "expression", ")", Enclosed("[", "parameter", "]", I))
    IN  IF I = {} THEN {}
        ELSE Expr(W("=>", I \cup args \cup Type(FALSE, W("->", args)))) \cup W(")", Function(W("(", I)))
RECURSIVE Base(_)
Base(I) ==
    IF I = {} THEN {} ELSE Operand(I) \cup Function(I) \cup Base(In({"-", "+", "!", "~"}, I))
Operation(I) == LET base == Base(I) IN base \cup Expr(In(Infix \ Specials, base))

-----------------------------------------------------------------------------
\* Declarations; annotations precede a definition, a type or a class.
RECURSIVE Constants(_)
Constants(I) ==
    LET J == In(Literals, I) IN IF I = {} THEN {} ELSE W(")", J) \cup Constants(W(",", J))
RECURSIVE Annotations(_)
Annotations(I) ==
    LET named == In(Names \cup KEYWORDS, W("@", I))
        open == {i \in named : i \notin loose /\ i \in Only({"("}, named)}
    IN  IF I = {} THEN {} ELSE I \cup Annotations((named \ open) \cup Constants(W("(", open)))
\* The places after any flags of a set, of which none are exclusive.
RECURSIVE Flags(_, _)
Flags(flags, I) == IF I = {} THEN {} ELSE I \cup Flags(flags, In(flags, I))

Value(I) == W("=", Type(TRUE, W(":", I))) \cup W("=", I)
Def(I) == Expr(Value(I) \cup Only({"(", "["}, I))
Method(I) == Function(Value(I) \cup Only({"(", "["}, I))
Declared(I) == Type(TRUE, W(":", I))
TypeDef(I) == LET id == Name(I) IN Type(TRUE, NotBefore({"="}, id) \cup W("=", id))
Class(I) ==
    LET id == Name(I)
        open == NotBefore({"="}, id) \cup W("=", id)
    IN  ClassTail(NotBefore({"["}, open) \cup Enclosed("[", "parameter", "]", open))
RECURSIVE ModulePaths(_)
ModulePaths(I) == LET id == Name(I) IN IF I = {} THEN {} ELSE NotBefore({"."}, id) \cup ModulePaths(W(".", id))

OneStatement(I) ==
    LET J == Annotations(I)
        then == Statement(W(")", Expr(W("(", W("if", I)))))
    IN  W(";", Def(Name(W("def", J))) \cup TypeDef(W("type", J)) \cup Class(W("class", J \cup W("abstract", J)))
                    \cup W("this", I) \cup New(J) \cup Expr(NotBefore(KEYWORDS \cup {"{"}, I)))
             \cup NotBefore({"else"}, then) \cup Statement(W("else", then))
             \cup Close(Statements(W("{", I)))
SomeStatements(I) ==
    I \cup Statements(Statement(I) \cup W(";", ModulePaths(W("using", I))))

\* static excludes abstract, and abstract extern.
SomeMembers(I) ==
    LET J == Annotations(I)
        Flagged(flags) == In(flags, Flags(flags, J))
        unbound == Flagged({"extern"}) \cup Flagged({"abstract"})
        externStatic == W("extern", Flags({"static"}, J)) \cup W("static", Flagged({"extern"}))
        method == W("new", J) \cup Member(W("redef", J)) \cup Member(W("def", J))
        declared == W("new", Flagged({"extern"})) \cup Member(W("redef", unbound))
                    \cup Member(W("def", unbound \cup Flags({"extern", "static"}, externStatic)))
        field == NotBefore({"="}, Declared(Name(I))) \cup Expr(W("=", Declared(Name(I))))
        member == TypeDef(W("type", Flags({"extern"}, J))) \cup Class(W("class", J \cup unbound))
                  \cup Method(method) \cup Declared(declared) \cup Def(Member(W("def", Flagged({"static"}))))
                  \cup W(";", field)
    IN  I \cup ClassMembers(member)

RECURSIVE Module(_), Declarations(_)
\* Flags that nothing follows go unnoticed before the "}" of a module.
Module(I) ==
    LET decls == Declarations(W("{", Name(I))) IN Close(decls) \cup W("}", Flags({"extern", "abstract", "static"}, decls))
Declarations(I) ==
    LET J == Annotations(I)
        extern == Flags({"extern"}, J)
        decl == Module(W("module", J)) \cup ModulePaths(W("using", I))
                \cup TypeDef(W("type", extern)) \cup Class(W("class", Flags({"extern", "abstract"}, J)))
                \cup Def(Name(W("def", J))) \cup Declared(Name(W("def", W("extern", extern))))
    IN  IF I = {} THEN {} ELSE I \cup Declarations(decl)

RECURSIVE Modules(_)
Modules(I) == IF I = {} THEN {} ELSE I \cup Modules(Module(W("module", Annotations(I))))

Phrase(what, I) ==
    IF I = {} THEN {} ELSE
    CASE what = "modules" -> Modules(I)
      [] what = "expression" -> Operation(I)
      [] what = "type" -> WholeType(TRUE, I)
      [] what = "type without =>" -> WholeType(FALSE, I)
      [] what = "kind" -> OneKind(I)
      [] what = "parameter of a kind" -> Kind(Optionally(In({"in", "out"}, I), I))
      [] what = "parameter" -> TypeParameterPhrase(I)
      [] what = "field" -> Type(TRUE, W(":", Name(I)))
      [] what = "statement" -> OneStatement(I)
      [] what = "statements" -> SomeStatements(I)
      [] what = "members" -> SomeMembers(I)

\* A source is read as long as two words are left: the last word of a file may be anything.
Grammatical == \E i \in Phrase("modules", {1}): i >= Len(source)

-----------------------------------------------------------------------------
(* The properties *)

parsing == <<source, loose, parser, printed>>
Next == (parse /\ UNCHANGED printed) \/ print

Parsed == parser.over = "parsed"
Accepts == Parsed /\ parser.errors = {}

-----------------------------------------------------------------------------
(***************************************************************************)
(* The tree of the words i..j of an expression of names, literals, calls,  *)
(* members, functions and operators: what is right of the first => is its  *)
(* body, and of the operators left of it the loosest one is the root.      *)
(***************************************************************************)
Depth(i, k) == Cardinality(Only({"("}, i..k - 1)) - Cardinality(Only({")"}, i..k - 1))
Outer(i, j) == {k \in i..j : Depth(i, k) = 0}
EndsOperand(k) == source[k] \in Names \cup Literals \cup {")", "this"}
Binary(i, j) == {k \in Outer(i, j) : k > i /\ EndsOperand(k - 1) /\ source[k] \in Infix \ Specials}
Root(ops) ==
    LET loosest == {k \in ops : \A o \in ops: PRECEDENCE[source[k]] <= PRECEDENCE[source[o]]}
    IN  IF \A k \in loosest: isRightAssociative(source[k]) THEN Min(loosest) ELSE Max(loosest)

RECURSIVE Tree(_, _), Trees(_, _)
\* Those of the phrases between the commas of i..j.
Trees(i, j) ==
    LET commas == {k \in Outer(i, j) : source[k] = ","}
    IN  IF i > j THEN <<>>
        ELSE IF commas = {} THEN <<Tree(i, j)>>
        ELSE <<Tree(i, Min(commas) - 1)>> \o Trees(Min(commas) + 1, j)
Tree(i, j) ==
    LET arrows == {k \in Outer(i, j) : source[k] = "=>"}
        ops == Binary(i, IF arrows = {} THEN j ELSE Min(arrows))
        root == Root(ops)
        arrow == Min(arrows)
        args == IF arrow = i THEN Tuple(<<>>) ELSE Tree(i, arrow - 1)
        open == Max({k \in Outer(i, j) : source[k] = "("})
        inner == Trees(open + 1, j - 1)
    IN  CASE ops # {} -> makeBinary(Tree(i, root - 1), Tree(root + 1, j), source[root])
          [] ops = {} /\ source[i] \in {"-", "+", "!", "~"} -> makeMethodCall(Tree(i + 1, j), source[i], <<>>, Null)
          [] ops = {} /\ source[i] \notin {"-", "+", "!", "~"} /\ arrows # {} ->
                FunctionCreation("", Null, args, Tree(arrow + 1, j), Null, <<>>)
          [] OTHER ->
                IF i = j THEN IF source[i] \in Literals THEN Literal(source[i])
                              ELSE IF source[i] = "this" THEN This ELSE Identifier(source[i])
                ELSE IF source[j - 1] = "." THEN MemberAccess(Tree(i, j - 2), Identifier(source[j]))
                ELSE IF open > i THEN FunctionCall(Tree(i, open - 1), Null, Tuple(inner))
                ELSE IF Len(inner) = 1 THEN inner[1] ELSE Tuple(inner)

\* A source that is module m { def x = e } for an expression e of these words.
Simple == Names \cup Literals \cup (Infix \ {"[", "->", ":"}) \cup {")", ",", "!", "~", "this"}
IsExpression ==
    /\ Len(source) > 7 /\ SubSeq(source, 4, 4) = <<"def">> /\ source[6] = "="
    /\ \A k \in 7..Len(source) - 1: source[k] \in Simple /\ (source[k] = "." => source[k + 1] \in Names)

-----------------------------------------------------------------------------
\* The parts of a node that may be left out.
Optional(kind) ==
    CASE kind = "ClassDecl" -> {1, 5}
      [] kind = "DefineDecl" -> {2, 3}
      [] kind = "IfExpression" -> {3}
      [] kind = "FunctionCreation" -> {1, 4}
      [] kind = "FunctionCall" -> {2}
      [] kind = "ProperTypeKindSpecifier" -> {1, 2}
      [] OTHER -> {}

RECURSIVE Whole(_)
Whole(n) ==
    \A i \in DOMAIN n.parts: IF n.parts[i] = Null THEN i \in Optional(n.kind) ELSE Whole(n.parts[i])

\* What the printer writes so that it is read back: of a node nothing is left out, nor a ";" or a name that is needed.
Spelled(name) == name \in Names \cup Overridable \cup {"()"} \cup {"(" \o o \o ")" : o \in Assignments}

RECURSIVE Printable(_)
Printable(n) ==
    LET p == n.parts
        Complete ==
            CASE n.kind = "ModuleDecl" -> p[6].parts = <<>>
              [] n.kind = "TypeDecl" -> p[3].parts = <<>> /\ n.word = ""
              [] n.kind = "ClassDecl" -> p[6].parts = <<>> /\ p[5] = Null
              [] n.kind = "DefineDecl" -> p[5].parts = <<>> /\ ~HasFlag(n, "static") /\ ~HasFlag(n, "constructor")
              [] n.kind = "FunctionCreation" -> p[5].parts = <<>>
              [] n.kind = "Block" ->
                    p[2].parts = <<>> /\ \A i \in DOMAIN p[1].parts: p[1].parts[i].kind \in {"ExpressionStatement", "Block"}
              [] n.kind = "Identifier" -> Spelled(n.word)
              [] OTHER -> n.kind \notin {"TypeTuple", "TypeToBeInferred", "IfExpression", "Instantiation"}
    IN  Complete /\ \A i \in DOMAIN p: Printable(p[i])

-----------------------------------------------------------------------------
\* An annotation of a statement this; is not reported, but kept for what comes next.
AnnotatedThis == Annotations(Only({"@"}, DOMAIN source)) \cap Only({"this"}, DOMAIN source) # {}

\* A source is parsed without an error exactly if the grammar derives it (Parser::parse and all it calls): no lookahead
\* of the parser refuses what can be read otherwise, none accepts what cannot, and no error goes unreported.
AcceptedIffGrammatical == Parsed /\ printed = Null /\ ~AnnotatedThis => (Accepts <=> Grammatical)

\* The operators of an expression are applied as their precedences and associativities say, unary operators, calls,
\* members and functions included (parseBinary and its recursion against the loosest operator of a phrase).
PrecedenceRespected ==
    Accepts /\ printed = Null /\ IsExpression =>
        parser.node.parts[1].parts[4].parts[1].parts[3] = Tree(7, Len(source) - 1)

\* The parser gives up only on a source it has reported an error of, and a tree it reports none of has no null pointer
\* where the passes that follow expect a node.
NoHoles ==
    /\ parser.over \in {"crash", "loop", "fatal"} => parser.errors # {}
    /\ Accepts => Whole(parser.node)

\* The text of a tree is read back as the same tree, if the printer can write all of it.
ReadsBack == parser # Start /\ printed # Null /\ Printable(printed) => Accepts /\ parser.node = printed
=============================================================================
