-------------------------------- MODULE Parser --------------------------------
(***************************************************************************)
(* Parser.cpp: recursive descent over the tokens of a source.  A parsing   *)
(* function takes the state of the parser and gives the next one, whose    *)
(* node is what the function returns:                                      *)
(*   at        the index of the current token (EOF is for ever the last)   *)
(*   errors    the tokens at which an error was reported                   *)
(*   pending   _parsedAnnotations                                          *)
(*   typeName  _currentTypeName                                            *)
(*   over      why parsing stopped early: "fatal" is an exception, "crash" *)
(*             a null pointer that is followed, "loop" a loop that reads   *)
(*             nothing; the tokens left are skipped then                   *)
(* Positions are left out; only the "(" of an annotation depends on one,   *)
(* and loose holds the tokens that a space precedes.                       *)
(***************************************************************************)
EXTENDS Tokens, Sequences

CONSTANTS Names,        \* identifiers
          Literals      \* bool, int, real and string literals

VARIABLES source,       \* the words of the tokens
          loose,        \* the tokens that do not follow the one before them directly
          parser        \* the state of the parser

-----------------------------------------------------------------------------
(***************************************************************************)
(* Syntax trees (AST/Nodes): a node is its kind, the word it holds and its *)
(* parts; positions and the names of functions are left out.  nullptr is   *)
(* Null.                                                                   *)
(***************************************************************************)
Node(kind, word, parts) == [kind |-> kind, word |-> word, parts |-> parts]
Null == Node("null", "", <<>>)
List(nodes) == Node("list", "", nodes)

\* Declarations.  usings, annots and flags are lists.
Program(modules) == Node("Program", "", modules)
ModuleDecl(name, mods, types, decls, usings, annots) ==
    Node("ModuleDecl", "", <<name, List(mods), List(types), List(decls), List(usings), List(annots)>>)
TypeDecl(name, expr, extern, annots) == Node("TypeDecl", extern, <<name, expr, List(annots)>>)
ClassDecl(name, parent, tdecls, fields, defs, abstract, annots) ==
    Node("ClassDecl", name, <<parent, List(tdecls), List(fields), List(defs), abstract, List(annots)>>)
DefineDecl(name, typeSpecifier, value, flags, annots) ==
    Node("DefineDecl", "", <<name, typeSpecifier, value, flags, List(annots)>>)
Annotation(name, args) == Node("Annotation", name, args)
ModulePath(names) == Node("ModulePath", "", names)

\* DefFlags: a set of flags is the list of them, in the order of their bits.
DefFlags(flags) ==
    LET bits == SelectSeq(<<"redef", "extern", "abstract", "static", "constructor">>, LAMBDA f: f \in flags)
    IN  List([i \in DOMAIN bits |-> Node("flag", bits[i], <<>>)])
HasFlag(def, flag) == Node("flag", flag, <<>>) \in {def.parts[4].parts[i] : i \in DOMAIN def.parts[4].parts}

\* Expressions.
ExpressionStatement(expr) == Node("ExpressionStatement", "", <<expr>>)
AssignmentExpression(lhs, rhs) == Node("AssignmentExpression", "", <<lhs, rhs>>)
TypeSpecifier(specified, type) == Node("TypeSpecifier", "", <<specified, type>>)
Block(stats, usings) == Node("Block", "", <<List(stats), List(usings)>>)
IfExpression(cond, then, els) == Node("IfExpression", "", <<cond, then, els>>)
MemberAccess(accessed, member) == Node("MemberAccess", "", <<accessed, member>>)
Tuple(exprs) == Node("Tuple", "", exprs)
FunctionCreation(name, typeArgs, args, body, retType, annots) ==
    Node("FunctionCreation", name, <<typeArgs, args, body, retType, List(annots)>>)
FunctionCall(callee, typeArgs, args) == Node("FunctionCall", "", <<callee, typeArgs, args>>)
Instantiation(class) == Node("Instantiation", "", <<class>>)
Identifier(name) == Node("Identifier", name, <<>>)
This == Node("This", "", <<>>)
Literal(word) == Node("Literal", word, <<>>)

\* Type expressions (a ClassDecl is one too).
FunctionTypeDecl(typeArgs, args, ret) == Node("FunctionTypeDecl", "", <<List(typeArgs), List(args), ret>>)
TypeMemberAccess(accessed, member) == Node("TypeMemberAccess", "", <<accessed, member>>)
TypeTuple(exprs) == Node("TypeTuple", "", exprs)
TypeConstructorCreation(name, args, body) == Node("TypeConstructorCreation", name, <<args, body>>)
TypeConstructorCall(callee, args) == Node("TypeConstructorCall", "", <<callee, args>>)
TypeIdentifier(name) == Node("TypeIdentifier", name, <<>>)
TypeToBeInferred == Node("TypeToBeInferred", "", <<>>)
TypeParameter(variance, specified, kind) == Node("TypeParameter", variance, <<specified, kind>>)

\* Kind expressions; the parameters of a constructor's kind have a variance.
ProperTypeKindSpecifier(lb, ub) == Node("ProperTypeKindSpecifier", "", <<lb, ub>>)
KindParameter(variance, kind) == Node("KindParameter", variance, <<kind>>)
TypeConstructorKindSpecifier(params, ret) == Node("TypeConstructorKindSpecifier", "", <<List(params), ret>>)

\* isNodeOfType<T>: what a null pointer is, is never asked.
IsNodeOfType(node, kind) == node.kind = kind

-----------------------------------------------------------------------------
EOF == "end of file"
Current(s) == IF s.at \in DOMAIN source THEN source[s.at] ELSE EOF
hasNext(s) == s.at < Len(source)                  \* of the lexer, which is one token ahead
isOper(s) == Current(s) \in OPERATORS
Precedence(s) == PRECEDENCE[Current(s)]

Start == [at |-> 1, errors |-> {}, pending |-> <<>>, typeName |-> "", over |-> "", node |-> Null]

Accept(s) == [s EXCEPT !.at = IF @ <= Len(source) THEN @ + 1 ELSE @]
Accepted(s, w) == IF Current(s) = w THEN Accept(s) ELSE s
Report(s) == [s EXCEPT !.errors = @ \cup {s.at}]
expect(s, w) == IF Current(s) = w THEN Accept(s) ELSE Report(s)
Give(s, node) == [s EXCEPT !.node = node]
Stop(s, why) == [s EXCEPT !.over = IF @ = "" THEN why ELSE @, !.at = Len(source) + 1]
Crash(s) == Give(Stop(s, "crash"), Null)

parseIdentifier(s) ==
    IF Current(s) \in Names THEN Give(Accept(s), Identifier(Current(s))) ELSE Give(Report(s), Identifier(""))
parseTypeIdentifier(s) ==
    IF Current(s) \in Names THEN Give(Accept(s), TypeIdentifier(Current(s))) ELSE Give(Report(s), TypeIdentifier(""))

consumeAnnotations(s) == [s EXCEPT !.pending = <<>>]
forgetAnnotations(s) == consumeAnnotations(s)  \* mutant: nothing is reported
reportErroneousAnnotations(s) == IF s.pending = <<>> THEN s ELSE consumeAnnotations(Report(s))

\* The arguments of an annotation, after its "(".
RECURSIVE parseArguments(_, _)
parseArguments(s, args) ==
    LET n == Accept(s)
        more == Append(args, Literal(Current(s)))
    IN  IF Current(s) \notin Literals THEN Give(Report(s), List(args))
        ELSE IF Current(n) = "," THEN parseArguments(Accept(n), more)
        ELSE Give(expect(n, ")"), List(more))

RECURSIVE parseAnnotations(_)
parseAnnotations(s) ==
    LET name == Accept(s)
        n == Accept(name)
        args == IF Current(n) = "(" /\ n.at \notin loose THEN parseArguments(Accept(n), <<>>) ELSE Give(n, List(<<>>))
    IN  IF Current(s) # "@" THEN s
        ELSE IF Current(name) \notin Names \cup KEYWORDS THEN Report(name)
        ELSE parseAnnotations([args EXCEPT !.pending = Append(@, Annotation(Current(name), args.node.parts))])

\* The flags before a definition, and the state after them.
RECURSIVE parseDefFlags(_, _)
parseDefFlags(s, flags) ==
    IF Current(s) \in {"extern", "abstract", "static"} THEN parseDefFlags(Accept(s), flags \cup {Current(s)})
    ELSE [state |-> s, flags |-> flags]

RECURSIVE parseUsing(_, _)
parseUsing(s, path) ==
    LET n == Accept(s)
        more == Append(path, Identifier(Current(s)))
    IN  IF Current(s) \notin Names THEN Give(Report(s), ModulePath(path))
        ELSE IF Current(n) = "." THEN parseUsing(Accept(n), more)
        ELSE Give(n, ModulePath(more))

Extern(flags) == IF "extern" \in flags THEN "extern" ELSE ""

\* What may be redefined in a class as a method.
Overridable == {"+", "-", "*", "/", "%", "^", "&&", "||", "&", "|", "<<", ">>", "!", "~", "==", "<", ">", "<=", ">="}

parseOperatorsAsIdentifer(s) ==
    LET in == Accept(s)
    IN  IF Current(s) = "("
        THEN IF Current(in) \in Assignments
             THEN Give(expect(Accept(in), ")"), Identifier("(" \o Current(in) \o ")"))
             ELSE Give(expect(IF isOper(in) /\ Current(in) # ")" THEN Accept(Report(in)) ELSE in, ")"), Identifier("()"))
        ELSE IF Current(s) \in Overridable THEN Give(Accept(s), Identifier(Current(s)))
        ELSE Give(Accept(Report(s)), Identifier(""))

(***************************************************************************)
(* What an operator between two expressions stands for: f(x) = y calls     *)
(* "(=)", a += b is a = a + b, && and || are conditions, and every other   *)
(* operator is a method of its left operand.                               *)
(***************************************************************************)
makeMethodCall(callee, member, args, typeArgs) ==
    FunctionCall(MemberAccess(callee, Identifier(member)), typeArgs, Tuple(args))

makeAssignment(left, right, oper) ==
    IF IsNodeOfType(left, "FunctionCall")
    THEN makeMethodCall(left.parts[1], "(" \o oper \o ")", Append(left.parts[3].parts, right), left.parts[2])
    ELSE IF oper = "=" THEN AssignmentExpression(left, right)
    ELSE AssignmentExpression(left, makeMethodCall(left, SubSeq(oper, 1, Len(oper) - 1), <<right>>, Null))

makeBinary(left, right, oper) ==
    IF oper \in Assignments THEN makeAssignment(left, right, oper)
    ELSE IF oper = "&&" THEN IfExpression(left, right, Literal("false"))
    ELSE IF oper = "||" THEN IfExpression(left, Literal("true"), right)
    ELSE makeMethodCall(left, oper, <<right>>, Null)

\* A null pointer is followed: to the right operand, unless it is only stored, or to what is called on the left.
FollowsNull(left, right, oper) ==
    IF oper \in Assignments /\ IsNodeOfType(left, "FunctionCall") THEN left.parts[1] = Null
    ELSE right = Null /\ oper # "="

\* ASTExpr2TypeExpr: a name, or a member of a type, is a type too; a member of something else is fatal.
Fatal == Node("fatal", "", <<>>)

RECURSIVE Expr2TypeExpr(_)
Expr2TypeExpr(e) ==
    LET accessed == Expr2TypeExpr(e.parts[1])
    IN  CASE e.kind = "Identifier" -> TypeIdentifier(e.word)
          [] e.kind \in {"TypeConstructorCall", "TypeMemberAccess"} -> e
          [] e.kind = "MemberAccess" ->
                IF e.parts[1] = Null THEN Null
                ELSE IF accessed \in {Null, Fatal} THEN Fatal
                ELSE TypeMemberAccess(accessed, TypeIdentifier(e.parts[2].word))
          [] OTHER -> Null

-----------------------------------------------------------------------------
\* What is parsed from within something else, and the delimiters of those that are lists.
RECURSIVE parsed(_, _)
parseExpression(s) == parsed(s, "expression")
parseTypeExpression(s, allow) == parsed(s, IF allow THEN "type" ELSE "type without =>")
parseKindSpecifyingExpression(s) == parsed(s, "kind")
parseStatement(s) == parsed(s, "statement")
parseBlock(s) == parsed(s, "block")
\* The node of the state is what is known of the class before it is read.
parseClassBody(s, name, abstract, anonymous) ==
    parsed(Give(s, Node(IF anonymous THEN "anonymous" ELSE "named", name,
                        IF abstract THEN <<Node("flag", "abstract", <<>>)>> ELSE <<Null>>)), "class")

\* Elements separated by commas up to a delimiter; those that are null are left out.
RECURSIVE parseElements(_, _, _)
parseElements(s, what, nodes) ==
    LET e == parsed(s, what)
        n == Accept(e)
        more == IF e.node = Null THEN nodes ELSE Append(nodes, e.node)
    IN  IF Current(e) # "," THEN Give(e, List(more))
        ELSE IF Current(n) = EOF THEN Give(n, List(more))
        ELSE parseElements(n, what, more)

parseTuple(s, what, delimiter) ==
    IF Current(s) = delimiter THEN Give(Accept(s), List(<<>>))
    ELSE expect(parseElements(s, what, <<>>), delimiter)

-----------------------------------------------------------------------------
(***************************************************************************)
(* Types and kinds.                                                        *)
(***************************************************************************)
parseArrowQuiet(s, allow) ==  \* mutant: the missing arrow is not reported
    LET ret == parseTypeExpression(Accept(s), allow)
    IN  IF Current(s) = "->" THEN Give(ret, FunctionTypeDecl(<<>>, s.node.parts, ret.node))
        ELSE Give(s, IF Len(s.node.parts) = 1 THEN s.node.parts[1] ELSE Null)

parseArrow(s, allow) ==
    LET ret == parseTypeExpression(Accept(s), allow)
    IN  IF Current(s) = "->" THEN Give(ret, FunctionTypeDecl(<<>>, s.node.parts, ret.node))
        ELSE IF Len(s.node.parts) = 1 THEN Give(s, s.node.parts[1])
        ELSE Give(Report(s), Null)

parseTypeParameters(s) == LET t == parseTuple(s, "parameter", "]") IN Give(t, TypeTuple(t.node.parts))

\* A type that starts with type parameters: [T](A, B)->C, or only the parameters.
parsePolymorphicType(s, allow) ==
    LET params == parseTypeParameters(s)
        args == parseTuple(Accept(params), "type", ")")
        ret == parseTypeExpression(Accept(args), allow)
    IN  IF Current(params) # "(" THEN Give(params, List(<<params.node>>))
        ELSE IF Current(args) # "->" THEN Give(Report(args), List(<<params.node>>))
        ELSE Give(ret, List(<<FunctionTypeDecl(params.node.parts, args.node.parts, ret.node)>>))

parseClass(s, abstract) ==
    IF Current(s) \in Names THEN parseClassBody(Accept(s), Current(s), abstract, FALSE)
    ELSE parseClassBody(s, s.typeName, abstract, FALSE)

parseTypePrimary(s0, allow) ==
    LET s == parseAnnotations(s0)
        w == Current(s)
        n == Accept(s)
        class == Accepted(s, "abstract")
        ret == parseTypeExpression(n, allow)
        Typed(e) == parseArrow(reportErroneousAnnotations(e), allow)
    IN  CASE w \in Names -> Typed(Give(n, List(<<TypeIdentifier(w)>>)))
          [] w = "[" -> Typed(parsePolymorphicType(n, allow))
          [] w = "(" -> Typed(parseTuple(n, "type", ")"))
          [] w = "->" -> Typed(Give(ret, List(<<FunctionTypeDecl(<<>>, <<>>, ret.node)>>)))
          [] w \in OPERATORS \ {"[", "(", "->"} -> Give(Report(s), Null)
          [] w \in KEYWORDS /\ Current(class) = "class" -> parseClass(Accept(class), class # s)
          [] w \in KEYWORDS /\ Current(class) # "class" -> Typed(Give(Accept(Report(class)), List(<<>>)))
          [] OTHER -> Typed(Give(Accept(Report(s)), List(<<>>)))

RECURSIVE parseTypeBinary(_, _, _)
parseTypeBinary(s, precedence, allow) ==
    LET args == parseTuple(Accept(s), "type", "]")
        body == parseTypeExpression(Accept(s), TRUE)
        member == parseTypeIdentifier(Accept(s))
        next == CASE Current(s) = "[" -> Give(args, TypeConstructorCall(s.node, TypeTuple(args.node.parts)))
                  [] Current(s) = "=>" -> Give(body, TypeConstructorCreation(s.typeName, s.node, body.node))
                  [] Current(s) = "." -> Give(member, TypeMemberAccess(s.node, member.node))
                  [] OTHER -> Accept(Report(s))
    IN  IF \/ s.node = Null \/ ~isOper(s) \/ Current(s) \in {"=", "<"}
           \/ Precedence(s) < precedence
           \/ (Current(s) = "=>" /\ ~allow)
        THEN s
        ELSE parseTypeBinary(next, precedence, allow)

Variance(s) == IF Current(s) \in {"in", "out"} THEN Current(s) ELSE ""

parseTypeParameter(s) ==
    LET id == parseTypeIdentifier(Accepted(s, Variance(s)))
        lower == IF Current(id) = ">" THEN parseTypeExpression(Accept(id), FALSE) ELSE Give(id, Null)
        upper == IF Current(lower) = "<" THEN parseTypeExpression(Accept(lower), FALSE) ELSE Give(lower, Null)
        kind == IF Current(id) = ":" THEN parseKindSpecifyingExpression(Accept(id))
                ELSE Give(upper, ProperTypeKindSpecifier(lower.node, upper.node))
    IN  Give(kind, TypeParameter(Variance(s), id.node, kind.node))

parseKindTo(s, params) ==
    LET ret == parseKindSpecifyingExpression(Accept(s)) IN Give(ret, TypeConstructorKindSpecifier(params, ret.node))

parseKind(s) ==
    LET lower == IF Current(s) \in {"*", "["} THEN Give(s, Null) ELSE expect(parseTypeExpression(s, FALSE), "<")
        star == Accept(lower)
        upper == IF Current(star) = "<" THEN parseTypeExpression(Accept(star), FALSE) ELSE Give(star, Null)
        proper == Give(upper, ProperTypeKindSpecifier(lower.node, upper.node))
        params == parseTuple(star, "parameter of a kind", "]")
    IN  CASE Current(lower) = "*" /\ Current(proper) = "->" -> parseKindTo(proper, <<KindParameter("", proper.node)>>)
          [] Current(lower) = "*" /\ Current(proper) # "->" -> proper
          [] Current(lower) = "[" /\ Current(params) = "->" -> parseKindTo(params, params.node.parts)
          [] Current(lower) = "[" /\ Current(params) # "->" -> Give(Report(params), Null)
          [] OTHER -> Give(Accept(Report(lower)), Null)

parseTypeConstructorKindSpecifierParameter(s) ==
    LET kind == parseKindSpecifyingExpression(Accepted(s, Variance(s)))
    IN  IF kind.node = Null THEN kind ELSE Give(kind, KindParameter(Variance(s), kind.node))

-----------------------------------------------------------------------------
(***************************************************************************)
(* Expressions.                                                            *)
(***************************************************************************)
parseIf(s, asStatement) ==
    LET Branch(b) == IF asStatement THEN parseStatement(b) ELSE parseExpression(b)
        cond == parseExpression(expect(s, "("))
        then == Branch(expect(cond, ")"))
        els == IF Current(then) = "else" THEN Branch(Accept(then)) ELSE Give(then, Null)
    IN  Give(els, IfExpression(cond.node, then.node, els.node))

\* An anonymous class: its constructor takes nothing.
parseNew(s) ==
    LET class == parseClassBody(s, "", FALSE, TRUE)
    IN  Give(class, FunctionCall(Instantiation(class.node), Null, Tuple(<<>>)))

parseTypeSpecifier(s) ==
    LET type == parseTypeExpression(s, TRUE)
    IN  IF Current(s) = "=" THEN Give(s, TypeSpecifier(s.node, TypeToBeInferred))
        ELSE Give(type, TypeSpecifier(s.node, type.node))

parseUnary(s) ==
    LET callee == parsed(Accept(s), "operand")
    IN  IF callee.node = Null THEN Crash(callee) ELSE Give(callee, makeMethodCall(callee.node, Current(s), <<>>, Null))

\* The body of a function whose arguments are read, and the annotations that are its own.
parseFunction(s, typeArgs, args, retType, annots) ==
    LET body == parseExpression(s)
    IN  Give(body, FunctionCreation("", typeArgs, args, body.node, retType, annots))

\* -> T => body, or => body
parseReturn(s, typeArgs, args, annots) ==
    LET ret == IF Current(s) = "->" THEN parseTypeExpression(Accept(s), FALSE) ELSE Give(s, Null)
    IN  parseFunction(expect(ret, "=>"), typeArgs, args, ret.node, annots)

parsePolymorphicFunction(s) ==
    LET params == parseTypeParameters(consumeAnnotations(s))
        args == parseTuple(expect(params, "("), "expression", ")")
    IN  parseReturn(args, params.node, Tuple(args.node.parts), s.pending)

\* The annotations before the "(" are kept for the function that may follow the ")".
parseParenthesized(s) ==
    LET tuple == [parseTuple(consumeAnnotations(s), "expression", ")") EXCEPT !.pending = s.pending]
    IN  Give(tuple, IF Len(tuple.node.parts) = 1 THEN tuple.node.parts[1] ELSE Tuple(tuple.node.parts))

parsePrimary(s0) ==
    LET s == parseAnnotations(s0)
        w == Current(s)
        n == Accept(s)
        primary ==
            CASE w \in Literals -> Give(n, Literal(w))
              [] w \in Names -> IF Current(n) = ":" THEN parseTypeSpecifier(Give(Accept(n), Identifier(w)))
                                ELSE Give(n, Identifier(w))
              [] w = "[" -> parsePolymorphicFunction(n)
              [] w = "{" -> parseBlock(n)
              [] w = "=>" -> parseFunction(consumeAnnotations(n), Null, Tuple(<<>>), Null, n.pending)
              [] w \in {"-", "+", "!", "~"} -> parseUnary(s)
              [] w = "if" -> parseIf(n, FALSE)
              [] w = "this" -> Give(n, This)
              [] w = "new" -> parseNew(n)
              [] OTHER -> Give(Accept(Report(s)), Null)
    IN  IF w = "(" THEN parseParenthesized(n) ELSE reportErroneousAnnotations(primary)

\* Type arguments: of a call, or of a type if no call follows.
parseTypeArguments(s, left) ==
    LET typeArgs == parseTuple(s, "type", "]")
        args == parseTuple(Accept(typeArgs), "expression", ")")
        typeLeft == Expr2TypeExpr(left)
    IN  IF Current(typeArgs) = "("
        THEN Give(args, FunctionCall(left, TypeTuple(typeArgs.node.parts), Tuple(args.node.parts)))
        ELSE IF typeLeft = Null THEN Give(Report(typeArgs), Null)
        ELSE IF typeLeft = Fatal THEN Give(Stop(Report(typeArgs), "fatal"), Null)
        ELSE parseTypeBinary(Give(typeArgs, TypeConstructorCall(typeLeft, TypeTuple(typeArgs.node.parts))),
                             PRECEDENCE["["], TRUE)

parseSpecialBinaryContinuity(s) ==
    LET n == Accept(s)
        args == parseTuple(n, "expression", ")")
        id == IF isOper(n) THEN parseOperatorsAsIdentifer(n) ELSE parseIdentifier(n)
    IN  reportErroneousAnnotations(
            CASE Current(s) = "(" -> Give(args, FunctionCall(s.node, Null, Tuple(args.node.parts)))
              [] Current(s) = "[" -> parseTypeArguments(n, s.node)
              [] Current(s) \in {"=>", "->"} -> parseReturn(consumeAnnotations(s), Null, s.node, s.pending)
              [] Current(s) = "." -> Give(id, MemberAccess(s.node, id.node))
              [] OTHER -> Give(s, Null))

RECURSIVE parseBinary(_, _), parseRight(_, _)
parseRightFlat(s, precedence) ==  \* mutant: no operator is right associative
    IF isOper(s) /\ Precedence(s) > precedence THEN parseRight(parseBinary(s, Precedence(s)), precedence) ELSE s

\* The right operand takes the operators that bind tighter, or as tight if they are right associative.
parseRight(s, precedence) ==
    IF /\ isOper(s)
       /\ \/ Precedence(s) > precedence
          \/ Precedence(s) = precedence /\ isRightAssociative(Current(s))
    THEN parseRight(parseBinary(s, Precedence(s)), precedence)
    ELSE s

operate(left, right, oper) ==
    IF left = Null THEN Give(right, Null)
    ELSE IF FollowsNull(left, right.node, oper) THEN Crash(right)
    ELSE Give(right, makeBinary(left, right.node, oper))

parseBinary(s, precedence) ==
    LET special == parseSpecialBinaryContinuity(s)
        next == IF special.node # Null THEN special
                ELSE operate(s.node, parseRight(parsePrimary(Accept(special)), Precedence(s)), Current(s))
    IN  IF ~isOper(s) \/ Precedence(s) < precedence THEN s ELSE parseBinary(next, precedence)

-----------------------------------------------------------------------------
(***************************************************************************)
(* Declarations.                                                           *)
(***************************************************************************)
parseDef(s, flags, name) ==
    LET id == IF name = Null THEN parseIdentifier(consumeAnnotations(s)) ELSE Give(consumeAnnotations(s), name)
        type == parseTypeExpression(expect(id, ":"), TRUE)
        value == CASE Current(id) = ":" -> parseExpression(expect(type, "="))
                   [] Current(id) \in {"(", "["} -> parseExpression(id)
                   [] OTHER -> parseExpression(expect(id, "="))
    IN  IF flags \cap {"extern", "abstract"} # {}
        THEN Give(type, DefineDecl(id.node, type.node, Null, DefFlags(flags), s.pending))
        ELSE Give(value, DefineDecl(id.node, IF Current(id) = ":" THEN type.node ELSE Null, value.node,
                                    DefFlags(flags), s.pending))

parseTypeDecl(s, extern) ==
    LET id == parseTypeIdentifier(consumeAnnotations(s))
        expr == parseTypeExpression([Accepted(id, "=") EXCEPT !.typeName = id.node.word], TRUE)
    IN  Give([expr EXCEPT !.typeName = s.typeName], TypeDecl(id.node, expr.node, extern, s.pending))

desugarTopLevelClassDecl(s, flags) ==
    LET id == parseTypeIdentifier(s)
        open == Accepted(id, "=")
        params == parseTypeParameters(Accept(open))
        Class(t) == parseClassBody(t, id.node.word, "abstract" \in flags, FALSE)
        Declared(class, expr) == Give(class, TypeDecl(id.node, expr, Extern(flags), <<>>))
        polymorphic == Class(params)
        plain == Class(open)
    IN  IF Current(open) = "["
        THEN Declared(polymorphic, TypeConstructorCreation(id.node.word, params.node, polymorphic.node))
        ELSE Declared(plain, plain.node)

makeFunctionDef(name, params, body, flags) ==
    DefineDecl(Identifier(name), Null,
               FunctionCreation(name, Null, Tuple(params), Block(body, <<>>), Null, <<>>), DefFlags(flags), <<>>)

\* class A(x: T): a field, a parameter of the constructor and an assignment for each.
parseField(s) ==
    LET id == parseIdentifier(s)
        type == parseTypeExpression(expect(id, ":"), TRUE)
    IN  Give(type, TypeSpecifier(id.node, type.node))

trivialConstructor(fields) ==
    LET Param(i) == Identifier(fields[i].parts[1].word \o "$arg")
    IN  makeFunctionDef("new", [i \in DOMAIN fields |-> TypeSpecifier(Param(i), fields[i].parts[2])],
                        [i \in DOMAIN fields |-> AssignmentExpression(fields[i].parts[1], Param(i))], {"constructor"})

\* What has been read of a class.
Members(fields, defs) == [tdecls |-> <<>>, fields |-> fields, defs |-> defs, statics |-> <<>>]

\* One member, after its annotations and flags: the flags it may have are consumed, the others are errors.
parseMember(s, members, flags) ==
    LET w == Current(s)
        n == Accept(s)
        name == IF isOper(n) THEN parseOperatorsAsIdentifer(n) ELSE Give(n, Null)
        Def(of, own, allowed) == parseDef(of, own \cup (flags \cap allowed), of.node)
        tdecl == IF w = "type" THEN parseTypeDecl(n, Extern(flags)) ELSE desugarTopLevelClassDecl(n, flags)
        def == CASE w = "new" -> Def(Give(n, Identifier("new")), {"constructor"}, {"extern"})
                 [] w = "def" -> Def(name, {}, {"extern", "abstract", "static"})
                 [] w = "redef" -> Def(name, {"redef"}, {"extern", "abstract"})
        field == parseField(s)
        init == IF Current(field) = "=" THEN parseExpression(Accept(field)) ELSE Give(field, Null)
        statics == IF Current(field) = "=" THEN <<AssignmentExpression(field.node.parts[1], init.node)>> ELSE <<>>
        consumed == CASE w \in {"type", "new"} -> {"extern"} [] w \in {"class", "redef"} -> {"extern", "abstract"}
                      [] w = "def" -> {"extern", "abstract", "static"} [] OTHER -> {}
        Read(to, with) == [state |-> IF flags \subseteq consumed THEN to ELSE [to EXCEPT !.errors = @ \cup {s.at}],
                           members |-> with]
    IN  CASE w \in {"type", "class"} -> Read(tdecl, [members EXCEPT !.tdecls = Append(@, tdecl.node)])
          [] w \in {"new", "def", "redef"} -> Read(def, [members EXCEPT !.defs = Append(@, def.node)])
          [] OTHER -> Read(expect(init, ";"), [members EXCEPT !.fields = Append(@, field.node), !.statics = @ \o statics])

Exclusive == {{"extern", "abstract"}, {"static", "abstract"}}

\* A member was read from the state s.
Advance(s, read) ==
    LET next == reportErroneousAnnotations(read.state)
    IN  [read EXCEPT !.state = IF next.at = s.at THEN Stop(next, "loop") ELSE next]

RECURSIVE parseMembers(_)
\* The members up to the "}"; a field that is none reads nothing, again and again.
parseMembers(body) ==
    LET f == parseDefFlags(parseAnnotations(body.state), {})
        s == IF \E pair \in Exclusive: pair \subseteq f.flags THEN Report(f.state) ELSE f.state
    IN  IF Current(body.state) \in {"}", EOF} THEN [body EXCEPT !.state = Accept(@)]
        ELSE parseMembers(Advance(body.state, parseMember(s, body.members, f.flags)))

\* The initial values of the fields are assigned in every constructor, but after the parameters of class A(...).
WithStatics(def, statics, first) ==
    LET f == def.parts[3]
        body == IF first THEN <<f.parts[3]>> \o statics ELSE statics \o <<f.parts[3]>>
    IN  IF HasFlag(def, "constructor") /\ IsNodeOfType(f, "FunctionCreation") /\ statics # <<>>
        THEN [def EXCEPT !.parts[3].parts[3] = Block(body, <<>>)]
        ELSE def

IsMethod(def) == def.parts[3] = Null \/ HasFlag(def, "static") \/ IsNodeOfType(def.parts[3], "FunctionCreation")

\* What precedes the "{" of a class.
parseClassHead(s, anonymous) ==
    LET trivial == parseTuple(Accept(s), "field", ")")
        read == IF anonymous \/ Current(s) # "(" THEN s ELSE trivial
        parent == CASE anonymous -> IF Current(read) = "{" THEN Give(read, Null) ELSE parseTypeExpression(read, TRUE)
                    [] ~anonymous -> IF Current(read) = ":" THEN parseTypeExpression(Accept(read), TRUE) ELSE Give(read, Null)
        fields == IF anonymous \/ Current(s) # "(" THEN <<>> ELSE trivial.node.parts
    IN  [state |-> IF anonymous /\ Current(parent) # "{" THEN Report(parent) ELSE parent,
         trivial |-> ~anonymous /\ Current(s) = "(", parent |-> parent.node,
         members |-> Members(fields, IF anonymous \/ Current(s) = "(" THEN <<trivialConstructor(fields)>> ELSE <<>>)]

makeClass(body, head, known) ==
    LET m == body.members
        defs == [i \in DOMAIN m.defs |-> WithStatics(m.defs[i], m.statics, head.trivial /\ i = 1)]
    IN  Give(IF \A i \in DOMAIN m.defs: IsMethod(m.defs[i]) THEN body.state ELSE Report(body.state),
             ClassDecl(known.node.word, head.parent, m.tdecls, m.fields, defs, known.node.parts[1], known.pending))

parseOneClass(s) ==
    LET head == parseClassHead(consumeAnnotations(s), s.node.kind = "anonymous")
        body == [state |-> head.state, members |-> head.members]
    IN  makeClass(IF Current(head.state) = "{" THEN parseMembers([body EXCEPT !.state = Accept(@)]) ELSE body, head, s)

-----------------------------------------------------------------------------
(***************************************************************************)
(* Statements.                                                             *)
(***************************************************************************)
parseOneStatement(s0) ==
    LET s == parseAnnotations(s0)
        w == Current(s)
        n == Accept(s)
        expr == expect(parseExpression(reportErroneousAnnotations(s)), ";")
        Misplaced(e) == Give([e EXCEPT !.errors = @ \cup {s0.at}], Null)
    IN  CASE w = "def" -> expect(parseDef(n, {}, Null), ";")
          [] w = "type" -> expect(parseTypeDecl(n, ""), ";")
          [] w = "class" -> expect(desugarTopLevelClassDecl(n, {}), ";")
          [] w = "if" -> parseIf(reportErroneousAnnotations(n), TRUE)
          [] w = "this" -> expect(Give(n, This), ";")
          [] w = "new" -> expect(parseNew(n), ";")
          [] w = "abstract" -> IF Current(n) = "class" THEN expect(desugarTopLevelClassDecl(Accept(n), {"abstract"}), ";")
                               ELSE Misplaced(n)
          [] w \in KEYWORDS \ {"def", "type", "class", "if", "this", "new", "abstract"} ->
                Misplaced(reportErroneousAnnotations(n))
          [] w = "{" -> parseBlock(reportErroneousAnnotations(n))
          [] OTHER -> Give(expr, ExpressionStatement(expr.node))

RECURSIVE parseStatements(_, _, _)
parseStatements(s, stats, usings) ==
    LET used == parseUsing(Accept(s), <<>>)
        stat == parseStatement(s)
    IN  IF Current(s) \in {"}", EOF} THEN Give(Accept(s), Block(stats, usings))
        ELSE IF Current(s) = "using" THEN parseStatements(expect(used, ";"), stats, Append(usings, used.node))
        ELSE parseStatements(stat, Append(stats, stat.node), usings)

-----------------------------------------------------------------------------
(***************************************************************************)
(* Modules and programs.                                                   *)
(***************************************************************************)
NoDeclarations == [mods |-> <<>>, types |-> <<>>, decls |-> <<>>, usings |-> <<>>]

RECURSIVE parseModule(_), parseDeclarations(_)
\* One declaration of a module, after its annotations and flags.
parseDeclaration(s, declared, flags) ==
    LET w == Current(s)
        n == Accept(s)
        module == parseModule(n)
        tdecl == IF w = "type" THEN parseTypeDecl(n, Extern(flags)) ELSE desugarTopLevelClassDecl(n, flags)
        def == parseDef(n, flags \cap {"extern"}, Null)
        used == parseUsing(n, <<>>)
        consumed == CASE w \in {"type", "def"} -> {"extern"} [] w = "class" -> {"extern", "abstract"} [] OTHER -> {}
        Read(to, with) == [state |-> reportErroneousAnnotations(
                                        IF flags \subseteq consumed THEN to ELSE [to EXCEPT !.errors = @ \cup {s.at}]),
                           declared |-> with]
    IN  CASE w = "module" -> Read(module, [declared EXCEPT !.mods = Append(@, module.node)])
          [] w \in {"type", "class"} -> Read(tdecl, [declared EXCEPT !.types = Append(@, tdecl.node)])
          [] w = "def" -> Read(def, [declared EXCEPT !.decls = Append(@, def.node)])
          [] w = "using" -> Read(used, [declared EXCEPT !.usings = Append(@, used.node)])

parseDeclarations(body) ==
    LET f == parseDefFlags(parseAnnotations(body.state), {})
    IN  IF Current(body.state) \in {"}", EOF} THEN [body EXCEPT !.state = Accept(@)]
        ELSE IF Current(f.state) \in {"module", "type", "class", "def", "using"}
             THEN parseDeclarations(parseDeclaration(f.state, body.declared, f.flags))
        ELSE [body EXCEPT !.state = expect(f.state, "}")]

makeModule(body, name) ==
    LET d == body.declared
    IN  Give(body.state, ModuleDecl(name.node, d.mods, d.types, d.decls, d.usings, name.pending))

parseModule(s) ==
    LET name == parseIdentifier(s)
    IN  makeModule(parseDeclarations([state |-> expect(consumeAnnotations(name), "{"), declared |-> NoDeclarations]), name)

RECURSIVE parseProgram(_, _)
parseProgram(s, modules) ==
    LET open == parseAnnotations(s)
        module == parseModule(Accept(open))
    IN  IF ~hasNext(s) THEN Give(s, Program(modules))
        ELSE IF Current(open) # "module" THEN Give(Stop(Report(open), "fatal"), Null)
        ELSE parseProgram(reportErroneousAnnotations(module), Append(modules, module.node))

parsed(s, what) ==
    CASE what = "program" -> parseProgram(s, <<>>)
      [] what \in {"expression", "operand"} ->
            parseBinary(parsePrimary(s), IF what = "operand" THEN getUnaryOperatorPrecedence ELSE 0)
      [] what \in {"type", "type without =>"} ->
            parseTypeBinary(parseTypePrimary(s, what = "type"), 0, what = "type")
      [] what = "kind" -> parseKind(s)
      [] what = "statement" -> parseOneStatement(s)
      [] what = "block" -> parseStatements(s, <<>>, <<>>)
      [] what = "class" -> parseOneClass(s)
      [] what = "parameter" -> parseTypeParameter(s)
      [] what = "field" -> parseField(s)
      [] what = "parameter of a kind" -> parseTypeConstructorKindSpecifierParameter(s)

-----------------------------------------------------------------------------
Init == parser = Start

\* Parser::parse.
parse ==
    /\ parser = Start
    /\ parser' = [parsed(parser, "program") EXCEPT !.over = IF @ = "" THEN "parsed" ELSE @]
    /\ UNCHANGED <<source, loose>>
=============================================================================
