------------------------------- MODULE AST2BAST -------------------------------
(***************************************************************************)
(* From the syntax tree to the backend tree (src/Compiler/Backend/         *)
(* AST2BAST).  PreTransform.cpp is the last pass over the syntax tree:     *)
(* functions and the classes declared in functions are closed over the     *)
(* variables around them.                                                  *)
(*   - PreTransformAnalysis finds what each class captures;                *)
(*   - PreTransformImplementation gives it a field for each capture and a  *)
(*     method that sets them, and keeps captured mutable variables in boxes*)
(*   - UserDataAssignment numbers variables, fields and methods.           *)
(*                                                                         *)
(* A program is what type checking leaves: every identifier has its symbol,*)
(* every function that is a value the class it is an object of.  A class   *)
(* has a parent ("": none), its fields and methods, the class it is        *)
(* declared in ("": the module) and the method it is declared in (<<>>).   *)
(* Definitions, types and methods may be extern: they have no value then.  *)
(* Types, conditions, static members and annotations are left out.         *)
(*                                                                         *)
(* AST2BAST.cpp then generates the backend tree and simplifies it.  The    *)
(* fresh name of a definition is what it stands for, so that nothing has   *)
(* to be counted; definitions that are not exported have no order.         *)
(***************************************************************************)
EXTENDS Naturals, FiniteSets, SequencesExt

CONSTANT Programs    \* the programs that are compiled

VARIABLES program,    \* [classes, defs, globals, mutable]
          tree,       \* its classes and definitions after PreTransform
          stage,      \* the pass that runs next
          todo,       \* the classes to analyse, in the order their visits end
          usedVars,   \* for each class, what the classes within it capture
          patches,    \* ClassPatch: for each class, what it captures
          captured,   \* the variables whose VariableInfo is captured
          userdata    \* the locations of variables, fields and methods

closing == <<patches, captured, usedVars, todo>>

----------------------------------------------------------------------------
(* Symbols and expressions.  A symbol says what it is, in which class.     *)

Var(x) == <<"var", x>>                  \* a local variable or a parameter
Field(c, x) == <<"field", c, x>>        \* a field of class c
Method(c, m) == <<"method", c, m>>      \* a method of class c
Global(x) == <<"def", x>>               \* a definition of the module
Type(t, c) == <<"type", t, c>>          \* a name of class c
Anonymous(c) == <<"class", c, c>>       \* class c where it is declared
ClassThis(c) == <<"this", c>>           \* the `this' of class c
Captured(c, s) == <<"captured", c, s>>  \* the new field of c for s
Arg(c, s) == <<"arg", c, s>>            \* the initializer's parameter for it

Node(op, sym, parts) == [op |-> op, sym |-> sym, parts |-> parts]
Identifier(s) == Node("Identifier", s, <<>>)
This == Node("This", <<>>, <<>>)
IntLiteral(n) == Node("IntLiteral", <<n>>, <<>>)
TypeSpecifier(s) == Node("TypeSpecifier", s, <<>>)
AssignmentExpression(lhs, rhs) == Node("AssignmentExpression", <<>>, <<lhs, rhs>>)
MemberAccess(e, s) == Node("MemberAccess", s, <<e>>)
FunctionCall(callee, args) == Node("FunctionCall", <<>>, <<callee>> \o args)
Block(stats) == Node("Block", <<>>, stats)
Instantiation(t) == Node("Instantiation", t, <<>>)
FunctionCreation(c) == Node("FunctionCreation", Anonymous(c), <<>>)
TypeDecl(c) == Node("TypeDecl", Type(c, c), <<>>)

\* The symbols of the expressions of one kind, in the order of a visit.  What
\* is within a class or a function belongs to that one.
RECURSIVE SymbolsOf(_, _)
SymbolsOf(op, e) ==
    IF e.op = op THEN <<e.sym>>
    ELSE FlattenSeq([i \in DOMAIN e.parts |-> SymbolsOf(op, e.parts[i])])

Class == DOMAIN program.classes
DefsOf(c) == ToSet(program.classes[c].defs)

RECURSIVE ParentMost(_)
ParentMost(c) ==
    IF program.classes[c].parent = "" THEN c ELSE ParentMost(program.classes[c].parent)

----------------------------------------------------------------------------
(* PreTransformAnalysis                                                    *)

\* What an identifier makes _usedVars hold: a field or a method, the `this'
\* its FieldInfo names; definitions of the module are no variables.
UsedBy(s) ==
    IF s[1] \in {"field", "method"} THEN {ClassThis(ParentMost(s[2]))}
    ELSE IF s[1] = "def" THEN {} ELSE {s}

\* The variables used and those bound in the methods of a class.
UsedIn(c) == UNION {UNION {UsedBy(s) : s \in ToSet(SymbolsOf("Identifier", program.defs[d].body))}
                    : d \in DefsOf(c)}
BoundIn(c) == UNION {ToSet(program.defs[d].params \o SymbolsOf("TypeSpecifier", program.defs[d].body))
                     : d \in DefsOf(c)}

\* mutant: bound variables stay.
FreeVarsAndBound(c, used) == used \ {ClassThis(ParentMost(c))}

\* The free variables of a class, with those of the classes within it.
FreeVars(c, used) == used \ (BoundIn(c) \cup {ClassThis(ParentMost(c))})

\* _usedVars is in the order of the addresses of the symbols: any, but the
\* same for every class.
SameOrder(p, q) ==
    \A i, j \in DOMAIN p : \A k, l \in DOMAIN q : p[i] = q[k] /\ p[j] = q[l] /\ i < j => k < l

\* The visit to a class ends: what it captures becomes its fields, and is used
\* by the class around it.
VisitClass ==
    /\ stage = "analysis" /\ todo # <<>>
    /\ LET c == Head(todo)
           free == FreeVars(c, UsedIn(c) \cup usedVars[c])
           around == program.classes[c].within
       IN  \E order \in SetToSeqs(free) :
               /\ \A k \in Class : SameOrder(patches[k], order)
               /\ patches' = [patches EXCEPT ![c] = order]
               /\ captured' = captured \cup free
               /\ usedVars' = IF around = "" THEN usedVars
                              ELSE [usedVars EXCEPT ![around] = @ \cup free]
    /\ todo' = Tail(todo)
    /\ UNCHANGED <<program, tree, stage, userdata>>

----------------------------------------------------------------------------
(* PreTransformImplementation                                              *)

\* What an identifier of symbol s within class c refers to after the analysis.
Refers(c, s) ==
    IF c # "" /\ s \in ToSet(patches[c]) THEN Captured(c, s) ELSE s

\* The variable behind a symbol: a capture has the info of what it captures.
InfoOf(s) == IF s[1] = "captured" THEN s[3] ELSE s
isCapturedLocalMutableVar(s) ==
    InfoOf(s)[1] = "var" /\ InfoOf(s) \in program.mutable \cap captured

Value == Field("Box", "value")
makeBoxInstantiation == Instantiation(Type("Box", "Box"))
makeAccessToBoxedValueOf(e) == MemberAccess(e, Value)

\* The access to a variable, by the symbol its identifier has now.
Access(s) ==
    IF isCapturedLocalMutableVar(s) THEN makeAccessToBoxedValueOf(Identifier(s))
    ELSE IF s[1] = "this" THEN This ELSE Identifier(s)

\* visit(Identifier*) in class c: fields of an outer class are reached
\* through the `this' that was captured.
IdentifierIn(c, s) ==
    IF s[1] \in {"field", "method"} /\ ClassThis(ParentMost(s[2])) \in ToSet(patches[c])
    THEN MemberAccess(Identifier(Captured(c, ClassThis(ParentMost(s[2])))), s)
    ELSE Access(Refers(c, s))

\* mutant: a boxed variable is passed by value.
InitializerValue(c, s) == Access(Refers(program.classes[c].within, s))

\* What the initializer of class c is given for a capture: the box itself of a
\* boxed variable.
InitializerArg(c, s) ==
    LET symbol == Refers(program.classes[c].within, s)
    IN  IF isCapturedLocalMutableVar(symbol) THEN Identifier(symbol) ELSE Access(symbol)

Initializer(c) == Method(c, "$init")

\* An object of class c, after the initializers of c and its parents.
RECURSIVE Initialized(_, _)
Initialized(object, c) ==
    IF c = "" THEN object
    ELSE Initialized(
        IF patches[c] = <<>> THEN object
        ELSE FunctionCall(MemberAccess(object, Initializer(c)),
                          [i \in DOMAIN patches[c] |-> InitializerArg(c, patches[c][i])]),
        program.classes[c].parent)

RECURSIVE Transformed(_, _)
Transformed(c, e) ==
    CASE e.op = "Identifier" -> IdentifierIn(c, e.sym)
      [] e.op = "TypeSpecifier" ->
            IF isCapturedLocalMutableVar(e.sym)
            THEN makeAccessToBoxedValueOf(AssignmentExpression(e, makeBoxInstantiation))
            ELSE e
      [] e.op = "Instantiation" -> Initialized(e, e.sym[3])
      [] e.op = "FunctionCreation" -> Initialized(Instantiation(e.sym), e.sym[3])
      [] OTHER -> [e EXCEPT !.parts = [i \in DOMAIN e.parts |-> Transformed(c, e.parts[i])]]

\* Captured parameters that are mutable move to boxes before the body.
Boxing(p) == AssignmentExpression(
    makeAccessToBoxedValueOf(AssignmentExpression(Identifier(p), makeBoxInstantiation)),
    Identifier(p))
transformFuncBody(body, params) ==
    LET boxed == SelectSeq(params, isCapturedLocalMutableVar)
    IN  IF boxed = <<>> THEN body
        ELSE Block(Append([i \in DOMAIN boxed |-> Boxing(boxed[i])], body))

InitializerDef(c) ==
    [params |-> [i \in DOMAIN patches[c] |-> Arg(c, patches[c][i])],
     body |-> Block(Append(
        [i \in DOMAIN patches[c] |-> AssignmentExpression(
            Identifier(Captured(c, patches[c][i])), Identifier(Arg(c, patches[c][i])))],
        This)),
     redefines |-> <<>>, constructor |-> FALSE, abstract |-> FALSE, extern |-> FALSE]

NewClass(class, changes, c) ==
    [class EXCEPT !.fields = @ \o [i \in DOMAIN changes |-> Captured(c, changes[i])],
                  !.defs = IF changes = <<>> THEN @ ELSE Append(@, Initializer(c))]
NewDef(def, c) ==
    [def EXCEPT !.body = transformFuncBody(Transformed(c, def.body), def.params)]

Implement ==
    /\ stage = "analysis" /\ todo = <<>>
    /\ tree' = [classes |-> [c \in Class |-> NewClass(program.classes[c], patches[c], c)],
                defs |-> [d \in DOMAIN program.defs
                            \cup {Initializer(c) : c \in {k \in Class : patches[k] # <<>>}} |->
                          IF d \in DOMAIN program.defs THEN NewDef(program.defs[d], d[2])
                          ELSE InitializerDef(d[2])]]
    /\ stage' = "numbering"
    /\ UNCHANGED <<program, closing, userdata>>

----------------------------------------------------------------------------
(* UserDataAssignment                                                      *)

\* Where the sequences have each of their elements.
Places(seqs) ==
    [s \in UNION {ToSet(q) : q \in seqs} |->
        LET q == CHOOSE q \in seqs : s \in ToSet(q) IN CHOOSE i \in DOMAIN q : q[i] = s]

\* The fields and the methods of a class: its parent's, then its own.  A
\* redefinition takes the place of what it redefines.
RECURSIVE FieldsOf(_)
FieldsOf(c) ==
    IF c = "" THEN <<>> ELSE FieldsOf(tree.classes[c].parent) \o tree.classes[c].fields

RECURSIVE MethodsOf(_)
MethodsOf(c) ==
    LET Placed(methods, d) ==
            LET overriden == tree.defs[d].redefines
            IN  IF overriden = <<>> THEN Append(methods, d)
                ELSE ReplaceAt(methods, Places({MethodsOf(overriden[2])})[overriden], d)
    IN  IF c = "" THEN <<>>
        ELSE FoldLeft(Placed, MethodsOf(tree.classes[c].parent), tree.classes[c].defs)

\* A function's variables after the receiver: parameters, then locals.
VarsOf(d) == tree.defs[d].params \o SymbolsOf("TypeSpecifier", tree.defs[d].body)

\* UserDataAssignment's visit of the tree.
AssignUserData ==
    /\ stage = "numbering"
    /\ userdata' = [vars |-> Places({VarsOf(d) : d \in DOMAIN tree.defs}),
                    fields |-> Places({FieldsOf(c) : c \in Class}),
                    methods |-> Places({MethodsOf(c) : c \in Class})]
    /\ stage' = "generation"
    /\ UNCHANGED <<program, tree, closing>>

----------------------------------------------------------------------------

PreTransformInit ==
    /\ program \in Programs
    /\ tree = [classes |-> <<>>, defs |-> <<>>]
    /\ stage = "analysis" /\ todo = program.visits
    /\ usedVars = [c \in Class |-> {}] /\ patches = [c \in Class |-> <<>>]
    /\ captured = {}
    /\ userdata = <<>>

----------------------------------------------------------------------------
(* The backend tree                                                        *)

VARIABLE output    \* the backend program: [visible, hidden]

B == INSTANCE BackendTree

vars == <<program, tree, stage, closing, userdata, output>>

----------------------------------------------------------------------------
(* AST2BAST                                                                *)

getVarLoc(s) == IF s \in DOMAIN userdata.fields THEN userdata.fields[s] - 1
                ELSE userdata.vars[s]
isVariableAttribute(s) == s \in DOMAIN userdata.fields
getVirtualLocation(s) == userdata.methods[s] - 1

\* The name of what a symbol stands for: all names of a class are its types.
getDefId(s) == IF s[1] = "type" THEN <<"type", s[2]>> ELSE s
FuncId(d) == <<"func", d[2], d[3]>>
InstId(t) == <<"inst", t[1], t[2]>>
ParentId(c) == <<"parent", c>>

visitSymbolic(s) ==
    IF s[1] \in {"def", "type", "method", "class"} THEN B!DefIdentifier(getDefId(s))
    ELSE IF isVariableAttribute(s) THEN B!FieldAccess(B!VarIdentifier(0), getVarLoc(s))
    ELSE B!VarIdentifier(getVarLoc(s))

assignIdentifier(s, value) ==
    IF isVariableAttribute(s)
    THEN B!FieldAssignmentExpression(B!VarIdentifier(0), getVarLoc(s), value)
    ELSE B!VarAssignmentExpression(getVarLoc(s), value)

\* The code of an expression.
RECURSIVE Code(_)
Codes(exprs) == [i \in DOMAIN exprs |-> Code(exprs[i])]
Code(e) ==
    CASE e.op \in {"Identifier", "TypeIdentifier", "ClassDecl"} -> visitSymbolic(e.sym)
      [] e.op = "This" -> B!VarIdentifier(0)
      [] e.op = "IntLiteral" -> B!IntLiteral(e.sym[1])
      [] e.op \in {"TypeSpecifier", "TypeDecl"} -> B!UnitLiteral
      [] e.op = "Block" -> IF e.parts = <<>> THEN B!UnitLiteral ELSE B!Block(Codes(e.parts))
      [] e.op = "AssignmentExpression" ->
            IF e.parts[1].op = "MemberAccess"
            THEN B!FieldAssignmentExpression(Code(e.parts[1].parts[1]), getVarLoc(e.parts[1].sym),
                                             Code(e.parts[2]))
            ELSE assignIdentifier(e.parts[1].sym, Code(e.parts[2]))
      [] e.op = "MemberAccess" -> B!FieldAccess(Code(e.parts[1]), getVarLoc(e.sym))
      [] e.op = "FunctionCall" ->
            B!DynamicMethodCall(IF e.parts[1].op = "MemberAccess" THEN Code(e.parts[1].parts[1])
                                ELSE B!VarIdentifier(0),
                                getVirtualLocation(e.parts[1].sym), Codes(Tail(e.parts)))
      [] e.op = "Instantiation" -> B!Instantiation(B!DefIdentifier(InstId(e.sym)))

\* The hidden definitions an expression leaves behind.
GlobalsIn(e) ==
    {B!GlobalDef(InstId(t), visitSymbolic(t)) : t \in ToSet(SymbolsOf("Instantiation", e))}
    \cup {B!GlobalDef(getDefId(t), B!DefIdentifier(Anonymous(t[3])))
          : t \in ToSet(SymbolsOf("TypeDecl", e))}

DefsOfMethod(d) ==
    LET def == tree.defs[d]
    IN  IF def.abstract \/ def.extern THEN {}
        ELSE {B!GlobalDef(d, B!DefIdentifier(FuncId(d))),
              B!MethodDef(FuncId(d), Len(VarsOf(d)) + 1,
                          IF def.constructor THEN B!Block(<<Code(def.body), B!VarIdentifier(0)>>)
                          ELSE Code(def.body))}
             \cup GlobalsIn(def.body)

DefsOfClass(c) ==
    LET class == tree.classes[c]
        Slot(d) == B!DefIdentifier(IF tree.defs[d].abstract THEN <<"$ABSTRACT_METHOD$">> ELSE d)
    IN  {B!ClassDef(Anonymous(c), Len(FieldsOf(c)),
                    IF class.parent = "" THEN B!NoParent ELSE B!DefIdentifier(ParentId(c)),
                    [i \in DOMAIN MethodsOf(c) |-> Slot(MethodsOf(c)[i])])}
        \cup {B!GlobalDef(ParentId(c), visitSymbolic(Type(p, p))) : p \in {class.parent} \ {""}}
        \cup UNION {DefsOfMethod(d) : d \in ToSet(class.defs)}

\* The classes around c, itself first.
RECURSIVE Around(_)
Around(c) == IF c = "" THEN <<>> ELSE <<c>> \o Around(program.classes[c].within)

\* Nothing is generated for what is extern, nor for the classes within it.
ExternClasses == {g.name[3] : g \in {h \in ToSet(program.globals) : h.extern /\ h.name[1] = "type"}}
Generated == {c \in Class : ToSet(Around(c)) \cap ExternClasses = {}}

Generate ==
    /\ stage = "generation"
    /\ LET Def(g) == B!GlobalDef(getDefId(g.name), Code(Transformed("", g.value)))
           exported == SelectSeq(program.globals, LAMBDA g : g.exported /\ ~ g.extern)
           others == {g \in ToSet(program.globals) : ~ g.exported /\ ~ g.extern}
       IN  output' = [visible |-> [i \in DOMAIN exported |-> Def(exported[i])],
                      hidden |-> {Def(g) : g \in others}
                                 \cup UNION {GlobalsIn(Transformed("", g.value)) : g \in ToSet(exported) \cup others}
                                 \cup UNION {DefsOfClass(c) : c \in Generated}]
    /\ stage' = "simplification"
    /\ UNCHANGED <<program, tree, closing, userdata>>

----------------------------------------------------------------------------
(* BASTSimplifier                                                          *)

isAlias(d) == d.def = "global" /\ d.body.node = "DefIdentifier"

\* What an exported definition stands for gets its name (the last one's, if
\* there are several), unless that is known to be exported: only the ones before
\* it are.
VisibleToHidden(p) ==
    LET names(i) == {p.visible[j].name : j \in 1..i}
        renaming == {i \in DOMAIN p.visible : isAlias(p.visible[i]) /\ p.visible[i].body.name \notin names(i)}
    IN  [n \in {p.visible[i].body.name : i \in renaming} |->
            p.visible[Max({i \in renaming : p.visible[i].body.name = n})].name]

RECURSIVE findSubstitution(_, _, _)
findSubstitution(name, visibleToHidden, aliases) ==
    IF name \in DOMAIN visibleToHidden
    THEN findSubstitution(visibleToHidden[name], visibleToHidden, aliases)
    ELSE IF name \in DOMAIN aliases THEN findSubstitution(aliases[name], visibleToHidden, aliases)
    ELSE name

\* mutant: only one step is followed.
HiddenToNext(p, visibleToHidden) ==
    [n \in {d.name : d \in {h \in p.hidden : isAlias(h)}} |->
        (CHOOSE d \in p.hidden : d.name = n).body.name]

\* A hidden alias is what it stands for in the end.
HiddenToAny(p, visibleToHidden) ==
    LET hidden == {d \in p.hidden : isAlias(d)}
        aliases == [n \in {d.name : d \in hidden} |-> (CHOOSE d \in hidden : d.name = n).body.name]
    IN  [n \in DOMAIN aliases |-> findSubstitution(aliases[n], visibleToHidden, aliases)]

\* HiddenToAnyRenamer: hidden aliases are replaced, and go.
ReplaceAliases(p, map) ==
    [visible |-> [i \in DOMAIN p.visible |-> B!RenamedDef(p.visible[i], map)],
     hidden |-> {B!RenamedDef(d, map) : d \in {h \in p.hidden : h.name \notin DOMAIN map}}]

\* mutant: identifiers keep the old name.
ExportOnlyDefinitions(p, map) ==
    [visible |-> SelectSeq(p.visible, LAMBDA d : ~ (isAlias(d) /\ d.body.name \in DOMAIN map))
                 \o SetToSeq({[d EXCEPT !.name = map[@]] : d \in {h \in p.hidden : h.name \in DOMAIN map}}),
     hidden |-> {d \in p.hidden : d.name \notin DOMAIN map}]

\* VisibleToHiddenRenamer: exported aliases of a hidden definition go, the
\* definition is exported by the name it gets.
ExportDefinitions(p, map) ==
    LET Kept(d) == ~ (isAlias(d) /\ d.body.name \in DOMAIN map)
        New(d) == [B!RenamedDef(d, map) EXCEPT !.name = B!Mapped(@, map)]
        Exported(d) == d.name \in DOMAIN map
    IN  [visible |-> [i \in DOMAIN SelectSeq(p.visible, Kept) |-> New(SelectSeq(p.visible, Kept)[i])]
                     \o SetToSeq({New(d) : d \in {h \in p.hidden : Exported(h)}}),
         hidden |-> {New(d) : d \in {h \in p.hidden : ~ Exported(h)}}]

Simplified(p, visibleToHidden) ==
    ExportDefinitions(ReplaceAliases(p, HiddenToAny(p, visibleToHidden)), visibleToHidden)

Simplify ==
    /\ stage = "simplification"
    /\ output' = Simplified(output, VisibleToHidden(output))
    /\ stage' = "done"
    /\ UNCHANGED <<program, tree, closing, userdata>>

----------------------------------------------------------------------------

Init == PreTransformInit /\ output = [visible |-> <<>>, hidden |-> {}]

Next ==
    \/ (VisitClass \/ Implement \/ AssignUserData) /\ UNCHANGED output
    \/ Generate
    \/ Simplify

Spec == Init /\ [][Next]_vars
===============================================================================
