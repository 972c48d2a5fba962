---------------------------- MODULE NameAnalysis ----------------------------
(***************************************************************************)
(* The name analysis (src/Compiler/Frontend/Analyser/NameAnalysis.cpp):    *)
(* ScopeGeneration gives every declaration a symbol in the scope it is in, *)
(* SymbolAssignation then gives every name the symbols it means; on the    *)
(* way to a class it visits the parents of the class, which copies what    *)
(* they declare into its scope.                                            *)
(*                                                                         *)
(* A program is flattened into the items the visitors meet, in the order   *)
(* they meet them (in a module: modules, types, definitions; in a class:   *)
(* types, fields, definitions):                                            *)
(*    module n uses .. end     module n { using .. }                       *)
(*    class n : path .. end    class n : path { .. }                       *)
(*    alias n = path           type n = path                               *)
(*    def n .. end             def n, plain, static, or a constructor      *)
(*    block uses .. end        { using ..; .. }, or a function             *)
(*    var n                    a field, a local variable or an argument    *)
(*    use path                 a name, or a chain of member accesses,      *)
(*                             in an expression or a type                  *)
(* A path is a sequence of names.  Type parameters are left out.           *)
(***************************************************************************)
EXTENDS Scope, FiniteSets

CONSTANT Programs    \* the programs analysed

VARIABLES
    program,     \* the items
    pass,        \* the visitor that runs: "generate", "assign", or "done"
    at,          \* the item visited next
    scopes,      \* the scopes, by the item that opens them
    open,        \* the scopes and the _currentThis saved on the way in
    scopeOf,     \* the scope of a module, which several items may share
    this,        \* _currentThis: the class whose members are visited (or 0)
    depth,       \* how long _symbolPath is
    invalidFrom, \* _invalidFrom: from which length on paths are not absolute
    absolute,    \* the declarations that have an absolute name
    visiting,    \* visitParent: the temporary marks, as calls [class, parent]
    visited,     \* _visitedTypes: the classes whose parents are done
    parent,      \* the super class each class was given (or 0)
    assigned,    \* assigned[i][k]: what the first k names of i's path mean
    typeOf,      \* the types created for expressions: a class, or 0 (null)
    errors       \* the errors reported: [kind, at]

generationVars == <<this, depth, invalidFrom, absolute>>
assignationVars == <<visiting, visited, parent, assigned, typeOf>>
vars == <<program, pass, at, scopes, open, scopeOf, generationVars, assignationVars, errors>>

----------------------------------------------------------------------------
(* The shape of the program. *)

Path == Seq(Name)
Item == [op : {"module"}, name : Name, uses : Seq(Path \ {<< >>})]
        \cup [op : {"class", "alias"}, name : Name, path : Path]
        \cup [op : {"def"}, name : Name, flag : {"plain", "static", "constructor"}]
        \cup [op : {"block"}, uses : Seq(Path \ {<< >>})]
        \cup [op : {"var"}, name : Name]
        \cup [op : {"use"}, path : Path]
        \cup [op : {"end"}]

ASSUME ProgramsAssumption == Programs \subseteq Seq(Item)

\* What opens and what closes among items i to j.  The parser closes what it
\* opens.
Opening == {"module", "class", "def", "block"}
Opened(p, i, j) == Cardinality({k \in i..j : p[k].op \in Opening})
Closed(p, i, j) == Cardinality({k \in i..j : p[k].op = "end"})

ASSUME NestingAssumption ==
    \A p \in Programs : /\ \A j \in 1..Len(p) : Closed(p, 1, j) <= Opened(p, 1, j)
                        /\ Closed(p, 1, Len(p)) = Opened(p, 1, Len(p))

\* What opens ends where as much was closed.
Ends(p, i, j) ==
    /\ i < j /\ p[j].op = "end"
    /\ \A k \in i..j : Opened(p, i, k) = Closed(p, i, k) <=> k = j
End(p, i) == CHOOSE j \in 1..Len(p) : Ends(p, i, j)

\* The items an item is in, and the innermost of them (0: the program).
Enclosing(p, i) == {j \in 1..(i - 1) : p[j].op \in Opening /\ i < End(p, j)}
Encloser(p, i) == IF Enclosing(p, i) = {} THEN 0 ELSE Max(Enclosing(p, i))

\* Modules are in modules only, variables are not, and there are no blocks right
\* inside a class.
Around(p, i) == IF Encloser(p, i) = 0 THEN "program" ELSE p[Encloser(p, i)].op
ASSUME ShapeAssumption ==
    \A p \in Programs : \A i \in 1..Len(p) :
        /\ p[i].op = "module" => Around(p, i) \in {"program", "module"}
        /\ p[i].op = "block" => Around(p, i) \in {"def", "block"}
        /\ p[i].op = "var" => Around(p, i) \in {"class", "def", "block"}

Items == 1..Len(program)
ItemsOf(op) == {i \in Items : program[i].op = op}
item == program[at]
Meets(op) == at \in Items /\ item.op = op

curScope == Last(open).scope
Push(s, t) == open' = Append(open, [scope |-> s, this |-> t])
Pop == open' = Front(open)

\* The types of expressions: what has no path has none.
Busy == Len(program) + 1       \* of an alias whose type is being created
Uncreated == Len(program) + 2
Expressions ==
    UNION {{i} \X (0..Len(program[i].path)) : i \in UNION {ItemsOf(op) : op \in {"class", "alias", "use"}}}

Fails(kind, i, if) == IF if THEN {[kind |-> kind, at |-> i]} ELSE {}

Init ==
    /\ program \in Programs
    /\ pass = "generate"
    /\ at = 1
    /\ scopes = [s \in {0} |-> NewScope(0, FALSE)]
    /\ open = <<[scope |-> 0, this |-> 0]>>
    /\ scopeOf = [i \in {} |-> 0]
    /\ this = 0
    /\ depth = 0
    /\ invalidFrom = Len(program) + 1
    /\ absolute = {}
    /\ visiting = << >>
    /\ visited = {}
    /\ parent = [c \in {} |-> 0]
    /\ assigned = [i \in {} |-> << >>]
    /\ typeOf = [expression \in Expressions |-> Uncreated]
    /\ errors = {}

----------------------------------------------------------------------------
(* ScopeGeneration *)

isValidAbsolutePath == depth < invalidFrom

\* createSymbol and tryAddSymbol, in the table of scopes sc.
Declared(sc, type, owner, constructor) ==
    AddEntry(sc, curScope, item.name, Symbol(at, type, owner, constructor))
Redefined(type) ==
    Fails("multiple", at, ~ TakesEntry(scopes, curScope, item.name, Symbol(at, type, 0, FALSE)))
NameAbsolutely == absolute' = absolute \cup (IF isValidAbsolutePath THEN {at} ELSE {})

\* pushScope: a scope for the item, under the current one.
Nested(isDefScope) == With(scopes, at, NewScope(curScope, isDefScope))

Generating(op) == pass = "generate" /\ Meets(op)
Advance == at' = at + 1 /\ UNCHANGED <<program, pass, assignationVars>>

(* visit(ModuleDecl): a module of that name in the same scope is continued. *)
GenerateModule ==
    /\ Generating("module")
    /\ LET same == ModuleIn(scopes, curScope, item.name)
       IN  IF same # 0
           THEN /\ scopeOf' = With(scopeOf, at, same)
                /\ Push(same, this)
                /\ UNCHANGED <<scopes, errors, absolute>>
           ELSE /\ scopeOf' = With(scopeOf, at, at)
                /\ scopes' = Declared(Nested(FALSE), "MODULE", 0, FALSE)
                /\ errors' = errors \cup Redefined("MODULE")
                /\ Push(at, this)
                /\ NameAbsolutely
    /\ depth' = depth + 1
    /\ Advance /\ UNCHANGED <<this, invalidFrom>>

(* visit(TypeDecl) and visit(ClassDecl). *)
GenerateClass ==
    /\ Generating("class")
    /\ scopes' = Declared(Nested(this # 0), "TPE", 0, FALSE)
    /\ errors' = errors \cup Redefined("TPE")
    /\ Push(at, this)
    /\ this' = at
    /\ NameAbsolutely
    /\ depth' = depth + 1
    /\ Advance /\ UNCHANGED <<scopeOf, invalidFrom>>

GenerateAlias ==
    /\ Generating("alias")
    /\ scopes' = Declared(scopes, "TPE", 0, FALSE)
    /\ errors' = errors \cup Redefined("TPE")
    /\ NameAbsolutely
    /\ Advance /\ UNCHANGED <<open, scopeOf, this, depth, invalidFrom>>

(* visit(DefineDecl): a method belongs to the class whose members are      *)
(* visited, a static definition to none; neither do those inside.          *)
GenerateDefInside ==  \* mutant: _currentThis is kept inside a definition
    /\ Generating("def")
    /\ LET owner == IF item.flag = "static" THEN 0 ELSE this
       IN  /\ scopes' = Declared(Nested(owner = 0), "DEF", owner, item.flag = "constructor")
           /\ errors' = errors \cup Redefined("DEF")
    /\ Push(at, this)
    /\ this' = this
    /\ NameAbsolutely
    /\ depth' = depth + 1
    /\ invalidFrom' = IF depth' < invalidFrom THEN depth' ELSE invalidFrom
    /\ Advance /\ UNCHANGED scopeOf

GenerateDef ==
    /\ Generating("def")
    /\ LET owner == IF item.flag = "static" THEN 0 ELSE this
       IN  /\ scopes' = Declared(Nested(owner = 0), "DEF", owner, item.flag = "constructor")
           /\ errors' = errors \cup Redefined("DEF")
    /\ Push(at, this)
    /\ this' = 0
    /\ NameAbsolutely
    /\ depth' = depth + 1
    /\ invalidFrom' = IF depth' < invalidFrom THEN depth' ELSE invalidFrom
    /\ Advance /\ UNCHANGED scopeOf

(* visit(Block) and visit(FunctionCreation). *)
GenerateBlock ==
    /\ Generating("block")
    /\ scopes' = Nested(FALSE)
    /\ Push(at, this)
    /\ Advance /\ UNCHANGED <<scopeOf, generationVars, errors>>

(* visit(TypeSpecifier) *)
GenerateVar ==
    /\ Generating("var")
    /\ scopes' = Declared(scopes, "VAR", 0, FALSE)
    /\ errors' = errors \cup Redefined("VAR")
    /\ Advance /\ UNCHANGED <<open, scopeOf, generationVars>>

GenerateUse ==
    /\ Generating("use")
    /\ Advance /\ UNCHANGED <<scopes, open, scopeOf, generationVars, errors>>

\* popScope, popPathPart and RESTORE_MEMBER.
opener == Max({i \in Items : i < at /\ program[i].op \in Opening
                             /\ Opened(program, i, at) = Closed(program, i, at)})
GenerateEndInvalid ==  \* mutant: paths stay invalid after a definition
    /\ Generating("end")
    /\ Pop
    /\ this' = Last(open).this
    /\ depth' = IF program[opener].op = "block" THEN depth ELSE depth - 1
    /\ Advance /\ UNCHANGED <<scopes, scopeOf, invalidFrom, absolute, errors>>
GenerateEnd ==
    /\ Generating("end")
    /\ Pop
    /\ this' = Last(open).this
    /\ depth' = IF program[opener].op = "block" THEN depth ELSE depth - 1
    /\ invalidFrom' = IF depth' < invalidFrom THEN Len(program) + 1 ELSE invalidFrom
    /\ Advance /\ UNCHANGED <<scopes, scopeOf, absolute, errors>>

GenerationEnds ==
    /\ pass = "generate"
    /\ at = Len(program) + 1
    /\ pass' = "assign"
    /\ at' = 1
    /\ UNCHANGED <<program, scopes, open, scopeOf, generationVars, assignationVars, errors>>

----------------------------------------------------------------------------
(* ASTTypeCreator: the class a type expression stands for, or 0 (null).    *)
(* The first k names of the path of item i are the expression <<i, k>>,    *)
(* the type of the symbol of an alias s is <<s, 0>>.  A type is created    *)
(* when it is first asked for and kept: "known" holds the types so far,    *)
(* "found" what the names mean so far.  "into" is _created, which stays as *)
(* it is when a name is no type.                                           *)

Created(class, known, errs) == [class |-> class, known |-> known, errors |-> errs]
AlsoFails(type, errs) == [type EXCEPT !.errors = @ \cup errs]
Kept(type, expression) ==
    IF type.class = 0 THEN type ELSE [type EXCEPT !.known[expression] = type.class]
SetType(type, s) == [type EXCEPT !.known[<<s, 0>>] = type.class]

TypesAmong(symbols) == SelectSeq(symbols, LAMBDA e : e.type = "TPE")
Meaning(found, i, k) == IF i \in DOMAIN found THEN found[i][k] ELSE << >>

\* A request for the type of an expression.  "create" answers it.
Request == [known : [DOMAIN typeOf -> 0..Uncreated], into : 0..Len(program), of : DOMAIN typeOf]
Requested(known, into, i, k) == [known |-> known, into |-> into, of |-> <<i, k>>]

\* createTypeFromSymbolic, for the types among the symbols met in item i.
TypeOfSymbol(create, known, into, s, i) ==
    IF program[s].op = "class" THEN Created(s, known, {})
    ELSE IF known[<<s, 0>>] = Uncreated
    THEN SetType(create[Requested([known EXCEPT ![<<s, 0>>] = Busy], into, s, Len(program[s].path))], s)
    ELSE IF known[<<s, 0>>] = Busy THEN Created(into, known, Fails("cyclicType", i, TRUE))
    ELSE Created(known[<<s, 0>>], known, {})

TypeOfFirst(create, known, into, types, i) ==
    IF types = << >> THEN Created(into, known, {})
    ELSE AlsoFails(TypeOfSymbol(create, known, into, Head(types).decl, i),
                   Fails("ambiguousType", i, Len(types) > 1))

\* createTypeFromMemberAccess: members are looked up in the class the names
\* before them stand for.
TypeOfName(create, sc, found, under, i, k) ==
    LET symbols == IF k = 1 \/ under.class = 0 THEN Meaning(found, i, k)
                   ELSE AssignSymbolic(sc, under.class, program[i].path[k])
    IN  AlsoFails(Kept(TypeOfFirst(create, under.known, under.class, TypesAmong(symbols), i), <<i, k>>),
                  under.errors)
TypeOfPath(sc, found, known, into, i, k) ==
    LET create[asked \in Request] ==
            LET j    == asked.of[1]
                m    == asked.of[2]
                none == Created(asked.into, asked.known, {})
            IN  IF m = 0 THEN none
                ELSE IF asked.known[asked.of] # Uncreated
                THEN Created(asked.known[asked.of], asked.known, {})
                ELSE TypeOfName(create, sc, found,
                                IF m = 1 THEN none
                                ELSE create[Requested(asked.known, asked.into, j, m - 1)], j, m)
    IN  create[Requested(known, into, i, k)]

----------------------------------------------------------------------------
(* SymbolAssignation *)

Put(result, i, k, symbols) ==
    [result EXCEPT !.symbols[k] = symbols, !.errors = @ \cup Fails("undefined", i, symbols = << >>)]

\* assignFromTypeScope, if what is accessed is a type.
AssignMember(sc, i, k, result, type) ==
    LET typed == [result EXCEPT !.known = type.known, !.errors = @ \cup type.errors]
    IN  IF type.class = 0 THEN typed
        ELSE Put(typed, i, k, AssignSymbolic(sc, type.class, program[i].path[k]))

\* assignIdentifier and assignMemberAccess, for the path of item i in scope s:
\* a member of a module or of a type is looked up in its scope; what is
\* accessed in anything else is left to the type checking.
IsModuleNamed(symbols) == symbols # << >> /\ Head(symbols).type = "MODULE"
AssignNext(sc, s, i, found, result, k) ==
    IF k = 1 THEN Put(result, i, k, AssignSymbolic(sc, s, program[i].path[1]))
    ELSE IF IsModuleNamed(result.symbols[k - 1])
    THEN Put(result, i, k, AssignSymbolic(sc, Head(result.symbols[k - 1]).decl, program[i].path[k]))
    ELSE AssignMember(sc, i, k, result,
                      TypeOfPath(sc, With(found, i, result.symbols), result.known, 0, i, k - 1))

AssignPath(sc, s, i, found, known) ==
    LET n == Len(program[i].path)
        result[k \in 0..n] ==
            IF k = 0 THEN [symbols |-> [j \in 1..n |-> << >>], known |-> known, errors |-> {}]
            ELSE AssignNext(sc, s, i, found, result[k - 1], k)
    IN  result[n]

Assigning(op) == pass = "assign" /\ visiting = << >> /\ Meets(op)
Continue == at' = at + 1 /\ UNCHANGED <<program, pass, scopeOf, generationVars>>

\* buildUsingsFromPaths, in scope s, which is entered.
Use(s) ==
    LET using == BuildUsings(scopes, s, item.uses)
    IN  /\ scopes' = using.scopes
        /\ errors' = errors \cup Fails("using", at, using.failed)
        /\ Push(s, 0)

AssignModule ==
    /\ Assigning("module")
    /\ Use(scopeOf[at])
    /\ Continue /\ UNCHANGED assignationVars

AssignBlock ==
    /\ Assigning("block")
    /\ Use(at)
    /\ Continue /\ UNCHANGED assignationVars

\* The name of a definition is resolved like any other, in its own scope.
AssignDef ==
    /\ Assigning("def")
    /\ Push(at, 0)
    /\ errors' = errors \cup Fails("undefined", at, AssignSymbolic(scopes, at, item.name) = << >>)
    /\ Continue /\ UNCHANGED <<scopes, assignationVars>>

AssignVar ==
    /\ Assigning("var")
    /\ Continue /\ UNCHANGED <<scopes, open, assignationVars, errors>>

AssignName ==
    /\ Assigning("use") \/ Assigning("alias")
    /\ \E result \in {AssignPath(scopes, curScope, at, assigned, typeOf)} :
         /\ assigned' = With(assigned, at, result.symbols)
         /\ typeOf' = result.known
         /\ errors' = errors \cup result.errors
    /\ Continue /\ UNCHANGED <<scopes, open, visiting, visited, parent>>

(* visit(ClassDecl): the parents first.                                    *)
AssignClassEarly ==  \* mutant: the class is entered before its parents
    /\ Assigning("class")
    /\ Push(at, 0)
    /\ Continue /\ UNCHANGED <<scopes, assignationVars, errors>>
AssignClass ==
    /\ Assigning("class")
    /\ at \in visited
    /\ Push(at, 0)
    /\ Continue /\ UNCHANGED <<scopes, assignationVars, errors>>

VisitParent ==
    /\ Assigning("class")
    /\ at \notin visited
    /\ visiting' = <<[class |-> at, parent |-> 0]>>
    /\ UNCHANGED <<program, pass, at, scopes, open, scopeOf, generationVars, visited, parent,
                   assigned, typeOf, errors>>

\* The call of visitParent that runs, and how it ends: with super class p.
call == Last(visiting)
Finish(p) ==
    /\ visited' = visited \cup {call.class}
    /\ parent' = With(parent, call.class, p)
    /\ visiting' = Front(visiting)

\* The temporary marks.
Marked == {visiting[k].class : k \in 1..Len(visiting)}

\* The parent expression of class c, resolved in the scope of the class.
SuperNamed(sc, c, found, names) ==
    LET now == With(found, c, names.symbols)
    IN  [found |-> now,
         type  |-> AlsoFails(TypeOfPath(sc, now, names.known, 0, c, Len(program[c].path)), names.errors)]
Super(sc, c, found, known) ==
    IF program[c].path = << >> THEN [found |-> found, type |-> Created(0, known, {})]
    ELSE SuperNamed(sc, c, found, AssignPath(sc, c, c, found, known))

Waiting(p) == [visiting EXCEPT ![Len(visiting)].parent = p]
ParentRead == visiting # << >> /\ call.parent = 0
Resolved(super) ==
    /\ assigned' = super.found
    /\ typeOf' = super.type.known
    /\ errors' = errors \cup super.type.errors
                        \cup Fails("cycle", super.type.class, super.type.class \in Marked)
    /\ UNCHANGED <<program, pass, at, scopes, open, scopeOf, generationVars>>

(* A parent that is marked is an error, one not visited yet comes first.   *)
Enter(p) ==
    /\ visiting' = Waiting(p) \o (IF p \in visited THEN << >> ELSE <<[class |-> p, parent |-> 0]>>)
    /\ UNCHANGED <<visited, parent>>
ResolveParentUnvisited ==  \* mutant: the parent is not visited first
    /\ ParentRead
    /\ \E super \in {Super(scopes, call.class, assigned, typeOf)} :
         /\ scopes' = IF super.type.class = 0 THEN scopes
                      ELSE CopySymbolsFrom(scopes, super.type.class, call.class).scopes
         /\ assigned' = super.found
         /\ typeOf' = super.type.known
         /\ Finish(super.type.class)
    /\ UNCHANGED <<program, pass, at, open, scopeOf, generationVars, errors>>
ResolveParentCyclic ==  \* mutant: visitParent succeeds on a marked class
    /\ ParentRead
    /\ \E super \in {Super(scopes, call.class, assigned, typeOf)} :
         /\ Resolved(super)
         /\ IF super.type.class \in ItemsOf("class") \ Marked THEN Enter(super.type.class)
            ELSE Finish(super.type.class)
ResolveParent ==
    /\ ParentRead
    /\ \E super \in {Super(scopes, call.class, assigned, typeOf)} :
         /\ Resolved(super)
         /\ IF super.type.class \in ItemsOf("class") \ Marked THEN Enter(super.type.class)
            ELSE Finish(0)

(* The parent is visited: its symbols are copied.                          *)
InheritFrom ==
    /\ visiting # << >>
    /\ call.parent \in visited
    /\ \E copy \in {CopySymbolsFrom(scopes, call.parent, call.class)} :
         /\ scopes' = copy.scopes
         /\ errors' = errors \cup Fails("inherited", copy.conflict, copy.conflict # 0)
    /\ Finish(call.parent)
    /\ UNCHANGED <<program, pass, at, open, scopeOf, generationVars, assigned, typeOf>>

(* RESTORE_SCOPE *)
AssignEnd ==
    /\ Assigning("end")
    /\ Pop
    /\ Continue /\ UNCHANGED <<scopes, assignationVars, errors>>

AnalysisEnds ==
    /\ pass = "assign"
    /\ at = Len(program) + 1
    /\ pass' = "done"
    /\ UNCHANGED <<program, at, scopes, open, scopeOf, generationVars, assignationVars, errors>>

----------------------------------------------------------------------------
Generate ==
    \/ GenerateModule
    \/ GenerateClass
    \/ GenerateAlias
    \/ GenerateDef
    \/ GenerateBlock
    \/ GenerateVar
    \/ GenerateUse
    \/ GenerateEnd
    \/ GenerationEnds

Assign ==
    \/ AssignModule
    \/ AssignBlock
    \/ AssignDef
    \/ AssignVar
    \/ AssignName
    \/ AssignClass
    \/ VisitParent
    \/ ResolveParent
    \/ InheritFrom
    \/ AssignEnd
    \/ AnalysisEnds

Done == pass = "done"
Terminated == Done /\ UNCHANGED vars

Next == Generate \/ Assign \/ Terminated
Spec == Init /\ [][Next]_vars /\ WF_vars(Next)
=============================================================================
