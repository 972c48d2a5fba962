---------------------------- MODULE UsageAnalysis ----------------------------
(***************************************************************************)
(* The usage analysis (src/Compiler/Frontend/Analyser/UsageAnalysis.cpp):  *)
(* are variables declared and initialised before they are used or          *)
(* captured, which of them are mutable, which are never used.              *)
(*                                                                         *)
(* A program is the body of one function, flattened into the items the     *)
(* visitors meet, in the order they meet them:                             *)
(*    param x             a parameter of the enclosing function            *)
(*    declare x           x: int                                           *)
(*    define x            x := e       (after the items of e)              *)
(*    assign x            x = e        (after the items of e)              *)
(*    use x               x                                                *)
(*    if .. else .. end   (or if .. end; after the items of the condition) *)
(*    fun .. end          () => { .. }                                     *)
(*    class C .. end      class C() { def f() => { .. } }                  *)
(*    new C               C()                                              *)
(* Bodies of functions and of methods are units: each is analysed by a     *)
(* LocalUsageAnalysis of its own, inner units before the unit around them. *)
(***************************************************************************)
EXTENDS Integers, Sequences, FiniteSets, FiniteSetsExt

CONSTANTS
    Var,        \* the variables of the program
    Class,      \* the classes of the program
    Programs    \* the programs analysed

VARIABLES
    program,      \* the items
    unit,         \* the unit being analysed: where it opens (0: outermost)
    at,           \* the item visited next
    declared, initialized, used, mutable, assigned,  \* the usage flags set
    initCurScope, \* what the current branch or unit has initialised
    frames,       \* the if expressions being visited
    undeclared,   \* _undeclaredVars: what the current unit captures so far
    pending,      \* _locallyUndeclaredVars: the items that met them
    captures,     \* the CapturesUserData of the units analysed
    errors,       \* the items errors are reported at
    warned        \* the variables reported unused

flags == <<declared, initialized, used, mutable, assigned>>
analysisVars == <<program, unit, at, flags, initCurScope, frames, undeclared, pending,
                  captures, errors, warned>>

----------------------------------------------------------------------------
(* The shape of the program. *)

Declaring == {"param", "declare", "define"}
UnitOp == {"fun", "class"}
Item == [op : Declaring \cup {"assign", "use"}, of : Var]
        \cup [op : {"class", "new"}, of : Class]
        \cup [op : {"if", "else", "end", "fun"}]

\* How many more blocks the items i to j of s open than they close.
Opening == UnitOp \cup {"if"}
Depth(s, i, j) == Cardinality({k \in i..j : s[k].op \in Opening})
                  - Cardinality({k \in i..j : s[k].op = "end"})

\* The block that opens at j is open up to i, and further.
OpenAt(s, j, i) == \A m \in j..(i - 1) : Depth(s, j, m) > 0

\* Blocks are closed in the order the grammar asks for: an else is directly in
\* an if, and parameters come first in the function they belong to.
WellFormed(s) ==
    /\ s \in Seq(Item)
    /\ \A m \in 1..Len(s) : Depth(s, 1, m) >= 0
    /\ Depth(s, 1, Len(s)) = 0
    /\ \A i \in 1..Len(s) : s[i].op = "param" =>
          i = 1 \/ s[i - 1].op \in UnitOp \cup {"param"}
    /\ \A i \in 1..Len(s) : s[i].op = "else" =>
          \E j \in 1..(i - 1) : /\ s[j].op = "if" /\ OpenAt(s, j, i)
                                /\ \A k \in (j + 1)..(i - 1) : s[k].op \in UnitOp => ~ OpenAt(s, k, i)

ASSUME ProgramsAssumption == \A s \in Programs : WellFormed(s)

\* Names are resolved: a variable or a class has one declaration, and the block
\* (or the branch of an if) that this is in is still, or already, around every
\* item that names it.  (The declaration may come after that item.)
Naming == Declaring \cup {"assign", "use"}
Declares(s, j, i) ==
    /\ \/ s[i].op \in Naming /\ s[j].op \in Declaring
       \/ s[i].op \in {"class", "new"} /\ s[j].op = "class"
    /\ s[j].of = s[i].of
Reaches(s, j, i) ==
    IF j < i
    THEN \A m \in j..(i - 1) : Depth(s, j, m) >= 0 /\ (s[m].op = "else" => Depth(s, j, m) > 0)
    ELSE \A m \in i..(j - 1) : Depth(s, m, j - 1) <= 0 /\ (s[m].op = "else" => Depth(s, m, j - 1) < 0)
Resolved(s) ==
    \A i \in 1..Len(s) : s[i].op \in Naming \cup {"class", "new"} =>
        \E j \in 1..Len(s) : /\ Declares(s, j, i) /\ Reaches(s, j, i)
                             /\ \A k \in 1..Len(s) : Declares(s, k, i) => k = j

ASSUME NamesAssumption == \A s \in Programs : Resolved(s)

Close(i) ==
    IF i = 0 THEN Len(program) + 1
    ELSE Min({j \in i..Len(program) : Depth(program, i, j) = 0})
Units == {0} \cup {i \in 1..Len(program) : program[i].op \in UnitOp}
UnitOf(i) == Max({u \in Units : u < i /\ i < Close(u)})
NestedInNothing(u) == {}  \* mutant: inner captures are not passed on
NestedIn(u) == {v \in Units \ {0} : UnitOf(v) = u}
DeclaredIn(u) == {program[i].of : i \in {j \in 1..Len(program) :
                     program[j].op \in Declaring /\ UnitOf(j) = u}}
ClassAt(c) == CHOOSE i \in 1..Len(program) : program[i].op = "class" /\ program[i].of = c

\* Inner units first: the unit that closes next.
NextUnit(u) ==
    LET later == {v \in Units : Close(v) > Close(u)}
    IN  CHOOSE v \in later : \A w \in later : Close(v) <= Close(w)
FirstUnit == CHOOSE u \in Units : \A v \in Units : Close(u) <= Close(v)

Done == unit = Len(program) + 1
Meets(op) == ~ Done /\ at < Close(unit) /\ program[at].op = op
var == program[at].of

----------------------------------------------------------------------------
AnalysisInit ==
    /\ program \in Programs
    /\ unit = FirstUnit
    /\ at = FirstUnit + 1
    /\ declared = {} /\ initialized = {} /\ used = {} /\ mutable = {}
    /\ assigned \in SUBSET Var    \* the constructor leaves this flag unset
    /\ initCurScope = {}
    /\ frames = << >>
    /\ undeclared = {}
    /\ pending = {}
    /\ captures = [u \in {} |-> {}]
    /\ errors = {}
    /\ warned = {}

\* declare: uses the unit met too early are errors; what an inner unit
\* assigned is mutable.
TooEarly == {i \in pending : program[i].of = var}
DeclaredImmutable == {}  \* mutant: assignments by inner units are forgotten
DeclaredMutable == IF var \in assigned THEN {var} ELSE {}

\* use, by an identifier.
NoteUndeclared ==
    IF var \in declared THEN UNCHANGED <<undeclared, pending>>
    ELSE undeclared' = undeclared \cup {var} /\ pending' = pending \cup {at}

Advance == at' = at + 1 /\ UNCHANGED <<program, unit, captures, warned>>

(* analyse(FunctionCreation): the arguments. *)
Param ==
    /\ Meets("param")
    /\ declared' = declared \cup {var}
    /\ initialized' = initialized \cup {var}
    /\ initCurScope' = initCurScope \cup {var}
    /\ undeclared' = undeclared \ {var}
    /\ mutable' = mutable \cup DeclaredMutable
    /\ errors' = errors \cup TooEarly
    /\ Advance /\ UNCHANGED <<used, assigned, frames, pending>>

(* visit(TypeSpecifier) *)
Declare ==
    /\ Meets("declare")
    /\ declared' = declared \cup {var}
    /\ undeclared' = undeclared \ {var}
    /\ mutable' = mutable \cup DeclaredMutable
    /\ errors' = errors \cup TooEarly
    /\ Advance /\ UNCHANGED <<initialized, used, assigned, initCurScope, frames, pending>>

\* The second half of visit(AssignmentExpression); m is what is mutable so far.
AssignVariable(m) ==
    /\ assigned' = assigned \cup {var}
    /\ mutable' = m \cup (IF var \in initialized THEN {var} ELSE {})
    /\ initialized' = initialized \cup {var}
    /\ initCurScope' = initCurScope \cup (IF var \in initialized THEN {} ELSE {var})

(* visit(AssignmentExpression), to a declaration and to an identifier. *)
Define ==
    /\ Meets("define")
    /\ declared' = declared \cup {var}
    /\ undeclared' = undeclared \ {var}
    /\ errors' = errors \cup TooEarly
    /\ AssignVariable(mutable \cup DeclaredMutable)
    /\ Advance /\ UNCHANGED <<used, frames, pending>>

Assign ==
    /\ Meets("assign")
    /\ NoteUndeclared
    /\ AssignVariable(mutable)
    /\ Advance /\ UNCHANGED <<declared, used, frames, errors>>

(* visit(Identifier) *)
Use ==
    /\ Meets("use")
    /\ used' = used \cup {var}
    /\ NoteUndeclared
    /\ errors' = errors \cup (IF var \in declared \ initialized THEN {at} ELSE {})
    /\ Advance
    /\ UNCHANGED <<declared, initialized, mutable, assigned, initCurScope, frames>>

(* visit(IfExpression), in three parts. *)
If ==
    /\ Meets("if")
    /\ frames' = Append(frames, [saved |-> initCurScope, thenInits |-> {}, elseMet |-> FALSE])
    /\ initCurScope' = {}
    /\ Advance /\ UNCHANGED <<flags, undeclared, pending, errors>>

Else ==
    /\ Meets("else")
    /\ frames' = [frames EXCEPT ![Len(frames)].thenInits = initCurScope,
                                ![Len(frames)].elseMet = TRUE]
    /\ initialized' = initialized \ initCurScope
    /\ initCurScope' = {}
    /\ Advance
    /\ UNCHANGED <<declared, used, mutable, assigned, undeclared, pending, errors>>

\* What an if expression has initialised on both of its ways.
EitherInits(frame) == frame.thenInits \cup initCurScope  \* mutant: on one of them
BothInits(frame) == IF frame.elseMet THEN frame.thenInits \cap initCurScope ELSE {}

EndIf ==
    /\ Meets("end")
    /\ LET frame == frames[Len(frames)]
           both  == BothInits(frame)
       IN  /\ initialized' = (initialized \ initCurScope) \cup both
           /\ initCurScope' = frame.saved \cup both
    /\ frames' = SubSeq(frames, 1, Len(frames) - 1)
    /\ Advance
    /\ UNCHANGED <<declared, used, mutable, assigned, undeclared, pending, errors>>

\* useCapturedVarsOnInstantiation: what the unit u captures is used here.
UseCaptured(u) ==
    LET captured == IF u \in DOMAIN captures THEN captures[u] ELSE {}
    IN  /\ used' = used \cup captured
        /\ errors' = errors \cup
              (IF captured \cap declared \subseteq initialized THEN {} ELSE {at})

(* visit(FunctionCreation) and visit(Instantiation). *)
CreateFunction ==
    /\ Meets("fun")
    /\ UseCaptured(at)
    /\ at' = Close(at) + 1
    /\ UNCHANGED <<program, unit, declared, initialized, mutable, assigned, initCurScope, frames,
                   undeclared, pending, captures, warned>>

Instantiate ==
    /\ Meets("new")
    /\ UseCaptured(ClassAt(var))
    /\ Advance
    /\ UNCHANGED <<declared, initialized, mutable, assigned, initCurScope, frames, undeclared, pending>>

\* A class declaration executes nothing.
SkipClass ==
    /\ Meets("class")
    /\ at' = Close(at) + 1
    /\ UNCHANGED <<program, unit, flags, initCurScope, frames, undeclared, pending, captures,
                   errors, warned>>

\* visit(Program): instances of capturing classes made in another unit.
OutOfReach(capturesAll) ==
    {i \in 1..Len(program) :
        /\ program[i].op = "new"
        /\ capturesAll[ClassAt(program[i].of)] # {}
        /\ UnitOf(i) # UnitOf(ClassAt(program[i].of))}

(* The unit is analysed: what remains undeclared is what it captures (and  *)
(* for a method, what analyse(DefineDecl) then uses); the analysis of the  *)
(* unit that closes next starts from what the units directly in it         *)
(* capture.                                                                *)
EndUnit ==
    /\ ~ Done
    /\ at = Close(unit)
    /\ warned' = warned \cup (DeclaredIn(unit) \ used)
    /\ initialized' = initialized \ initCurScope
    /\ captures' = [u \in DOMAIN captures \cup {unit} |-> IF u = unit THEN undeclared ELSE captures[u]]
    /\ IF unit = 0
       THEN /\ unit' = Len(program) + 1
            /\ undeclared' = {}
            /\ errors' = errors \cup OutOfReach(captures')
       ELSE /\ unit' = NextUnit(unit)
            /\ undeclared' = UNION {captures'[v] : v \in NestedIn(unit')}
            /\ UNCHANGED errors
    /\ used' = IF unit # 0 /\ program[unit].op = "class" THEN used \cup undeclared ELSE used
    /\ at' = unit' + 1
    /\ initCurScope' = {}
    /\ pending' = {}
    /\ UNCHANGED <<program, declared, mutable, assigned, frames>>
=============================================================================
