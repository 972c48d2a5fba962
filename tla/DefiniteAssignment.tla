-------------------------- MODULE DefiniteAssignment --------------------------
(***************************************************************************)
(* What the usage analysis promises, stated over the executions of the     *)
(* unit it is analysing: the set "paths" holds, for every way execution    *)
(* can reach the item the analysis has come to, what has happened to the   *)
(* variables on that way.  A function captures its free variables when it  *)
(* is created, an object those of its class when it is instantiated: by    *)
(* value, or by reference through a box if the variable is mutable         *)
(* (src/Compiler/Backend/AST2BAST/PreTransform.cpp).  A captured variable  *)
(* has to have a value by then.                                            *)
(***************************************************************************)
EXTENDS UsageAnalysis

VARIABLES
    paths,     \* the ways to get to this item: [declared, assigned, captured]
    branches,  \* for each open if: the ways into it, the ways through "then"
    faults,    \* items where a way uses, assigns or captures what is not there
    needsBox,  \* variables assigned after they were captured, on some way
    mixed      \* variables assigned where only some ways had assigned them

vars == <<analysisVars, paths, branches, faults, needsBox, mixed>>

\* The items of unit u, inner units included, and its free variables.
Within(u) == {i \in 1..Len(program) : u < i /\ i < Close(u)}
Free(u) ==
    {program[i].of : i \in {j \in Within(u) : program[j].op \in Naming}}
    \ {program[i].of : i \in {j \in Within(u) : program[j].op \in Declaring}}

\* What the item creates an object of.
CreatedAt(i) == IF program[i].op = "new" THEN ClassAt(program[i].of) ELSE i

\* A unit is entered with the variables of the units around it captured.
Enter(u) == LET outer == Var \ DeclaredIn(u)
            IN  {[declared |-> outer, assigned |-> outer, captured |-> outer]}

PathInit ==
    /\ paths = Enter(FirstUnit)
    /\ branches = << >>
    /\ faults = {}
    /\ needsBox = {}
    /\ mixed = {}

Fault(if) == faults' = IF if THEN faults \cup {at} ELSE faults

PathDeclare ==
    /\ paths' = {[p EXCEPT !.declared = @ \cup {var}] : p \in paths}
    /\ UNCHANGED <<branches, faults, needsBox, mixed>>

PathDefine ==
    /\ paths' = {[p EXCEPT !.declared = @ \cup {var}, !.assigned = @ \cup {var}] : p \in paths}
    /\ UNCHANGED <<branches, faults, needsBox, mixed>>

PathAssign ==
    /\ Fault(\E p \in paths : var \notin p.declared)
    /\ needsBox' = IF \E p \in paths : var \in p.captured THEN needsBox \cup {var} ELSE needsBox
    /\ mixed' = IF \E p, q \in paths : var \in p.assigned /\ var \notin q.assigned
                THEN mixed \cup {var} ELSE mixed
    /\ paths' = {[p EXCEPT !.assigned = @ \cup {var}] : p \in paths}
    /\ UNCHANGED branches

PathUse ==
    /\ Fault(\E p \in paths : var \notin p.declared \cap p.assigned)
    /\ UNCHANGED <<paths, branches, needsBox, mixed>>

PathIf ==
    /\ branches' = Append(branches, [into |-> paths, through |-> paths])
    /\ UNCHANGED <<paths, faults, needsBox, mixed>>

PathElse ==
    /\ branches' = [branches EXCEPT ![Len(branches)].through = paths]
    /\ paths' = branches[Len(branches)].into
    /\ UNCHANGED <<faults, needsBox, mixed>>

PathEndIf ==
    /\ paths' = paths \cup branches[Len(branches)].through
    /\ branches' = SubSeq(branches, 1, Len(branches) - 1)
    /\ UNCHANGED <<faults, needsBox, mixed>>

PathCreate ==
    LET free == Free(CreatedAt(at))
    IN  /\ Fault(\/ \E p \in paths : ~ free \subseteq p.declared \cap p.assigned
                 \/ /\ program[at].op = "new" /\ free # {}
                    /\ UnitOf(at) # UnitOf(CreatedAt(at)))
        /\ paths' = {[p EXCEPT !.captured = @ \cup free] : p \in paths}
        /\ UNCHANGED <<branches, needsBox, mixed>>

PathEnd ==
    /\ paths' = IF unit = 0 THEN {} ELSE Enter(unit')
    /\ UNCHANGED <<branches, faults, needsBox, mixed>>

Init == AnalysisInit /\ PathInit

Next ==
    \/ Declare /\ PathDeclare
    \/ (Param \/ Define) /\ PathDefine
    \/ Assign /\ PathAssign
    \/ Use /\ PathUse
    \/ If /\ PathIf
    \/ Else /\ PathElse
    \/ EndIf /\ PathEndIf
    \/ (CreateFunction \/ Instantiate) /\ PathCreate
    \/ SkipClass /\ UNCHANGED <<paths, branches, faults, needsBox, mixed>>
    \/ EndUnit /\ PathEnd
    \/ Done /\ UNCHANGED vars

Spec == Init /\ [][Next]_vars

----------------------------------------------------------------------------
(* Properties *)

(* While a unit is analysed, a variable it declares is INITIALIZED exactly *)
(* if every way execution can get here has assigned it: branches that are  *)
(* left, joined or nested never leave a flag behind or lose one.           *)
InitializedOnEveryPath ==
    ~ Done => \A v \in DeclaredIn(unit) :
        v \in initialized <=> \A p \in paths : v \in p.assigned

(* The inductive invariant behind it.  The analysis has come to an item of *)
(* the unit, outside of the units in it, through as many ifs as there are  *)
(* frames.  What is initialized was initialized in the branch it is in or  *)
(* in one around it, never twice, and at each branch is what every way     *)
(* into it, or through the branch before it, has assigned.                 *)
First == IF unit = 0 THEN 1 ELSE unit  \* the first item of the unit
PositionInvariant ==
    /\ WellFormed(program)
    /\ unit \in Units
    /\ at \in (unit + 1)..Close(unit)
    /\ Depth(program, First, at - 1) = Len(frames) + (IF unit = 0 THEN 0 ELSE 1)
    /\ at > unit + 1 => /\ program[at - 1].op \notin UnitOp
                        /\ program[at - 1].op = "param" => frames = << >>

Frame == [saved : SUBSET Var, thenInits : SUBSET Var, elseMet : BOOLEAN]
Path == [declared : SUBSET Var, assigned : SUBSET Var, captured : SUBSET Var]
AnalysisTypeOK ==
    /\ {initialized, initCurScope} \subseteq SUBSET Var
    /\ frames \in Seq(Frame)
    /\ paths \subseteq Path
    /\ branches \in Seq([into : SUBSET Path, through : SUBSET Path])
    /\ Len(branches) = Len(frames)

SavedIn(fs, k) == UNION {fs[j].saved : j \in 1..k}
ScopesInvariant ==
    /\ initialized = initCurScope \cup SavedIn(frames, Len(frames))
    /\ initCurScope \cap SavedIn(frames, Len(frames)) = {}
    /\ \A k \in 1..Len(frames) :
          /\ frames[k].saved \cap SavedIn(frames, k - 1) = {}
          /\ frames[k].thenInits \cap SavedIn(frames, k) = {}
          /\ ~ frames[k].elseMet => frames[k].thenInits = {}

AssignedOnAll(S, I) == \A v \in DeclaredIn(unit) : v \in I <=> \A p \in S : v \in p.assigned
WaysInvariant ==
    /\ AssignedOnAll(paths, initialized)
    /\ \A k \in 1..Len(frames) :
          /\ AssignedOnAll(branches[k].into, SavedIn(frames, k))
          /\ AssignedOnAll(branches[k].through, SavedIn(frames, k) \cup frames[k].thenInits)

AssignmentInvariant ==
    ~ Done => PositionInvariant /\ AnalysisTypeOK /\ ScopesInvariant /\ WaysInvariant

\* An object is created here that captures a variable declared further on.
CapturesTooEarly(i) ==
    /\ program[i].op \in {"fun", "new"}
    /\ \E j \in 1..Len(program) : j > i /\ program[j].op \in Declaring
                                  /\ program[j].of \in Free(CreatedAt(i))

(* The errors reported are exactly the items at which some execution goes  *)
(* wrong, wherever functions and classes lie and whatever they capture;    *)
(* the code does not look at the creation of an object ahead of the        *)
(* declaration of a variable it captures.                                  *)
ErrorsAreFaults ==
    Done => {i \in errors : ~ CapturesTooEarly(i)} = {i \in faults : ~ CapturesTooEarly(i)}

(* A variable that is assigned after it was captured is mutable, so that   *)
(* it is captured by reference and the closure sees the new value.  The    *)
(* code takes a variable for immutable that only some ways have assigned.  *)
ReassignedIsMutable == Done /\ faults = {} => needsBox \subseteq mutable \cup mixed

(* What the analysis knows of names.  Visited are the items of the units   *)
(* that are closed, and those of this unit, up to here: what they declare  *)
(* is declared.  What the units captured is what is free in them.          *)
Direct(i) == UnitOf(i) = unit /\ i < at
Visited(i) == Close(UnitOf(i)) < Close(unit) \/ Direct(i)
NamedBy(S, ops) == {program[i].of : i \in {j \in S : program[j].op \in ops}}
DirectItems == {i \in 1..Len(program) : Direct(i)}
VisitedItems == {i \in 1..Len(program) : Visited(i)}
ClosedUnits == {u \in Units : Close(u) < Close(unit)}
NamesInvariant ==
    /\ at < Close(unit) => UnitOf(at) = unit
    /\ declared = NamedBy(VisitedItems, Declaring)
    /\ DOMAIN captures = ClosedUnits /\ \A u \in ClosedUnits : captures[u] = Free(u)
    /\ undeclared = ((UNION {Free(v) : v \in NestedIn(unit)}) \cup NamedBy(DirectItems, {"assign", "use"}))
                    \ NamedBy(DirectItems, Declaring)
    /\ pending \subseteq {i \in DirectItems : program[i].op \in {"assign", "use"}}

(* What has happened on the ways.  Variables of the units around have      *)
(* their values; of those of this unit a way declares only what is         *)
(* declared, and all that reaches it: on the ways that get here, and on    *)
(* those kept for the ifs opened since the declaration.                    *)
WaysOf(k) == branches[k].into \cup branches[k].through
AllWays == paths \cup UNION {WaysOf(k) : k \in 1..Len(frames)}
DeclarationsInvariant ==
    /\ paths # {} /\ \A k \in 1..Len(frames) : branches[k].into # {}
    /\ \A p \in AllWays :
          /\ Var \ DeclaredIn(unit) \subseteq p.declared \cap p.assigned
          /\ p.declared \cap DeclaredIn(unit) \subseteq declared
          /\ faults = {} => p.captured \cap DeclaredIn(unit) \subseteq p.assigned
    /\ \A j \in DirectItems : program[j].op \in Declaring /\ Reaches(program, j, at) =>
          /\ \A p \in paths : program[j].of \in p.declared
          /\ \A k \in 1..Len(frames) : k > Len(frames) - Depth(program, j, at - 1) =>
                \A p \in WaysOf(k) : program[j].of \in p.declared

(* What was assigned after it was captured is mutable, or is declared by a *)
(* unit around this one, which will see that it is assigned.               *)
BoxesInvariant ==
    /\ needsBox \subseteq NamedBy(1..Len(program), Naming)
    /\ faults = {} => needsBox \subseteq mutable \cup mixed \cup (assigned \ declared)

(* Where errors are and where faults, among the items visited.  Too early  *)
(* a use waits for the declaration to be reported.                         *)
Awaits(i) == i \in pending /\ program[i].of \in DeclaredIn(unit) \ declared
OtherUnit(i) == program[i].op = "new" /\ UnitOf(i) # UnitOf(CreatedAt(i))
Reported(i) ==
    /\ program[i].op \in {"assign", "use"} => (i \in faults <=> i \in errors \/ Awaits(i))
    /\ program[i].op \in {"fun", "new"} /\ ~ OtherUnit(i) /\ ~ CapturesTooEarly(i) =>
          (i \in faults <=> i \in errors)
    /\ OtherUnit(i) => /\ i \in faults <=> Free(CreatedAt(i)) # {}
                       /\ i \in errors => Free(CreatedAt(i)) # {}
    /\ i \in errors \cup faults => program[i].op \in {"assign", "use", "fun", "new"}
ErrorsInvariant ==
    /\ errors \cup faults \subseteq VisitedItems
    /\ \A i \in VisitedItems : Reported(i)

ReportsInvariant ==
    ~ Done => NamesInvariant /\ DeclarationsInvariant /\ BoxesInvariant /\ ErrorsInvariant
=============================================================================
