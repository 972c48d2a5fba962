------------------------------- MODULE Methods -------------------------------
(***************************************************************************)
(* What becomes of the methods of a program's classes, from the symbols in *)
(* their scopes to the tables a call is dispatched through:                *)
(*   - type checking, src/Compiler/Frontend/Analyser/TypeChecking.cpp: the *)
(*     definitions, the classes, and what each `redef' overrides;          *)
(*   - UserDataAssignment, src/Compiler/Backend/AST2BAST/PreTransform.cpp: *)
(*     the location of every method in the tables of its class;            *)
(*   - AST2BAST, src/Compiler/Backend/AST2BAST/AST2BAST.cpp: the list of   *)
(*     methods of each class of the backend.                               *)
(*                                                                         *)
(* A program has classes, numbered in the order of their declarations, and *)
(* definitions, numbered class by class.  A class has a parent (0: none)   *)
(* and may be declared in the body of a method or as a member of a class.  *)
(* Static definitions, fields and type parameters are left out.            *)
(***************************************************************************)
EXTENDS Naturals, Sequences, FiniteSets, SequencesExt

\* The elements of s that are in T, in the order they have in s.
Select(s, T) ==
    LET first[k \in 0..Len(s)] ==
            IF k = 0 THEN << >>
            ELSE IF s[k] \in T THEN Append(first[k - 1], s[k]) ELSE first[k - 1]
    IN  first[Len(s)]

----------------------------------------------------------------------------
(* The choice between the definitions of one name that a call may mean:    *)
(* TypeChecking::resolveOverload and what it is called for                 *)
(* (src/Compiler/Frontend/Analyser/TypeChecking.cpp), over the subtyping   *)
(* of methods (src/Compiler/Frontend/Types/Types.cpp).                     *)
(*                                                                         *)
(* A definition is a record with the types of its arguments, the type it   *)
(* returns and whether it is a `redef'.  Definitions without arguments of  *)
(* their own type are classes without type parameters here: Types and      *)
(* SubTypes, the pairs of a subtype and its supertype.                     *)

CONSTANTS Types,       \* the classes that arguments and results have
          SubTypes     \* the pairs <<sub, super>> of different types

ASSUME SubTypesAssumption ==
    /\ SubTypes \subseteq Types \X Types
    /\ \A t \in Types : <<t, t>> \notin SubTypes
    /\ \A a, b, c \in Types :
          <<a, b>> \in SubTypes /\ <<b, c>> \in SubTypes => <<a, c>> \in SubTypes

isSubTypeOf(a, b) == a = b \/ <<a, b>> \in SubTypes

\* Every argument of ts can be given where one of us is expected.
AllSubTypes(ts, us) ==
    Len(ts) = Len(us) /\ \A a \in 1..Len(ts) : isSubTypeOf(ts[a], us[a])

\* isSubTypeOfValueConstructor: arguments the other way round, results not.
isSubMethodCovariant(m, n) ==  \* mutant: arguments like results
    AllSubTypes(m.args, n.args) /\ isSubTypeOf(m.ret, n.ret)
isSubMethodOf(m, n) == AllSubTypes(n.args, m.args) /\ isSubTypeOf(m.ret, n.ret)

----------------------------------------------------------------------------
(* resolveOverload: cs is the sequence of the definitions a name means, ts *)
(* the types of the arguments of the call.  The result is the one chosen   *)
(* and whether an error is reported.                                       *)

Chosen(c) == [chosen |-> <<c>>, error |-> FALSE]
NoneChosen == [chosen |-> << >>, error |-> TRUE]

\* incrScore: for every argument and every other candidate, one if the
\* argument is a subtype of that candidate's.
ScoreReversed(cs, i) ==  \* mutant: one for every supertype
    Cardinality({x \in (1..Len(cs[i].args)) \X (1..Len(cs)) :
                     x[2] # i /\ isSubTypeOf(cs[x[2]].args[x[1]], cs[i].args[x[1]])})
Score(cs, i) == Cardinality({x \in (1..Len(cs[i].args)) \X (1..Len(cs)) :
                     x[2] # i /\ isSubTypeOf(cs[i].args[x[1]], cs[x[2]].args[x[1]])})

\* candidateRedefs: a redef overrides every candidate it could replace.
Redefs(cs, i, j) == cs[i].redef /\ AllSubTypes(cs[j].args, cs[i].args)
\* Of two that override each other the first is kept.
Overrides(cs, i, j) == Redefs(cs, i, j) /\ (i < j \/ ~ Redefs(cs, j, i))
Valid(cs, i) == \A j \in 1..Len(cs) \ {i} : ~ Overrides(cs, j, i)

\* The arguments are compared one after the other, until one candidate is left.
DiscardIncompatible(scored, ts) ==
    LET Fit(a) == {s \in ToSet(scored) : isSubTypeOf(ts[a], s.def.args[a])}
        left[a \in 0..Len(ts)] ==
            IF a = 0 THEN scored
            ELSE IF Len(left[a - 1]) = 1 /\ a > 1 THEN left[a - 1]
            ELSE Select(left[a - 1], Fit(a))
    IN  left[Len(ts)]

\* The first of those with the best score; an error if there are others.
Best(scored) ==
    LET best == Select(scored, {s \in ToSet(scored) : \A r \in ToSet(scored) : r.score <= s.score})
    IN  IF best = << >> THEN NoneChosen
        ELSE [chosen |-> <<best[1].def>>, error |-> Len(best) > 1]

ChooseAmong(cs, ts) ==
    LET scored == [i \in 1..Len(cs) |-> [def |-> cs[i], score |-> Score(cs, i), valid |-> Valid(cs, i)]]
        kept   == Select(scored, {s \in ToSet(scored) : s.valid})
        fit    == DiscardIncompatible(kept, ts)
    IN  IF Len(kept) = 1 THEN Chosen(kept[1].def)
        ELSE IF Len(fit) = 1 THEN Chosen(fit[1].def)
        ELSE Best(fit)

\* Two definitions of which one is a redef are not compared at all.
OneRedef(cs) == Len(cs) = 2 /\ cs[1].redef # cs[2].redef

resolveOverload(cs, ts) ==
    LET candidates == Select(cs, {c \in ToSet(cs) : Len(c.args) = Len(ts)})
    IN  IF cs = << >> THEN NoneChosen
        ELSE IF Len(cs) = 1 THEN Chosen(cs[1])
        ELSE IF OneRedef(cs) THEN Chosen(IF cs[1].redef THEN cs[1] ELSE cs[2])
        ELSE IF Len(candidates) = 1 THEN Chosen(candidates[1])
        ELSE ChooseAmong(candidates, ts)

\* visit(FunctionCall): the arguments are compared with those of the choice.
CallMember(cs, ts) ==
    LET found == resolveOverload(cs, ts)
    IN  IF found.chosen # << >> /\ ~ AllSubTypes(ts, found.chosen[1].args)
        THEN [found EXCEPT !.error = TRUE] ELSE found

----------------------------------------------------------------------------
(* The passes                                                              *)

CONSTANT Programs    \* the programs that are compiled

\* Name analysis refuses cycles of classes that extend one another; what is
\* declared inside something comes after it.
ASSUME ProgramsAssumption == \A p \in Programs :
    LET class == 1..Len(p.classes)  def == 1..Len(p.defs)
    IN  /\ Len(p.classes) \in Nat /\ Len(p.defs) \in Nat
        /\ \A c \in class : /\ p.classes[c].parent \in class \cup {0}
                            /\ p.classes[c].method \in def \cup {0}
                            /\ p.classes[c].outer \in 0..(c - 1)
                            /\ p.classes[c].method # 0 => p.defs[p.classes[c].method].owner < c
        /\ \E rank \in [class -> 0..Len(p.classes)] : \A c \in class :
              p.classes[c].parent # 0 => rank[p.classes[c].parent] < rank[c]
        /\ \A d \in def : /\ p.defs[d].id = d /\ p.defs[d].owner \in class
                          /\ p.defs[d].args \in Seq(Types) /\ p.defs[d].ret \in Types
                          /\ p.defs[d].redef \in BOOLEAN /\ p.defs[d].abstract \in BOOLEAN

VARIABLES program,      \* [classes, defs]
          stage,        \* the pass that runs, or how it ended
          checked,      \* the definitions whose visit is over
          classesDone,  \* how many classes the present pass is through with
          redefs,       \* _redefs
          overriden,    \* the definition that each definition overrides, or 0
          errors,       \* whether an error was reported
          visiting,     \* the classes UserDataAssignment is in, innermost last
          visited,      \* _visitedClasses
          tables,       \* ClassUserData: for each class, << >> or <<its methods>>
          location,     \* VirtualDefUserData: for each definition, 0 or where it is
          methods       \* ClassDef: for each class, << >> or <<its methods>>

checking == <<checked, redefs, overriden, errors>>
assigning == <<visiting, visited, tables, location>>
vars == <<program, stage, classesDone, checking, assigning, methods>>

Class == 1..Len(program.classes)
Def == 1..Len(program.defs)
DefsOf(c) == Select([d \in Def |-> d], {d \in Def : program.defs[d].owner = c})
ParentOf(c) == program.classes[c].parent

\* The definitions in the scope of a class, as the multimap keeps them: what
\* is added is put in front, first its own, then a copy of its parent's.
ScopeWithout(c, n) ==
    LET from[b \in Class] ==
            LET own == Select(DefsOf(b), {d \in Def : program.defs[d].name = n})
            IN  (IF ParentOf(b) = 0 THEN << >> ELSE Reverse(from[ParentOf(b)])) \o Reverse(own)
    IN  from[c]
ScopeOf(c, n) == [k \in DOMAIN ScopeWithout(c, n) |-> program.defs[ScopeWithout(c, n)[k]]]

NameSet == {program.defs[d].name : d \in Def}

Init ==
    /\ program \in Programs
    /\ stage = "definitions"
    /\ checked = {} /\ classesDone = 0 /\ redefs = << >> /\ errors = FALSE
    /\ overriden = [d \in Def |-> 0]
    /\ visiting = << >> /\ visited = {}
    /\ tables = [c \in Class |-> << >>]
    /\ location = [d \in Def |-> 0]
    /\ methods = [c \in Class |-> << >>]

----------------------------------------------------------------------------
(* Type checking *)

\* visit(DefineDecl): a body may refer to any definition, which is visited
\* before the visit goes on, so that they may end in any order.
CheckDef(d) ==
    /\ stage = "definitions" /\ d \notin checked
    /\ checked' = checked \cup {d}
    /\ redefs' = IF program.defs[d].redef THEN Append(redefs, d) ELSE redefs
    /\ UNCHANGED <<program, stage, classesDone, overriden, errors, assigning, methods>>

\* visit(ClassDecl): a class that is not abstract has a redef for every
\* abstract member; they are counted.
AllIn(c) == UNION {{ScopeOf(c, n)[k].id : k \in DOMAIN ScopeOf(c, n)} : n \in NameSet}
AbstractOverRedef(c) ==
    << Cardinality({d \in AllIn(c) : program.defs[d].abstract}),
       Cardinality({d \in AllIn(c) : program.defs[d].redef /\ ~ program.defs[d].abstract}) >>
LacksRedefs(c) ==
    /\ ~ program.classes[c].abstract
    /\ AbstractOverRedef(c)[1] > AbstractOverRedef(c)[2]
CheckClass ==
    /\ stage = "definitions" /\ classesDone < Len(program.classes)
    /\ ToSet(DefsOf(classesDone + 1)) \subseteq checked
    /\ classesDone' = classesDone + 1
    /\ errors' = (errors \/ LacksRedefs(classesDone + 1))
    /\ UNCHANGED <<program, stage, checked, redefs, overriden, assigning, methods>>

\* findOverridenSymbol: the first other definition in the scope that the redef
\* is a subtype of, or what that one overrides; redefs that override nothing
\* yet are passed over.
OverridesAs(d, other) ==
    IF ~ isSubMethodOf(program.defs[d], other) \/ other.id = d THEN 0
    ELSE IF other.redef THEN overriden[other.id] ELSE other.id
findOverridenSymbol(d) ==
    LET scope == ScopeOf(program.defs[d].owner, program.defs[d].name)
        found == {k \in DOMAIN scope : OverridesAs(d, scope[k]) # 0}
    IN  IF found = {} THEN 0 ELSE OverridesAs(d, scope[Min(found)])

\* visit(Program), after everything in it.
StartOverriding ==
    /\ stage = "definitions" /\ classesDone = Len(program.classes)
    /\ stage' = "overrides"
    /\ UNCHANGED <<program, classesDone, checking, assigning, methods>>
Override ==
    /\ stage = "overrides" /\ redefs # << >>
    /\ LET r == findOverridenSymbol(redefs[1])
       IN  /\ overriden' = [overriden EXCEPT ![redefs[1]] = r]
           /\ errors' = (errors \/ r = 0)
    /\ redefs' = Tail(redefs)
    /\ UNCHANGED <<program, stage, checked, classesDone, assigning, methods>>
\* The phases of the backend run on programs without errors only.
EndChecking ==
    /\ stage = "overrides" /\ redefs = << >>
    /\ stage' = IF errors THEN "rejected" ELSE "locations"
    /\ classesDone' = 0
    /\ UNCHANGED <<program, checking, assigning, methods>>

----------------------------------------------------------------------------
(* UserDataAssignment *)

\* The methods of a class that is being visited, and its definition in turn
\* (0: its parent comes first).
Frame(c) == [class |-> c, defs |-> << >>, next |-> 0]
Top == visiting[Len(visiting)]
SetTop(f) == visiting' = [visiting EXCEPT ![Len(visiting)] = f]
Visit(c) == visiting' = Append(visiting, Frame(c)) /\ visited' = visited \cup {c}

\* Declared in the body of that method, or as a member of that class.
ClassesIn(d) == {c \in Class : program.classes[c].method = d}
MembersOf(c) == {b \in Class : program.classes[b].outer = c}

VisitNextClass ==
    /\ stage = "locations" /\ visiting = << >> /\ classesDone < Len(program.classes)
    /\ classesDone' = classesDone + 1
    /\ LET c == classesDone + 1
       IN  IF program.classes[c].method # 0 \/ program.classes[c].outer # 0 \/ c \in visited
           THEN UNCHANGED <<visiting, visited>> ELSE Visit(c)
    /\ UNCHANGED <<program, stage, checking, tables, location, methods>>

\* What has no user data yet is read as if it had: nothing, or what a pass
\* before this one left there.  Anything may happen then.
ReadUnset == stage' = "undefined" /\ UNCHANGED assigning
AssigningDefs == stage = "locations" /\ visiting # << >>

ParentTable == IF ParentOf(Top.class) = 0 THEN << << >> >> ELSE tables[ParentOf(Top.class)]
VisitParentLate ==  \* mutant: the parent is visited when its turn comes
    /\ AssigningDefs /\ Top.next = 0
    /\ \/ ParentTable = << >> /\ ReadUnset
       \/ /\ ParentTable # << >>
          /\ SetTop([Top EXCEPT !.defs = ParentTable[1], !.next = 1])
          /\ UNCHANGED <<stage, visited, tables, location>>
    /\ UNCHANGED <<program, classesDone, checking, methods>>
VisitParent ==
    /\ AssigningDefs /\ Top.next = 0
    /\ LET p == ParentOf(Top.class)
       IN  \/ /\ p # 0 /\ p \notin visited
              /\ Visit(p) /\ UNCHANGED <<stage, tables, location>>
           \/ /\ p \in visited /\ ParentTable = << >> /\ ReadUnset
           \/ /\ ParentTable # << >>
              /\ SetTop([Top EXCEPT !.defs = ParentTable[1], !.next = 1])
              /\ UNCHANGED <<stage, visited, tables, location>>
    /\ UNCHANGED <<program, classesDone, checking, methods>>

\* A redef is put where what it overrides is, anything else at the end.
LocationForAll(d) == Len(Top.defs) + 1  \* mutant: redefs too
LocationFor(d) ==
    IF program.defs[d].redef THEN location[overriden[d]] ELSE Len(Top.defs) + 1
Put(defs, k, d) == IF k > Len(defs) THEN Append(defs, d) ELSE [defs EXCEPT ![k] = d]
VisitDef ==
    /\ AssigningDefs /\ Top.next \in 1..Len(DefsOf(Top.class))
    /\ LET d == DefsOf(Top.class)[Top.next]
           inner == ClassesIn(d) \ visited
       IN  \/ /\ inner # {}
              /\ Visit(CHOOSE c \in inner : \A b \in inner : c <= b)
              /\ UNCHANGED <<stage, tables, location>>
           \/ /\ inner = {} /\ LocationFor(d) = 0 /\ ReadUnset
           \/ /\ inner = {} /\ LocationFor(d) # 0
              /\ location' = [location EXCEPT ![d] = LocationFor(d)]
              /\ SetTop([Top EXCEPT !.defs = Put(@, LocationFor(d), d), !.next = @ + 1])
              /\ UNCHANGED <<stage, visited, tables>>
    /\ UNCHANGED <<program, classesDone, checking, methods>>

\* The user data of the class is set, then its inner classes are visited.
EndVisit ==
    /\ AssigningDefs /\ Top.next = Len(DefsOf(Top.class)) + 1
    /\ LET c == Top.class
           inner == MembersOf(c) \ visited
       IN  /\ tables' = [tables EXCEPT ![c] = <<Top.defs>>]
           /\ IF inner = {} THEN visiting' = Front(visiting) /\ UNCHANGED visited
              ELSE Visit(CHOOSE b \in inner : \A a \in inner : b <= a)
    /\ UNCHANGED <<program, stage, classesDone, checking, location, methods>>

----------------------------------------------------------------------------
(* AST2BAST *)

StartGeneration ==
    /\ stage = "locations" /\ visiting = << >> /\ classesDone = Len(program.classes)
    /\ stage' = "backend" /\ classesDone' = 0
    /\ UNCHANGED <<program, checking, assigning, methods>>

\* visit(ClassDecl): abstract methods all have one name, which is 0 here.
GenerateClass ==
    /\ stage = "backend" /\ classesDone < Len(program.classes)
    /\ LET c == classesDone + 1
       IN  methods' = [methods EXCEPT ![c] =
                <<[k \in DOMAIN tables[c][1] |->
                      IF program.defs[tables[c][1][k]].abstract THEN 0 ELSE tables[c][1][k]]>>]
    /\ classesDone' = classesDone + 1
    /\ UNCHANGED <<program, stage, checking, assigning>>
EndGeneration ==
    /\ stage = "backend" /\ classesDone = Len(program.classes)
    /\ stage' = "generated"
    /\ UNCHANGED <<program, classesDone, checking, assigning, methods>>

Ended == stage \in {"rejected", "undefined", "generated"} /\ UNCHANGED vars

Next ==
    \/ \E d \in Def : CheckDef(d)
    \/ CheckClass \/ StartOverriding \/ Override \/ EndChecking
    \/ VisitNextClass \/ VisitParent \/ VisitDef \/ EndVisit
    \/ StartGeneration \/ GenerateClass \/ EndGeneration
    \/ Ended

Spec == Init /\ [][Next]_vars
=============================================================================
