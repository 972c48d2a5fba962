------------------------------ MODULE Dispatch ------------------------------
(***************************************************************************)
(* Calls of methods: which definition type checking chooses for a call on  *)
(* an object of some class, and which one runs when the object is of a     *)
(* class that extends it.  AST2BAST::visit(FunctionCall) keeps of the      *)
(* chosen definition only its location.                                    *)
(***************************************************************************)
EXTENDS Methods

\* A class and those it extends.
Lineage(c) ==
    LET from[b \in Class] == {b} \cup (IF ParentOf(b) = 0 THEN {} ELSE from[ParentOf(b)])
    IN  from[c]

Root(d) == IF overriden[d] = 0 THEN d ELSE overriden[d]

\* The types arguments of calls may have.
ArgTypes == UNION {[1..Len(program.defs[d].args) -> Types] : d \in Def}

\* DynamicMethodCall: what runs at a location of an object of class c.
DynamicMethodCall(c, d) == methods[c][1][location[d]]

Call(s, n, ts) == CallMember(ScopeOf(s, n), ts)

Generated == stage = "generated"
Instantiable == {c \in Class : ~ program.classes[c].abstract}

----------------------------------------------------------------------------
(* Properties *)

\* What runs is the most derived definition: of all the definitions a class
\* has or inherits that override one method, the backend's class has the one
\* of the nearest class, the last one there, at the location of that method,
\* or nothing if that one is abstract.
NearerThan(d, e) ==
    LET a == program.defs[d].owner  b == program.defs[e].owner
    IN  IF a = b THEN d >= e ELSE b \in Lineage(a)
MostDerivedRuns ==
    Generated => \A c \in Class : \A d \in Def :
        (program.defs[d].owner \in Lineage(c) /\ ~ program.defs[d].redef) =>
            LET same == {e \in Def : program.defs[e].owner \in Lineage(c) /\ Root(e) = d}
            IN  \E e \in same :
                    /\ \A x \in same : NearerThan(e, x)
                    /\ DynamicMethodCall(c, d) = IF program.defs[e].abstract THEN 0 ELSE e

\* A call that type checking accepts on an object known as an s runs, on an
\* object of any class that extends s, a method that takes the arguments and
\* returns what the overridden method does, provided that method takes them
\* too: a redef is compared with the method it overrides, never with another
\* redef between them, which may take more.
CallsKept ==
    Generated => \A c \in Class : \A s \in Lineage(c) : \A n \in NameSet : \A ts \in ArgTypes :
        LET call == Call(s, n, ts)
        IN  ~ call.error =>
                LET d    == call.chosen[1].id
                    r    == program.defs[Root(d)]
                    runs == DynamicMethodCall(c, d)
                IN  /\ runs # 0 => /\ Root(runs) = Root(d)
                                   /\ isSubMethodOf(program.defs[runs], r)
                    /\ AllSubTypes(ts, r.args) /\ runs # 0 => AllSubTypes(ts, program.defs[runs].args)

\* The choice between overloads, made with scores that all the candidates
\* influence and with shortcuts that skip comparisons: a definition is chosen
\* without an error only if it takes the arguments and none that does is more
\* specific; one more specific than all the others is always chosen; and
\* there is an error when none takes them.  Overloads that a redef with wider
\* arguments hides are no candidates.
Hidden(cs, d) == \E r \in cs : /\ r # d /\ r.redef /\ AllSubTypes(d.args, r.args)
                               /\ d.redef => d.args # r.args
Rivals(cs, d, e) == e.args # d.args /\ AllSubTypes(e.args, d.args)
MostSpecificChosen ==
    Generated => \A s \in Class : \A n \in NameSet : \A ts \in ArgTypes :
        LET all  == ToSet(ScopeOf(s, n))
            able == {d \in all : AllSubTypes(ts, d.args) /\ ~ Hidden(all, d)}
            call == Call(s, n, ts)
        IN  /\ ~ call.error => /\ call.chosen[1] \in able
                               /\ \A e \in able : ~ Rivals(able, call.chosen[1], e)
            /\ \A d \in able :
                  (\A e \in able \ {d} : Rivals(able, e, d)) => call = Chosen(d)

\* A program that type checking accepts gets its tables, unless a redef
\* overrides a definition declared after it in its own class, or a class is
\* visited while the visit of its parent waits for what it is declared in:
\* then what is not set yet is read.
ForwardOverride == \E d \in Def : /\ overriden[d] > d
                                  /\ program.defs[overriden[d]].owner = program.defs[d].owner

\* The visit of b waits for that of c; or ends with it, as for a member of b.
Awaits(b, c) == c = ParentOf(b) \/ program.classes[c].method \in ToSet(DefsOf(b))
VisitsNext(b, c) == Awaits(b, c) \/ c \in MembersOf(b)
\* The visit of c may be in that of b: every set with b, and with what is
\* visited next from any of its classes, has c.
VisitedWithin(b, c) ==
    \A S \in SUBSET Class :
        b \in S /\ (\A x \in S, y \in Class : VisitsNext(x, y) => y \in S) => c \in S
InsideItsParent ==
    \E c, b \in Class : ParentOf(c) # 0 /\ Awaits(ParentOf(c), b) /\ VisitedWithin(b, c)
LocationsKnown == stage = "undefined" => ForwardOverride \/ InsideItsParent

\* A class that is accepted as not abstract has a body for every method.
AbstractAllRedefined ==
    Generated => \A c \in Instantiable : 0 \notin ToSet(methods[c][1])

----------------------------------------------------------------------------
(* The inductive invariant behind the properties                           *)

Stages == {"definitions", "overrides", "rejected", "locations", "undefined", "backend", "generated"}
OwnerOf(d) == program.defs[d].owner
DefsIn(classes) == {d \in Def : OwnerOf(d) \in classes}

(* Type checking: what a redef overrides is a definition that is no redef, *)
(* that it may stand for, and that its class has.                          *)
OverrideFound(d) ==
    LET r == overriden[d]
    IN  /\ program.defs[d].redef /\ r \in Def /\ ~ program.defs[r].redef
        /\ OwnerOf(r) \in Lineage(OwnerOf(d))
        /\ program.defs[r].name = program.defs[d].name
        /\ isSubMethodOf(program.defs[d], program.defs[r])
Redefinitions == {d \in Def : program.defs[d].redef}
OverridesInvariant ==
    /\ stage \in Stages /\ errors \in BOOLEAN
    /\ classesDone \in 0..Len(program.classes)
    /\ overriden \in [Def -> Nat] /\ redefs \in Seq(Redefinitions)
    /\ \A d \in Def : overriden[d] # 0 => OverrideFound(d)
    /\ stage = "definitions" => \A c \in 1..classesDone : DefsIn({c}) \subseteq checked
    /\ \A d \in Redefinitions : \/ stage = "definitions" /\ d \notin checked
                                \/ \E i \in 1..Len(redefs) : redefs[i] = d
                                \/ overriden[d] # 0 \/ errors
    /\ stage \notin {"definitions", "overrides", "rejected"} =>
          \A d \in Redefinitions : overriden[d] # 0

(* A table of some definitions has, at each location, the nearest of those *)
(* that override one method, which is where all of them are.               *)
IsTable(t, D) ==
    /\ t \in Seq(D)
    /\ \A d \in D : location[d] \in 1..Len(t) /\ location[Root(d)] = location[d]
    /\ \A k \in 1..Len(t) :
          /\ location[t[k]] = k
          /\ \A d \in D : location[d] = k => Root(d) = Root(t[k]) /\ NearerThan(t[k], d)

\* What a class inherits, and what of its own is in the table of a frame.
Inherited(c) == IF ParentOf(c) = 0 THEN {} ELSE DefsIn(Lineage(ParentOf(c)))
Own(f) == {DefsOf(f.class)[i] : i \in 1..(f.next - 1)}
FrameIsTable(f) == f.next # 0 => IsTable(f.defs, Inherited(f.class) \cup Own(f))
TablesAreTables == \A c \in Class : tables[c] # << >> =>
    tables[c] = <<tables[c][1]>> /\ IsTable(tables[c][1], DefsIn(Lineage(c)))
FramesAreTables == \A i \in 1..Len(visiting) : FrameIsTable(visiting[i])
PlacedWereVisited == \A d \in Def : location[d] # 0 =>
    /\ OwnerOf(d) \in visited /\ ClassesIn(d) \subseteq visited
    /\ \A i \in 1..Len(visiting) : visiting[i].class = OwnerOf(d) => d \in Own(visiting[i])
TablesInvariant ==
    /\ DOMAIN tables = Class /\ tables = [c \in Class |-> tables[c]]
    /\ location \in [Def -> Nat]
    /\ TablesAreTables /\ FramesAreTables /\ PlacedWereVisited

(* The classes on the stack are different; each is visited because of the  *)
(* one below, which waits for it unless it has its table.                  *)
StackTyped ==
    /\ visiting \in Seq([class : Class, defs : Seq(Def), next : Nat])
    /\ \A i \in 1..Len(visiting) : visiting[i].next <= Len(DefsOf(visiting[i].class)) + 1
    /\ \A i, j \in 1..Len(visiting) : visiting[i].class = visiting[j].class => i = j
StackLinked ==
    \A i, j \in 1..Len(visiting) : j = i + 1 =>
        /\ VisitsNext(visiting[i].class, visiting[j].class)
        /\ tables[visiting[i].class] = << >> => Awaits(visiting[i].class, visiting[j].class)
StackInvariant == StackTyped /\ StackLinked

(* Every class is visited before the backend starts.                       *)
StackVisited ==
    /\ visited \subseteq Class
    /\ \A i \in 1..Len(visiting) : visiting[i].class \in visited
VisitedSettled ==
    /\ \A c \in Class : tables[c] # << >> => c \in visited
    /\ \A c \in visited : (\A i \in 1..Len(visiting) : visiting[i].class # c) =>
          tables[c] # << >> /\ MembersOf(c) \subseteq visited
VisitsInStage ==
    /\ stage = "locations" => \A c \in 1..classesDone :
          program.classes[c].method = 0 /\ program.classes[c].outer = 0 => c \in visited
    /\ stage \in {"definitions", "overrides"} => visited = {}
    /\ stage \in {"backend", "generated"} => visiting = << >> /\ visited = Class
    /\ stage = "undefined" => ForwardOverride \/ InsideItsParent
VisitsInvariant == StackVisited /\ VisitedSettled /\ VisitsInStage

EntriesOf(c) == [k \in DOMAIN tables[c][1] |->
    IF program.defs[tables[c][1][k]].abstract THEN 0 ELSE tables[c][1][k]]
MethodsInvariant ==
    /\ DOMAIN methods = Class
    /\ \A c \in Class : (stage = "generated" \/ (stage = "backend" /\ c <= classesDone)) =>
          methods[c] = <<EntriesOf(c)>>

DispatchInvariant == /\ program \in Programs
                     /\ OverridesInvariant /\ TablesInvariant /\ StackInvariant
                     /\ VisitsInvariant /\ MethodsInvariant
=============================================================================
