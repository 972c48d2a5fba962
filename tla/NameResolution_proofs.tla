------------------------ MODULE NameResolution_proofs ------------------------
(***************************************************************************)
(* Theorems about the name analysis.                                       *)
(***************************************************************************)
EXTENDS NameResolution, Induction, SequenceTheorems

\* A sequence with one element more.
LEMMA OneMore ==
    ASSUME NEW S, NEW s \in Seq(S), NEW e \in S
    PROVE  /\ s \o <<e>> \in Seq(S)
           /\ Len(s \o <<e>>) = Len(s) + 1
           /\ (s \o <<e>>)[Len(s) + 1] = e
           /\ \A k \in 1..Len(s) : (s \o <<e>>)[k] = s[k]
OBVIOUS

----------------------------------------------------------------------------
(* The calls of visitParent *)

\* Classes are finitely many.
LEMMA FinitelyManyClasses ==
    ASSUME program \in Programs
    PROVE  IsFiniteSet(Classes) /\ Cardinality(Classes) \in Nat /\ Classes \subseteq Nat \ {0}
<1>1. Len(program) \in Nat
  BY ProgramsAssumption
<1>2. IsFiniteSet(Items)
  <2>1. 1 \in Int /\ Len(program) \in Int
    BY <1>1
  <2> QED
    BY <2>1, FS_Interval DEF Items
<1>3. Classes \subseteq Items
  BY DEF Classes, ItemsOf
<1>4. IsFiniteSet(Classes)
  BY <1>2, <1>3, FS_Subset
<1> QED
  BY <1>1, <1>2, <1>3, <1>4, FS_CardinalityType DEF Items

\* A call that ends.
LEMMA FinishKeepsCalls ==
    ASSUME CallsInvariant, visiting # << >>, NEW p \in visited \cup {0}, Finish(p), UNCHANGED program
    PROVE  CallsInvariant' /\ call.class \in Classes \ visited
<1> DEFINE n == Len(visiting)
           S == [class : Classes, parent : Classes \cup {0}]
<1>1. visiting \in Seq(S) /\ n \in Nat \ {0}
  BY EmptySeq DEF CallsInvariant
<1>2. visiting' = SubSeq(visiting, 1, n - 1) /\ call = visiting[n] /\ call \in S
  <2>1. visiting' = SubSeq(visiting, 1, n - 1) /\ call = visiting[n]
    BY DEF Finish, Front, call, Last
  <2> HIDE DEF S
  <2> QED
    BY <1>1, <2>1, ElementOfSeq
<1>3. visiting' \in Seq(S) /\ Len(visiting') = n - 1 /\ \A k \in 1..(n - 1) : visiting'[k] = visiting[k]
  <2> HIDE DEF S
  <2> QED
    BY <1>1, <1>2, FrontOfSeq
<1>4. Classes' = Classes
  BY DEF Classes, ItemsOf, Items
<1>5. call.class \in Classes \ visited
  BY <1>1, <1>2 DEF CallsInvariant
<1>6. visited' = visited \cup {call.class} /\ parent' = With(parent, call.class, p)
  BY DEF Finish
<1>7. DOMAIN parent' = visited' /\ \A c \in visited : parent'[c] = parent[c]
  BY <1>5, <1>6 DEF CallsInvariant, With
<1>8. parent'[call.class] = p
  BY <1>6 DEF With
<1>9. \A k \in 1..(n - 1) : visiting'[k].class \notin visited'
  BY <1>1, <1>2, <1>3, <1>6 DEF CallsInvariant
<1>10. \A j, k \in 1..(n - 1) : visiting'[j].class = visiting'[k].class => j = k
  BY <1>1, <1>3 DEF CallsInvariant
<1>11. visited' \subseteq Classes /\ \A c \in visited' : parent'[c] \in visited' \cup {0}
  BY <1>5, <1>6, <1>7, <1>8 DEF CallsInvariant
<1> QED
  BY <1>3, <1>4, <1>5, <1>7, <1>9, <1>10, <1>11 DEF CallsInvariant

\* A class whose visit begins.
LEMMA BeginKeepsCalls ==
    ASSUME CallsInvariant, NEW c \in Classes \ visited, NEW calls, c \notin {calls[k].class : k \in 1..Len(calls)},
           calls \in Seq([class : Classes, parent : Classes \cup {0}]),
           \A k \in 1..Len(calls) : calls[k].class \notin visited,
           \A j, k \in 1..Len(calls) : calls[j].class = calls[k].class => j = k,
           visiting' = calls \o <<[class |-> c, parent |-> 0]>>, UNCHANGED <<program, visited, parent>>
    PROVE  CallsInvariant'
<1> DEFINE n == Len(calls)
           S == [class : Classes, parent : Classes \cup {0}]
           new == [class |-> c, parent |-> 0]
<1>1. new \in S /\ n \in Nat
  OBVIOUS
<1>2. visiting' \in Seq(S) /\ Len(visiting') = n + 1 /\ visiting'[n + 1] = new
      /\ \A k \in 1..n : visiting'[k] = calls[k]
  <2>1. visiting' = calls \o <<new>> /\ calls \in Seq(S)
    OBVIOUS
  <2> HIDE DEF S, new
  <2> QED
    BY <1>1, <2>1, OneMore
<1>3. Classes' = Classes
  BY DEF Classes, ItemsOf, Items
<1>4. \A k \in 1..(n + 1) : k \in 1..n \/ k = n + 1
  BY <1>1
<1>5. \A k \in 1..(n + 1) : visiting'[k].class \notin visited
  BY <1>2, <1>4
<1>6. \A j, k \in 1..(n + 1) : visiting'[j].class = visiting'[k].class => j = k
  <2>1. \A k \in 1..n : visiting'[k].class # c
    BY <1>2
  <2>2. visiting'[n + 1].class = c
    BY <1>2
  <2> QED
    BY <1>2, <1>4, <2>1, <2>2
<1> QED
  BY <1>2, <1>3, <1>5, <1>6 DEF CallsInvariant

\* A call that is told its super class.
LEMMA WaitingKeepsCalls ==
    ASSUME CallsInvariant, visiting # << >>, NEW p \in Classes
    PROVE  /\ Waiting(p) \in Seq([class : Classes, parent : Classes \cup {0}])
           /\ Len(Waiting(p)) = Len(visiting)
           /\ \A k \in 1..Len(visiting) : Waiting(p)[k].class = visiting[k].class
<1> DEFINE n == Len(visiting)
           S == [class : Classes, parent : Classes \cup {0}]
           new == [visiting[n] EXCEPT !.parent = p]
<1>1. visiting \in Seq(S) /\ n \in Nat \ {0} /\ n \in 1..Len(visiting)
  BY EmptySeq DEF CallsInvariant
<1>2. visiting[n] \in S
  <2> HIDE DEF S
  <2> QED
    BY <1>1, ElementOfSeq
<1>3. new \in S /\ new.class = visiting[n].class
  BY <1>2
<1>4. Waiting(p) = [visiting EXCEPT ![n] = new]
  BY DEF Waiting
<1> HIDE DEF S, n, new
<1>5. Waiting(p) \in Seq(S) /\ Len(Waiting(p)) = Len(visiting)
      /\ \A k \in 1..Len(visiting) : Waiting(p)[k] = IF k = n THEN new ELSE visiting[k]
  BY <1>1, <1>3, <1>4, ExceptSeq
<1> QED
  BY <1>3, <1>5 DEF S

LEMMA ResolveKeepsCalls ==
    ASSUME CallsInvariant, ResolveParent
    PROVE  CallsInvariant'
<1>1. visiting # << >>
  BY DEF ResolveParent, ParentRead
<1>2. PICK super \in {Super(scopes, call.class, assigned, typeOf)} :
         /\ Resolved(super)
         /\ IF super.type.class \in ItemsOf("class") \ Marked THEN Enter(super.type.class) ELSE Finish(0)
  BY DEF ResolveParent
<1>3. UNCHANGED program
  BY <1>2 DEF Resolved
<1> DEFINE p == super.type.class
<1>4. CASE p \in ItemsOf("class") \ Marked
  <2>1. p \in Classes /\ p \notin Marked /\ Enter(p)
    BY <1>2, <1>4 DEF Classes
  <2>2. UNCHANGED <<visited, parent>>
    BY <2>1 DEF Enter
  <2> HIDE DEF p
  <2>3. /\ Waiting(p) \in Seq([class : Classes, parent : Classes \cup {0}])
        /\ Len(Waiting(p)) = Len(visiting)
        /\ \A k \in 1..Len(visiting) : Waiting(p)[k].class = visiting[k].class
    BY <1>1, <2>1, WaitingKeepsCalls
  <2>4. CASE p \in visited
    <3>1. visiting' = Waiting(p)
      <4>1. visiting' = Waiting(p) \o << >>
        BY <2>1, <2>4 DEF Enter
      <4> QED
        BY <2>3, <4>1
    <3>2. Classes' = Classes
      BY <1>3 DEF Classes, ItemsOf, Items
    <3> QED
      BY <2>2, <2>3, <3>1, <3>2 DEF CallsInvariant
  <2>5. CASE p \notin visited
    <3>1. visiting' = Waiting(p) \o <<[class |-> p, parent |-> 0]>>
      BY <2>1, <2>5 DEF Enter
    <3>2. p \notin {Waiting(p)[k].class : k \in 1..Len(Waiting(p))}
      BY <2>1, <2>3 DEF Marked
    <3>3. /\ \A k \in 1..Len(Waiting(p)) : Waiting(p)[k].class \notin visited
          /\ \A j, k \in 1..Len(Waiting(p)) : Waiting(p)[j].class = Waiting(p)[k].class => j = k
      BY <2>3 DEF CallsInvariant
    <3> QED
      BY <1>3, <2>1, <2>2, <2>3, <2>5, <3>1, <3>2, <3>3, BeginKeepsCalls
  <2> QED
    BY <2>4, <2>5
<1>5. CASE p \notin ItemsOf("class") \ Marked
  <2>1. Finish(0)
    BY <1>2, <1>5
  <2> QED
    BY <1>1, <1>3, <2>1, FinishKeepsCalls
<1> QED
  BY <1>4, <1>5

LEMMA VisitKeepsCalls ==
    ASSUME CallsInvariant, VisitParent
    PROVE  CallsInvariant'
<1>1. at \in Classes /\ at \notin visited
  BY DEF VisitParent, Assigning, Meets, item, Classes, ItemsOf
<1>2. visiting' = << >> \o <<[class |-> at, parent |-> 0]>>
  BY DEF VisitParent
<1>3. UNCHANGED <<program, visited, parent>>
  BY DEF VisitParent
<1> DEFINE none == << >>
<1>4. none \in Seq([class : Classes, parent : Classes \cup {0}]) /\ Len(none) = 0 /\ 1..Len(none) = {}
  OBVIOUS
<1>5. visiting' = none \o <<[class |-> at, parent |-> 0]>>
  BY <1>2
<1> HIDE DEF none
<1> QED
  BY <1>1, <1>3, <1>4, <1>5, BeginKeepsCalls

LEMMA InheritKeepsCalls ==
    ASSUME CallsInvariant, InheritFrom
    PROVE  CallsInvariant'
BY FinishKeepsCalls DEF InheritFrom

\* Everything else leaves the calls of visitParent alone.
Visiting == ResolveParent \/ VisitParent \/ InheritFrom
LEMMA OthersKeepCalls ==
    ASSUME [Next]_vars, ~ Visiting
    PROVE  UNCHANGED <<program, visiting, visited, parent>>
<1>1. CASE Generate
  BY <1>1 DEF Generate, GenerateModule, GenerateClass, GenerateAlias, GenerateDef, GenerateBlock, GenerateVar,
              GenerateUse, GenerateEnd, GenerationEnds, Advance, assignationVars
<1>2. CASE Assign
  BY <1>2 DEF Assign, Visiting, AssignModule, AssignBlock, AssignDef, AssignVar, AssignName, AssignClass, AssignEnd,
              AnalysisEnds, Continue, assignationVars
<1>3. CASE Terminated \/ UNCHANGED vars
  BY <1>3 DEF Terminated, vars, assignationVars
<1> QED
  BY <1>1, <1>2, <1>3 DEF Next

----------------------------------------------------------------------------
(* The super classes of a class *)

\* The classes that Above(c) has reached after k steps, with super classes p of
\* the classes in v.
Climb(p, v, S) == S \cup ({p[d] : d \in S \cap v} \ {0})
Climbs(n, p, v, c, g) ==
    g \in [0..n -> SUBSET v] /\ g[0] = {c} /\ \A k \in 1..n : g[k] = Climb(p, v, g[k - 1])

\* Every step from a class that was visited leads to classes that were.
LEMMA ClimbExists ==
    ASSUME NEW n \in Nat, NEW v, NEW p, \A c \in v : p[c] \in v \cup {0}, NEW c \in v
    PROVE  \E g : Climbs(n, p, v, c, g)
<1> DEFINE F == [kS \in (1..n) \X SUBSET v |-> Climb(p, v, kS[2])]
           X == SUBSET v
<1>1. ASSUME NEW S \in X PROVE Climb(p, v, S) \in X
  BY DEF Climb
<1>2. F \in Steps(n, X) /\ {c} \in X
  BY <1>1 DEF Steps
<1>3. ASSUME NEW k \in 1..n, NEW S \in X PROVE F[<<k, S>>] = Climb(p, v, S)
  OBVIOUS
<1> HIDE DEF F
<1>4. PICK g : Iterates(n, X, F, {c}, g)
  <2> HIDE DEF X
  <2> QED
    BY <1>2, Iteration
<1>5. ASSUME NEW k \in 1..n PROVE g[k] = Climb(p, v, g[k - 1])
  <2>1. k - 1 \in 0..n /\ g \in [0..n -> X] /\ g[k] = F[<<k, g[k - 1]>>]
    BY <1>4 DEF Iterates
  <2>2. g[k - 1] \in X
    BY <2>1
  <2> HIDE DEF X
  <2> QED
    BY <1>3, <2>1, <2>2
<1> QED
  BY <1>4, <1>5 DEF Climbs, Iterates

\* Where the recursion of Above gets to in n steps.
ClimbedTo(n, p, v, c) ==
    LET up[k \in 0..n] == IF k = 0 THEN {c} ELSE up[k - 1] \cup ({p[d] : d \in up[k - 1] \cap v} \ {0})
    IN  up[n]
LEMMA ClimbedToLast ==
    ASSUME NEW n \in Nat, NEW p, NEW v, NEW c, NEW g, Climbs(n, p, v, c, g)
    PROVE  ClimbedTo(n, p, v, c) = g[n]
<1> DEFINE up[k \in 0..n] == IF k = 0 THEN {c} ELSE Climb(p, v, up[k - 1])
<1>1. ClimbedTo(n, p, v, c) = up[n]
  BY DEF ClimbedTo, Climb
<1>2. g = [k \in 0..n |-> IF k = 0 THEN {c} ELSE Climb(p, v, g[k - 1])]
  BY DEF Climbs
<1>3. up = [k \in 0..n |-> IF k = 0 THEN {c} ELSE Climb(p, v, up[k - 1])]
  BY <1>2
<1> HIDE DEF up
<1> DEFINE T == {k \in Nat : k <= n => up[k] = g[k]}
<1>4. 0 \in T
  BY <1>2, <1>3
<1>5. ASSUME NEW k \in Nat, k \in T, k + 1 <= n PROVE up[k + 1] = g[k + 1]
  <2>1. k + 1 \in 0..n /\ k + 1 # 0 /\ k + 1 - 1 = k /\ k <= n
    BY <1>5
  <2>2. up[k + 1] = Climb(p, v, up[k + 1 - 1])
    BY <1>3, <2>1
  <2>3. g[k + 1] = Climb(p, v, g[k + 1 - 1])
    <3>1. k + 1 \in 1..n
      BY <2>1
    <3> QED
      BY <3>1 DEF Climbs
  <2>4. up[k] = g[k]
    BY <1>5, <2>1
  <2> QED
    BY <2>1, <2>2, <2>3, <2>4
<1>6. \A k \in Nat : k \in T
  <2>1. \A k \in Nat : k \in T => k + 1 \in T
    BY <1>5
  <2> HIDE DEF T
  <2> QED
    BY <1>4, <2>1, NumberInduction
<1>7. up[n] = g[n]
  BY <1>6
<1> QED
  BY <1>1, <1>7

\* A class that is visited now is above none of those visited before.
LEMMA AboveStays ==
    ASSUME program \in Programs, CallsInvariant, UNCHANGED program,
           NEW new \in Classes \ visited, NEW p, visited' = visited \cup {new}, parent' = With(parent, new, p),
           NEW c \in visited
    PROVE  LET above == ClimbedTo(Cardinality(Classes), parent, visited, c)
           IN  ClimbedTo(Cardinality(Classes'), parent', visited', c) = above /\ above \subseteq visited
<1> DEFINE n == Cardinality(Classes)
<1>1. n \in Nat
  BY FinitelyManyClasses
<1>2. Classes' = Classes
  BY DEF Classes, ItemsOf, Items
<1>3. \A d \in visited : parent[d] \in visited \cup {0}
  BY DEF CallsInvariant
<1>4. PICK g : Climbs(n, parent, visited, c, g)
  BY <1>1, <1>3, ClimbExists
<1>5. ClimbedTo(n, parent, visited, c) = g[n]
  BY <1>1, <1>4, ClimbedToLast
<1>6. \A d \in visited : parent'[d] = parent[d]
  BY DEF With, CallsInvariant
<1> HIDE DEF n
<1>7. ASSUME NEW S \in SUBSET visited PROVE Climb(parent', visited', S) = Climb(parent, visited, S)
  BY <1>6 DEF Climb
<1>8. Climbs(n, parent', visited', c, g)
  <2>1. g \in [0..n -> SUBSET visited]
    BY <1>4 DEF Climbs
  <2>2. \A k \in 1..n : g[k - 1] \in SUBSET visited
    BY <1>1, <2>1
  <2>3. g \in [0..n -> SUBSET visited']
    BY <2>1
  <2>4. \A k \in 1..n : g[k] = Climb(parent', visited', g[k - 1])
    BY <1>4, <1>7, <2>2 DEF Climbs
  <2> QED
    BY <1>4, <2>3, <2>4 DEF Climbs
<1>9. ClimbedTo(n, parent', visited', c) = g[n]
  BY <1>1, <1>8, ClimbedToLast
<1>11. g[n] \subseteq visited
  BY <1>1, <1>4 DEF Climbs
<1> QED
  BY <1>2, <1>5, <1>9, <1>11 DEF n

\* A super class that was visited before makes no cycle.
LEMMA FinishKeepsAcyclic ==
    ASSUME program \in Programs, CallsInvariant, SupersAcyclic, visiting # << >>, UNCHANGED program,
           NEW p \in visited \cup {0}, Finish(p)
    PROVE  SupersAcyclic'
<1> DEFINE new == call.class
<1>1. new \in Classes \ visited
  BY FinishKeepsCalls
<1>2. visited' = visited \cup {new} /\ parent' = With(parent, new, p)
  BY DEF Finish
<1>3. parent'[new] = p /\ \A c \in visited : parent'[c] = parent[c]
  BY <1>1, <1>2 DEF With, CallsInvariant
<1> HIDE DEF new
<1> DEFINE Over(c) == ClimbedTo(Cardinality(Classes), parent, visited, c)
           OverNow(c) == ClimbedTo(Cardinality(Classes'), parent', visited', c)
<1>4. ASSUME NEW c \in visited PROVE OverNow(c) = Over(c) /\ Over(c) \subseteq visited
  BY <1>1, <1>2, AboveStays
<1>5. \A c \in visited : parent[c] # 0 => c \notin Over(parent[c])
  BY DEF SupersAcyclic, Above, ClimbedTo
<1>6. SupersAcyclic' <=> \A c \in visited' : parent'[c] # 0 => c \notin OverNow(parent'[c])
  BY DEF SupersAcyclic, Above, ClimbedTo
<1> HIDE DEF Over, OverNow
<1>7. ASSUME NEW c \in visited', parent'[c] # 0 PROVE c \notin OverNow(parent'[c])
  <2>1. CASE c \in visited
    <3>1. parent[c] \in visited /\ c \notin Over(parent[c])
      BY <1>3, <1>5, <1>7, <2>1 DEF CallsInvariant
    <3> QED
      BY <1>3, <1>4, <2>1, <3>1
  <2>2. CASE c = new
    <3>1. p \in visited
      BY <1>3, <1>7, <2>2
    <3> QED
      BY <1>1, <1>3, <1>4, <2>2, <3>1
  <2> QED
    BY <1>2, <2>1, <2>2
<1> QED
  BY <1>6, <1>7

LEMMA AcyclicStays ==
    ASSUME SupersAcyclic, UNCHANGED <<program, visited, parent>>
    PROVE  SupersAcyclic'
<1>1. Classes' = Classes
  BY DEF Classes, ItemsOf, Items
<1>2. \A c \in visited : parent[c] # 0 => c \notin ClimbedTo(Cardinality(Classes), parent, visited, parent[c])
  BY DEF SupersAcyclic, Above, ClimbedTo
<1>3. SupersAcyclic' <=> \A c \in visited' : parent'[c] # 0 =>
                            c \notin ClimbedTo(Cardinality(Classes'), parent', visited', parent'[c])
  BY DEF SupersAcyclic, Above, ClimbedTo
<1> QED
  BY <1>1, <1>2, <1>3

LEMMA SupersKept ==
    ASSUME SupersInvariant, [Next]_vars
    PROVE  SupersInvariant'
<1> USE DEF SupersInvariant
<1>1. CASE ResolveParent
  <2>1. visiting # << >>
    BY <1>1 DEF ResolveParent, ParentRead
  <2>2. UNCHANGED program /\ (UNCHANGED <<visited, parent>> \/ Finish(0))
    BY <1>1 DEF ResolveParent, Resolved, Enter
  <2>3. CASE UNCHANGED <<visited, parent>>
    BY <1>1, <2>2, <2>3, ResolveKeepsCalls, AcyclicStays
  <2>4. CASE Finish(0)
    BY <1>1, <2>1, <2>2, <2>4, ResolveKeepsCalls, FinishKeepsAcyclic
  <2> QED
    BY <2>2, <2>3, <2>4
<1>2. CASE VisitParent
  BY <1>2, VisitKeepsCalls, AcyclicStays DEF VisitParent
<1>3. CASE InheritFrom
  BY <1>3, InheritKeepsCalls, FinishKeepsAcyclic DEF InheritFrom
<1>4. CASE ~ Visiting
  <2>1. UNCHANGED <<program, visiting, visited, parent>>
    BY <1>4, OthersKeepCalls
  <2> QED
    BY <2>1, AcyclicStays DEF CallsInvariant, Classes, ItemsOf, Items
<1> QED
  BY <1>1, <1>2, <1>3, <1>4 DEF Visiting

\* Following super classes never comes back to a class, whatever the program
\* wrote and whatever its aliases stand for: visitParent refuses a class that
\* is marked, and records a super class only when its own visit is over.
THEOREM SupersNeverCycle == Spec => []SupersAcyclic
<1>1. Init => SupersInvariant
  BY DEF Init, SupersInvariant, CallsInvariant, SupersAcyclic
<1>2. SupersInvariant /\ [Next]_vars => SupersInvariant'
  BY SupersKept
<1>3. SupersInvariant => SupersAcyclic
  BY DEF SupersInvariant
<1> QED
  BY <1>1, <1>2, <1>3, PTL DEF Spec

----------------------------------------------------------------------------
(* Adding entries to tables *)

Entry(S) == [name : Name, symbol : S]
SymbolsIn(sc, s) == UNION {ToSet(sc[s].symbols[n]) : n \in Name}
IsTable(sc, S) ==
    /\ sc = [s \in DOMAIN sc |-> sc[s]]
    /\ \A s \in DOMAIN sc : sc[s] \in Scopes(sc[s], S) /\ Overloaded(sc[s])

\* The first of a sequence with one element more in front.
LEMMA InFront ==
    ASSUME NEW S, NEW q \in Seq(S), NEW e \in S
    PROVE  /\ <<e>> \o q \in Seq(S) /\ Len(<<e>> \o q) = Len(q) + 1
           /\ ToSet(<<e>> \o q) = {e} \cup ToSet(q)
<1> DEFINE r == <<e>> \o q
<1>1. r \in Seq(S) /\ Len(r) = Len(q) + 1 /\ r[1] = e /\ \A k \in 1..Len(q) : r[k + 1] = q[k]
  OBVIOUS
<1>2. Len(q) \in Nat /\ DOMAIN q = 1..Len(q) /\ DOMAIN r = 1..(Len(q) + 1)
  BY <1>1
<1> HIDE DEF r
<1>3. ASSUME NEW x \in ToSet(r) PROVE x = e \/ x \in ToSet(q)
  <2>1. PICK k \in 1..(Len(q) + 1) : r[k] = x
    BY <1>2 DEF ToSet
  <2>2. k = 1 \/ (k - 1 \in 1..Len(q) /\ k - 1 + 1 = k)
    BY <1>2
  <2> QED
    BY <1>1, <1>2, <2>1, <2>2 DEF ToSet
<1>4. ASSUME NEW x, x = e \/ x \in ToSet(q) PROVE x \in ToSet(r)
  <2>1. CASE x = e
    <3>1. 1 \in DOMAIN r
      BY <1>2
    <3> QED
      BY <1>1, <2>1, <3>1 DEF ToSet
  <2>2. CASE x \in ToSet(q)
    <3>1. PICK k \in 1..Len(q) : q[k] = x
      BY <1>2, <2>2 DEF ToSet
    <3>2. k + 1 \in DOMAIN r
      BY <1>2
    <3> QED
      BY <1>1, <3>1, <3>2 DEF ToSet
  <2> QED
    BY <1>4, <2>1, <2>2
<1> QED
  BY <1>1, <1>3, <1>4 DEF r

\* An entry that is taken.
LEMMA EntryTaken ==
    ASSUME NEW S, NEW sc, IsTable(sc, S), NEW s \in DOMAIN sc, NEW n \in Name, NEW e \in S,
           TakesEntry(sc, s, n, e)
    PROVE  LET new == AddEntry(sc, s, n, e)
           IN  /\ IsTable(new, S) /\ DOMAIN new = DOMAIN sc
               /\ \A t \in DOMAIN sc : t # s => new[t] = sc[t]
               /\ SymbolsIn(new, s) = SymbolsIn(sc, s) \cup {e}
               /\ new[s] \in Scopes(sc[s], S)
               /\ WellNamed(sc) /\ program[e.decl].name = n => WellNamed(new)
<1> DEFINE q == sc[s].symbols[n]
           both == [sc[s].symbols EXCEPT ![n] = <<e>> \o q]
           scope == [sc[s] EXCEPT !.symbols = both]
           new == [sc EXCEPT ![s] = scope]
<1>1. AddEntry(sc, s, n, e) = new
  BY DEF AddEntry
<1>2. sc[s] \in Scopes(sc[s], S) /\ Overloaded(sc[s])
  BY DEF IsTable
<1>3. sc[s].symbols \in [Name -> Seq(S)] /\ q \in Seq(S)
  BY <1>2 DEF Scopes
<1>4. <<e>> \o q \in Seq(S) /\ Len(<<e>> \o q) = Len(q) + 1 /\ ToSet(<<e>> \o q) = {e} \cup ToSet(q)
  BY <1>3, InFront
<1>5. both \in [Name -> Seq(S)] /\ both[n] = <<e>> \o q /\ \A m \in Name : m # n => both[m] = sc[s].symbols[m]
  BY <1>3, <1>4
<1>6. scope.symbols = both /\ scope \in Scopes(scope, S) /\ scope \in Scopes(sc[s], S)
  <2> HIDE DEF both
  <2> QED
    BY <1>2, <1>5 DEF Scopes
<1>7. Overloaded(scope)
  <2>1. ASSUME NEW m \in Name, Len(both[m]) > 1, NEW x \in ToSet(both[m]) PROVE x.type = "DEF"
    <3>1. CASE m # n
      BY <1>2, <1>5, <2>1, <3>1 DEF Overloaded
    <3>2. CASE m = n
      <4>1. Len(q) # 0 /\ q # << >> /\ Len(q) \in Nat
        BY <1>3, <1>4, <1>5, <2>1, <3>2
      <4>2. Head(q).type = "DEF" /\ e.type = "DEF"
        BY <4>1 DEF TakesEntry, Overloadable
      <4>3. \A y \in ToSet(q) : y.type = "DEF"
        <5>1. CASE Len(q) > 1
          BY <1>2, <5>1 DEF Overloaded
        <5>2. CASE Len(q) = 1
          <6>1. Head(q) = q[1] /\ DOMAIN q = {1}
            BY <1>3, <5>2
          <6>2. \A y \in ToSet(q) : y = Head(q)
            BY <6>1 DEF ToSet
          <6> QED
            BY <4>2, <6>2
        <5> HIDE DEF q
        <5>3. Len(q) > 1 \/ Len(q) = 1
          BY <4>1
        <5> QED
          BY <5>1, <5>2, <5>3
      <4> QED
        BY <1>4, <1>5, <2>1, <3>2, <4>2, <4>3
    <3> QED
      BY <3>1, <3>2
  <2> QED
    BY <1>6, <2>1 DEF Overloaded
<1> HIDE DEF both
<1>8. SymbolsIn(new, s) = SymbolsIn(sc, s) \cup {e}
  <2>1. new[s].symbols = both
    BY <1>6
  <2>2. ASSUME NEW x \in SymbolsIn(new, s) PROVE x \in SymbolsIn(sc, s) \cup {e}
    <3>1. PICK m \in Name : x \in ToSet(both[m])
      BY <2>1 DEF SymbolsIn
    <3> QED
      BY <1>4, <1>5, <3>1 DEF SymbolsIn
  <2>3. ASSUME NEW x \in SymbolsIn(sc, s) \cup {e} PROVE x \in SymbolsIn(new, s)
    <3>1. CASE x = e
      BY <1>4, <1>5, <2>1, <3>1 DEF SymbolsIn
    <3>2. CASE x \in SymbolsIn(sc, s)
      <4>1. PICK m \in Name : x \in ToSet(sc[s].symbols[m])
        BY <3>2 DEF SymbolsIn
      <4> QED
        BY <1>4, <1>5, <2>1, <4>1 DEF SymbolsIn
    <3> QED
      BY <2>3, <3>1, <3>2
  <2> QED
    BY <2>2, <2>3
<1> HIDE DEF scope
<1>9. DOMAIN new = DOMAIN sc /\ new[s] = scope /\ \A t \in DOMAIN sc : t # s => new[t] = sc[t]
  OBVIOUS
<1>10. IsTable(new, S)
  <2>1. new = [t \in DOMAIN new |-> new[t]]
    OBVIOUS
  <2> HIDE DEF new
  <2> QED
    BY <1>6, <1>7, <1>9, <2>1 DEF IsTable
<1>11. ASSUME WellNamed(sc), program[e.decl].name = n
       PROVE  WellNamed(new)
  <2> SUFFICES ASSUME NEW t \in DOMAIN sc, NEW m \in Name, NEW x \in ToSet(new[t].symbols[m])
               PROVE  program[x.decl].name = m
    BY <1>9 DEF WellNamed
  <2>1. x \in ToSet(sc[t].symbols[m]) \/ (x = e /\ m = n)
    BY <1>4, <1>5, <1>6, <1>9
  <2> QED
    BY <1>11, <2>1 DEF WellNamed
<1> QED
  BY <1>1, <1>6, <1>8, <1>9, <1>10, <1>11

\* An entry that is added if it can be.
LEMMA EntryAdded ==
    ASSUME NEW S, NEW sc, IsTable(sc, S), NEW s, NEW n \in Name, NEW e \in S
    PROVE  LET new == AddEntry(sc, s, n, e)
           IN  /\ IsTable(new, S) /\ DOMAIN new = DOMAIN sc
               /\ \A t \in DOMAIN sc : t # s => new[t] = sc[t]
               /\ \A t \in DOMAIN sc : SymbolsIn(new, t) \in {SymbolsIn(sc, t), SymbolsIn(sc, t) \cup {e}}
<1>1. CASE ~ TakesEntry(sc, s, n, e)
  BY <1>1 DEF AddEntry
<1>2. CASE TakesEntry(sc, s, n, e) /\ s \in DOMAIN sc
  <2> DEFINE new == AddEntry(sc, s, n, e)
  <2>1. /\ IsTable(new, S) /\ DOMAIN new = DOMAIN sc
        /\ \A t \in DOMAIN sc : t # s => new[t] = sc[t]
        /\ SymbolsIn(new, s) = SymbolsIn(sc, s) \cup {e}
    <3>1. TakesEntry(sc, s, n, e) /\ s \in DOMAIN sc
      BY <1>2
    <3> QED
      BY <3>1, EntryTaken
  <2> HIDE DEF new
  <2>2. \A t \in DOMAIN sc : t # s => SymbolsIn(new, t) = SymbolsIn(sc, t)
    BY <2>1 DEF SymbolsIn
  <2> QED
    BY <2>1, <2>2 DEF new
<1>3. CASE TakesEntry(sc, s, n, e) /\ s \notin DOMAIN sc
  <2>1. AddEntry(sc, s, n, e) = [t \in DOMAIN sc |-> sc[t]]
    BY <1>3 DEF AddEntry
  <2>2. AddEntry(sc, s, n, e) = sc
    BY <2>1 DEF IsTable
  <2> QED
    BY <2>2
<1> QED
  BY <1>1, <1>2, <1>3

\* It stays under the name of its declaration.
LEMMA AddedKeepsNames ==
    ASSUME NEW S, NEW sc, IsTable(sc, S), NEW s, NEW n \in Name, NEW e \in S,
           WellNamed(sc), program[e.decl].name = n
    PROVE  WellNamed(AddEntry(sc, s, n, e))
<1>1. CASE ~ TakesEntry(sc, s, n, e)
  BY <1>1 DEF AddEntry
<1>2. CASE TakesEntry(sc, s, n, e) /\ s \in DOMAIN sc
  <2> DEFINE new == AddEntry(sc, s, n, e)
  <2>1. TakesEntry(sc, s, n, e) /\ s \in DOMAIN sc
    BY <1>2
  <2>2. WellNamed(sc) /\ program[e.decl].name = n => WellNamed(new)
    BY <2>1, EntryTaken
  <2> QED
    BY <2>2
<1>3. CASE TakesEntry(sc, s, n, e) /\ s \notin DOMAIN sc
  <2>1. AddEntry(sc, s, n, e) = [t \in DOMAIN sc |-> sc[t]]
    BY <1>3 DEF AddEntry
  <2>2. AddEntry(sc, s, n, e) = sc
    BY <2>1 DEF IsTable
  <2> QED
    BY <2>2
<1> QED
  BY <1>1, <1>2, <1>3

\* What becomes of a table when an entry is copied into scope s of it.
EntryIsCopied(S, sc, s, entry, copy) ==
    /\ IsTable(copy.scopes, S) /\ DOMAIN copy.scopes = DOMAIN sc
    /\ \A t \in DOMAIN sc : t # s => copy.scopes[t] = sc[t]
    /\ SymbolsIn(copy.scopes, s) \in {SymbolsIn(sc, s), SymbolsIn(sc, s) \cup {entry.symbol}}
    /\ copy.conflict = 0 /\ ~ entry.symbol.constructor => entry.symbol \in SymbolsIn(copy.scopes, s)
    /\ copy.scopes[s] \in Scopes(sc[s], S)
    /\ copy \in [scopes : {copy.scopes}, conflict : {x.decl : x \in S} \cup {0}]
    /\ WellNamed(sc) /\ program[entry.symbol.decl].name = entry.name => WellNamed(copy.scopes)

\* An entry that is copied without a conflict is there, unless it is a
\* constructor: one of the same declaration is the same.
LEMMA EntryCopied ==
    ASSUME NEW S, \A x, y \in S : x.decl = y.decl => x = y, \A x \in S : x.decl # 0,
           NEW sc, IsTable(sc, S), NEW s \in DOMAIN sc,
           NEW entry \in Entry(S)
    PROVE  EntryIsCopied(S, sc, s, entry, CopyEntry(sc, s, entry))
<1> DEFINE n == entry.name
           e == entry.symbol
           old == Head(sc[s].symbols[n])
           copy == CopyEntry(sc, s, entry)
<1>1. n \in Name /\ e \in S /\ sc[s] \in Scopes(sc[s], S)
  BY DEF IsTable, Entry
<1>2. CASE e.constructor
  <2>1. copy = [scopes |-> sc, conflict |-> 0]
    BY <1>2 DEF CopyEntry
  <2>2. copy.scopes = sc /\ copy.conflict = 0
    BY <2>1
  <2> HIDE DEF copy, EntryIsCopied
  <2> QED
    BY <1>1, <1>2, <2>1, <2>2 DEF copy, EntryIsCopied
<1>3. CASE ~ e.constructor
  <2>1. copy = [scopes |-> AddEntry(sc, s, n, e),
                conflict |-> IF TakesEntry(sc, s, n, e) \/ old.decl = e.decl THEN 0 ELSE old.decl]
    BY <1>3 DEF CopyEntry
  <2>2. CASE TakesEntry(sc, s, n, e)
    <3>1. copy.scopes = AddEntry(sc, s, n, e) /\ copy.conflict = 0
      BY <2>1, <2>2
    <3>2. /\ IsTable(AddEntry(sc, s, n, e), S) /\ DOMAIN AddEntry(sc, s, n, e) = DOMAIN sc
          /\ \A t \in DOMAIN sc : t # s => AddEntry(sc, s, n, e)[t] = sc[t]
          /\ SymbolsIn(AddEntry(sc, s, n, e), s) = SymbolsIn(sc, s) \cup {e}
          /\ AddEntry(sc, s, n, e)[s] \in Scopes(sc[s], S)
          /\ WellNamed(sc) /\ program[e.decl].name = n => WellNamed(AddEntry(sc, s, n, e))
      BY <1>1, <2>2, EntryTaken
    <3>3. copy = [scopes |-> AddEntry(sc, s, n, e), conflict |-> 0]
      BY <2>1, <2>2
    <3> HIDE DEF copy, EntryIsCopied
    <3> QED
      BY <3>1, <3>2, <3>3 DEF copy, EntryIsCopied
  <2>3. CASE ~ TakesEntry(sc, s, n, e)
    <3>1. AddEntry(sc, s, n, e) = sc
      BY <2>3 DEF AddEntry
    <3>2. old \in SymbolsIn(sc, s) /\ old \in S
      <4>1. sc[s].symbols[n] # << >>
        BY <2>3 DEF TakesEntry
      <4>2. sc[s].symbols[n] \in Seq(S)
        BY <1>1 DEF IsTable, Scopes
      <4> DEFINE q == sc[s].symbols[n]
      <4> HIDE DEF q
      <4>3. Head(q) = q[1] /\ 1 \in DOMAIN q /\ q[1] \in S
        BY <4>1, <4>2 DEF q
      <4>4. Head(q) \in ToSet(q)
        BY <4>3 DEF ToSet
      <4> QED
        BY <1>1, <4>3, <4>4 DEF q, SymbolsIn
    <3>3. copy = [scopes |-> sc, conflict |-> IF old.decl = e.decl THEN 0 ELSE old.decl]
      BY <2>1, <2>3, <3>1
    <3>4. old.decl = e.decl => e \in SymbolsIn(sc, s)
      BY <1>1, <3>2
    <3>5. copy.scopes = sc /\ copy.conflict \in {x.decl : x \in S} \cup {0}
          /\ (copy.conflict = 0 => e \in SymbolsIn(sc, s))
      BY <3>2, <3>3, <3>4
    <3>6. copy \in [scopes : {sc}, conflict : {x.decl : x \in S} \cup {0}]
      BY <3>2, <3>3
    <3> HIDE DEF copy, EntryIsCopied
    <3> QED
      BY <1>1, <3>5, <3>6 DEF copy, EntryIsCopied
  <2> QED
    BY <2>2, <2>3
<1> QED
  BY <1>2, <1>3

\* What getAllSymbols returns: every symbol of the scope, with a name.
LEMMA EntriesOfScope ==
    ASSUME NEW S, NEW sc, IsTable(sc, S), NEW s \in DOMAIN sc
    PROVE  /\ Entries(sc, s) \in Seq(Entry(S))
           /\ \A e \in SymbolsIn(sc, s) : \E k \in 1..Len(Entries(sc, s)) : Entries(sc, s)[k].symbol = e
           /\ \A k \in 1..Len(Entries(sc, s)) : Entries(sc, s)[k].symbol \in ToSet(sc[s].symbols[Entries(sc, s)[k].name])
<1> DEFINE E == {x \in Entry(S) : x.symbol \in ToSet(sc[s].symbols[x.name])}
           list == [k \in 1..Len(Names) |->
                       [j \in 1..Len(sc[s].symbols[Names[k]]) |->
                           [name |-> Names[k], symbol |-> sc[s].symbols[Names[k]][j]]]]
<1>1. Entries(sc, s) = FlattenSeq(list)
  BY DEF Entries
<1>2. Len(Names) \in Nat /\ DOMAIN Names = 1..Len(Names) /\ \A k \in 1..Len(Names) : Names[k] \in Name
  BY NamesAssumption DEF Name
<1>3. Len(list) = Len(Names) /\ list = [k \in 1..Len(Names) |-> list[k]]
  BY <1>2
<1>4. sc[s].symbols \in [Name -> Seq(S)]
  BY DEF IsTable, Scopes
<1>5. ASSUME NEW k \in 1..Len(Names)
      PROVE  /\ list[k] \in Seq(E) /\ Len(list[k]) = Len(sc[s].symbols[Names[k]])
             /\ \A j \in 1..Len(list[k]) : list[k][j].symbol = sc[s].symbols[Names[k]][j]
  <2> DEFINE q == sc[s].symbols[Names[k]]
             r == [j \in 1..Len(q) |-> [name |-> Names[k], symbol |-> q[j]]]
  <2>1. q \in Seq(S) /\ Names[k] \in Name
    BY <1>2, <1>4
  <2>2. list[k] = r
    OBVIOUS
  <2> HIDE DEF q, list
  <2>3. Len(q) \in Nat /\ \A j \in 1..Len(q) : q[j] \in S
    BY <2>1
  <2>4. \A j \in 1..Len(q) : r[j] \in E
    <3> SUFFICES ASSUME NEW j \in 1..Len(q)
                 PROVE  r[j] \in Entry(S) /\ r[j].symbol \in ToSet(sc[s].symbols[r[j].name])
      OBVIOUS
    <3>1. r[j] = [name |-> Names[k], symbol |-> q[j]] /\ q[j] \in ToSet(q)
      BY <2>1, <2>3 DEF ToSet
    <3> QED
      BY <2>1, <2>3, <3>1 DEF Entry, q
  <2>5. r \in Seq(E) /\ Len(r) = Len(q)
    <3> HIDE DEF E
    <3> QED
      BY <2>3, <2>4
  <2> QED
    BY <2>2, <2>5 DEF q
<1>6. Len(list) = 0 => list = << >>
  BY <1>3
<1> HIDE DEF list, E
<1>7. /\ FlattenSeq(list) \in Seq(E)
      /\ \A i \in 1..Len(list) : \A k \in 1..Len(list[i]) :
            \E m \in 1..Len(FlattenSeq(list)) : FlattenSeq(list)[m] = list[i][k]
  <2>1. Len(list) \in Nat /\ \A i \in 1..Len(list) : list[i] \in Seq(E)
    BY <1>2, <1>3, <1>5
  <2> QED
    BY <1>6, <2>1, FlattenedHasAll
<1>8. ASSUME NEW e \in SymbolsIn(sc, s) PROVE \E k \in 1..Len(FlattenSeq(list)) : FlattenSeq(list)[k].symbol = e
  <2>1. PICK n \in Name : e \in ToSet(sc[s].symbols[n])
    BY DEF SymbolsIn
  <2>2. PICK i \in 1..Len(Names) : Names[i] = n
    BY <1>2 DEF Name, ToSet
  <2>3. sc[s].symbols[n] \in Seq(S)
    BY <1>4
  <2>4. PICK j \in 1..Len(sc[s].symbols[n]) : sc[s].symbols[n][j] = e
    BY <2>1, <2>3 DEF ToSet
  <2>5. j \in 1..Len(list[i]) /\ list[i][j].symbol = e
    BY <1>5, <2>2, <2>4
  <2> QED
    BY <1>3, <1>7, <2>5
<1>9. ASSUME NEW k \in 1..Len(FlattenSeq(list)) PROVE FlattenSeq(list)[k] \in E
  BY <1>7, ElementOfSeq
<1>10. FlattenSeq(list) \in Seq(Entry(S))
  <2>1. E \subseteq Entry(S)
    BY DEF E
  <2> QED
    BY <1>7, <2>1
<1> QED
  BY <1>1, <1>8, <1>9, <1>10 DEF E

\* The entries have the names of their declarations.
NamedEntries(entries) == \A j \in 1..Len(entries) : program[entries[j].symbol.decl].name = entries[j].name

\* What has become of a table when k entries were copied into scope s of it.
Copied(sc, S, s, entries, k, done) ==
    /\ IsTable(done.scopes, S) /\ DOMAIN done.scopes = DOMAIN sc
    /\ \A t \in DOMAIN sc : t # s => done.scopes[t] = sc[t]
    /\ done.scopes[s] \in Scopes(sc[s], S)
    /\ SymbolsIn(sc, s) \subseteq SymbolsIn(done.scopes, s)
    /\ done.conflict = 0 =>
         \A j \in 1..k : ~ entries[j].symbol.constructor => entries[j].symbol \in SymbolsIn(done.scopes, s)
    /\ WellNamed(sc) /\ NamedEntries(entries) => WellNamed(done.scopes)

\* One entry more.
LEMMA OneMoreCopied ==
    ASSUME NEW S, \A x, y \in S : x.decl = y.decl => x = y, \A x \in S : x.decl # 0,
           NEW sc, IsTable(sc, S), NEW s \in DOMAIN sc,
           NEW entries \in Seq(Entry(S)), NEW k \in 1..Len(entries),
           NEW done, Copied(sc, S, s, entries, k - 1, done)
    PROVE  Copied(sc, S, s, entries, k,
                  IF done.conflict # 0 THEN done ELSE CopyEntry(done.scopes, s, entries[k]))
<1>1. CASE done.conflict # 0
  BY <1>1 DEF Copied
<1>2. CASE done.conflict = 0
  <2> DEFINE entry == entries[k]
             mid == done.scopes
             copy == CopyEntry(mid, s, entry)
  <2>1. entry \in Entry(S) /\ IsTable(mid, S) /\ DOMAIN mid = DOMAIN sc
    <3>1. entries[k] \in Entry(S)
      BY ElementOfSeq
    <3> QED
      BY <3>1 DEF Copied
  <2>2. /\ IsTable(copy.scopes, S) /\ DOMAIN copy.scopes = DOMAIN mid
        /\ \A t \in DOMAIN mid : t # s => copy.scopes[t] = mid[t]
        /\ SymbolsIn(copy.scopes, s) \in {SymbolsIn(mid, s), SymbolsIn(mid, s) \cup {entry.symbol}}
        /\ copy.conflict = 0 /\ ~ entry.symbol.constructor => entry.symbol \in SymbolsIn(copy.scopes, s)
        /\ copy.scopes[s] \in Scopes(mid[s], S)
        /\ WellNamed(mid) /\ program[entry.symbol.decl].name = entry.name => WellNamed(copy.scopes)
    <3> HIDE DEF entry, mid
    <3>1. EntryIsCopied(S, mid, s, entry, CopyEntry(mid, s, entry))
      BY <2>1, EntryCopied
    <3> QED
      BY <3>1 DEF EntryIsCopied
  <2>3. mid[s] \in Scopes(sc[s], S)
    BY DEF Copied
  <2>4. copy.scopes[s] \in Scopes(sc[s], S)
    <3> HIDE DEF copy, mid
    <3> QED
      BY <2>2, <2>3 DEF Scopes
  <2>5. SymbolsIn(mid, s) \subseteq SymbolsIn(copy.scopes, s)
    BY <2>2
  <2>6. \A j \in 1..(k - 1) : ~ entries[j].symbol.constructor => entries[j].symbol \in SymbolsIn(mid, s)
    BY <1>2 DEF Copied
  <2>7. \A j \in 1..k : j \in 1..(k - 1) \/ j = k
    OBVIOUS
  <2>8. SymbolsIn(sc, s) \subseteq SymbolsIn(mid, s) /\ \A t \in DOMAIN sc : t # s => mid[t] = sc[t]
    BY DEF Copied
  <2>8a. WellNamed(sc) /\ NamedEntries(entries) => WellNamed(copy.scopes)
    <3>1. WellNamed(sc) /\ NamedEntries(entries) => WellNamed(mid) /\ program[entry.symbol.decl].name = entry.name
      BY DEF Copied, NamedEntries
    <3> HIDE DEF copy, mid, entry
    <3> QED
      BY <2>2, <3>1
  <2> HIDE DEF copy, mid
  <2>9. \A j \in 1..k : copy.conflict = 0 /\ ~ entries[j].symbol.constructor =>
                           entries[j].symbol \in SymbolsIn(copy.scopes, s)
    BY <2>2, <2>5, <2>6, <2>7
  <2>10. Copied(sc, S, s, entries, k, copy)
    BY <2>1, <2>2, <2>4, <2>5, <2>8, <2>8a, <2>9 DEF Copied
  <2> QED
    BY <1>2, <2>10 DEF copy, mid
<1> QED
  BY <1>1, <1>2

\* Entries are copied one after the other; the tables on the way are tables of
\* the same scopes.
LEMMA CopyingEntries ==
    ASSUME NEW S, \A x, y \in S : x.decl = y.decl => x = y, \A x \in S : x.decl # 0,
           NEW sc, IsTable(sc, S), NEW s \in DOMAIN sc,
           NEW entries \in Seq(Entry(S))
    PROVE  \E g : /\ g = [k \in 0..Len(entries) |->
                            IF k = 0 THEN [scopes |-> sc, conflict |-> 0]
                            ELSE IF g[k - 1].conflict # 0 THEN g[k - 1]
                            ELSE CopyEntry(g[k - 1].scopes, s, entries[k])]
                  /\ Copied(sc, S, s, entries, Len(entries), g[Len(entries)])
<1> DEFINE n == Len(entries)
           R == {sc[t] : t \in DOMAIN sc} \cup Scopes(sc[s], S)
           T == {t \in [DOMAIN sc -> R] : IsTable(t, S) /\ t[s] \in Scopes(sc[s], S)}
           C == {x.decl : x \in S} \cup {0}
           X == [scopes : T, conflict : C]
           After(k, x) == IF x.conflict # 0 THEN x ELSE CopyEntry(x.scopes, s, entries[k])
           F == [kx \in (1..n) \X X |-> After(kx[1], kx[2])]
           none == [scopes |-> sc, conflict |-> 0]
<1>1. n \in Nat
  OBVIOUS
<1>2. ASSUME NEW k \in 1..n PROVE entries[k] \in Entry(S)
  BY ElementOfSeq
<1>3. none \in X
  <2>1. sc \in T
    BY DEF IsTable
  <2> HIDE DEF T
  <2> QED
    BY <2>1
<1>4. ASSUME NEW k \in 1..n, NEW x \in X PROVE After(k, x) \in X
  <2>1. CASE x.conflict # 0
    BY <2>1
  <2>2. CASE x.conflict = 0
    <3> DEFINE copy == CopyEntry(x.scopes, s, entries[k])
    <3>1. x.scopes \in T
      OBVIOUS
    <3>2. IsTable(x.scopes, S) /\ DOMAIN x.scopes = DOMAIN sc /\ x.scopes[s] \in Scopes(sc[s], S)
          /\ x.scopes \in [DOMAIN sc -> R]
      BY <3>1
    <3>3. EntryIsCopied(S, x.scopes, s, entries[k], copy)
      BY <1>2, <3>2, EntryCopied
    <3> HIDE DEF copy, R, C
    <3>4. DOMAIN copy.scopes = DOMAIN sc /\ IsTable(copy.scopes, S) /\ copy.scopes[s] \in Scopes(sc[s], S)
          /\ copy \in [scopes : {copy.scopes}, conflict : C]
      BY <3>2, <3>3 DEF EntryIsCopied, Scopes, C
    <3>5. \A t \in DOMAIN sc : copy.scopes[t] \in R
      <4>1. \A t \in DOMAIN sc : t # s => copy.scopes[t] = x.scopes[t]
        BY <3>2, <3>3 DEF EntryIsCopied
      <4>2. copy.scopes[s] \in R
        BY <3>4 DEF R
      <4>3. \A t \in DOMAIN sc : x.scopes[t] \in R
        BY <3>2
      <4> QED
        BY <4>1, <4>2, <4>3
    <3>6. copy.scopes \in T
      <4>1. copy.scopes = [t \in DOMAIN sc |-> copy.scopes[t]]
        BY <3>4 DEF IsTable
      <4> QED
        BY <3>4, <3>5, <4>1
    <3> HIDE DEF T
    <3>7. copy \in X
      BY <3>4, <3>6
    <3> QED
      BY <2>2, <3>7 DEF copy
  <2> HIDE DEF X, T, R, C
  <2> QED
    BY <2>1, <2>2
<1> HIDE DEF X, After, none
<1>5. F \in Steps(n, X)
  BY <1>4 DEF Steps
<1>6. ASSUME NEW k \in 1..n, NEW x \in X PROVE F[<<k, x>>] = After(k, x)
  OBVIOUS
<1> HIDE DEF F
<1>7. PICK g : Iterates(n, X, F, none, g)
  <2> HIDE DEF n
  <2> QED
    BY <1>1, <1>3, <1>5, Iteration
<1>8. ASSUME NEW k \in 1..n PROVE g[k] = After(k, g[k - 1])
  <2>1. k - 1 \in 0..n /\ g \in [0..n -> X] /\ g[k] = F[<<k, g[k - 1]>>]
    BY <1>1, <1>7 DEF Iterates
  <2>2. g[k - 1] \in X
    BY <2>1
  <2> QED
    BY <1>6, <2>1, <2>2
<1>9. g = [k \in 0..n |-> IF k = 0 THEN none ELSE After(k, g[k - 1])]
  <2>1. g = [k \in 0..n |-> g[k]] /\ g[0] = none
    BY <1>7 DEF Iterates
  <2>2. ASSUME NEW k \in 0..n PROVE g[k] = IF k = 0 THEN none ELSE After(k, g[k - 1])
    <3>1. CASE k = 0
      BY <2>1, <3>1
    <3>2. CASE k # 0
      <4>1. k \in 1..n
        BY <1>1, <3>2
      <4> QED
        BY <1>8, <3>2, <4>1
    <3> QED
      BY <3>1, <3>2
  <2> QED
    BY <2>1, <2>2
<1> DEFINE K == {k \in Nat : k <= n => Copied(sc, S, s, entries, k, g[k])}
<1>10. 0 \in K
  <2>1. g[0] = none /\ none.scopes = sc
    BY <1>7 DEF Iterates, none
  <2>2. Copied(sc, S, s, entries, 0, none)
    BY <2>1 DEF Copied, IsTable
  <2> QED
    BY <2>1, <2>2
<1>11. ASSUME NEW k \in Nat, k \in K, k + 1 <= n PROVE Copied(sc, S, s, entries, k + 1, g[k + 1])
  <2>1. k + 1 \in 1..n /\ k + 1 - 1 = k /\ k <= n
    BY <1>1, <1>11
  <2>2. Copied(sc, S, s, entries, k, g[k])
    BY <1>11, <2>1
  <2>3. g[k + 1] = After(k + 1, g[k])
    BY <1>8, <2>1
  <2>4. Copied(sc, S, s, entries, k + 1, After(k + 1, g[k]))
    <3> DEFINE m == k + 1
    <3>1. m \in 1..Len(entries) /\ Copied(sc, S, s, entries, m - 1, g[k])
      BY <2>1, <2>2
    <3> HIDE DEF m, n
    <3> QED
      BY <3>1, OneMoreCopied DEF After, m
  <2> QED
    BY <2>3, <2>4
<1>12. \A k \in Nat : k \in K
  <2>1. \A k \in Nat : k \in K => k + 1 \in K
    BY <1>11
  <2> HIDE DEF K
  <2> QED
    BY <1>10, <2>1, NumberInduction
<1>13. Copied(sc, S, s, entries, n, g[n])
  BY <1>1, <1>12
<1> QED
  BY <1>9, <1>13 DEF n, After, none

\* What copySymbolsFrom leaves: if there was no conflict, every symbol of the
\* one scope but the constructors is in the other.
SymbolsAreCopied(S, sc, from, to, copy) ==
    /\ IsTable(copy.scopes, S) /\ DOMAIN copy.scopes = DOMAIN sc
    /\ \A t \in DOMAIN sc : t # to => copy.scopes[t] = sc[t]
    /\ copy.scopes[to] \in Scopes(sc[to], S) /\ SymbolsIn(sc, to) \subseteq SymbolsIn(copy.scopes, to)
    /\ copy.conflict = 0 =>
          {e \in SymbolsIn(sc, from) : ~ e.constructor} \subseteq SymbolsIn(copy.scopes, to)
    /\ WellNamed(sc) => WellNamed(copy.scopes)
LEMMA SymbolsCopied ==
    ASSUME NEW S, \A x, y \in S : x.decl = y.decl => x = y, \A x \in S : x.decl # 0,
           NEW sc, IsTable(sc, S), NEW from \in DOMAIN sc, NEW to \in DOMAIN sc
    PROVE  SymbolsAreCopied(S, sc, from, to, CopySymbolsFrom(sc, from, to))
<1> DEFINE entries == Entries(sc, from)
           n == Len(entries)
           done[k \in 0..n] ==
               IF k = 0 THEN [scopes |-> sc, conflict |-> 0]
               ELSE IF done[k - 1].conflict # 0 THEN done[k - 1]
               ELSE CopyEntry(done[k - 1].scopes, to, entries[k])
           copy == CopySymbolsFrom(sc, from, to)
           After(k, x) == IF x.conflict # 0 THEN x ELSE CopyEntry(x.scopes, to, entries[k])
           none == [scopes |-> sc, conflict |-> 0]
<1>1. copy = done[n]
  BY DEF CopySymbolsFrom
<1>2. /\ entries \in Seq(Entry(S))
      /\ \A e \in SymbolsIn(sc, from) : \E k \in 1..n : entries[k].symbol = e
      /\ \A k \in 1..n : entries[k] \in Entry(S) /\ entries[k].symbol \in ToSet(sc[from].symbols[entries[k].name])
  BY EntriesOfScope, ElementOfSeq
<1>3. n \in Nat
  BY <1>2
<1>4. PICK g : /\ g = [k \in 0..n |-> IF k = 0 THEN [scopes |-> sc, conflict |-> 0]
                                       ELSE IF g[k - 1].conflict # 0 THEN g[k - 1]
                                       ELSE CopyEntry(g[k - 1].scopes, to, entries[k])]
               /\ Copied(sc, S, to, entries, n, g[n])
  <2> HIDE DEF entries
  <2> QED
    BY <1>2, CopyingEntries
<1>5. done = [k \in 0..n |-> IF k = 0 THEN [scopes |-> sc, conflict |-> 0]
                             ELSE IF done[k - 1].conflict # 0 THEN done[k - 1]
                             ELSE CopyEntry(done[k - 1].scopes, to, entries[k])]
  <2> HIDE DEF entries
  <2> QED
    BY <1>4
<1> HIDE DEF done, entries
<1> DEFINE K == {k \in Nat : k <= n => done[k] = g[k]}
<1>6. 0 \in K
  BY <1>3, <1>4, <1>5
<1>7. ASSUME NEW k \in Nat, k \in K, k + 1 <= n PROVE done[k + 1] = g[k + 1]
  <2>1. k + 1 \in 0..n /\ k + 1 # 0 /\ k + 1 - 1 = k /\ k <= n
    BY <1>3, <1>7
  <2>2. done[k + 1] = After(k + 1, done[k])
    BY <1>5, <2>1
  <2>3. g[k + 1] = After(k + 1, g[k])
    BY <1>4, <2>1
  <2>4. done[k] = g[k]
    BY <1>7, <2>1
  <2> HIDE DEF After
  <2> QED
    BY <2>2, <2>3, <2>4
<1>8. \A k \in Nat : k \in K
  <2>1. \A k \in Nat : k \in K => k + 1 \in K
    BY <1>7
  <2> HIDE DEF K
  <2> QED
    BY <1>6, <2>1, NumberInduction
<1>9. Copied(sc, S, to, entries, n, copy)
  <2>1. done[n] = g[n]
    BY <1>3, <1>8
  <2> QED
    BY <1>1, <1>4, <2>1
<1> HIDE DEF copy, n
<1>10. copy.conflict = 0 => {e \in SymbolsIn(sc, from) : ~ e.constructor} \subseteq SymbolsIn(copy.scopes, to)
  BY <1>2, <1>9 DEF Copied
<1>11. WellNamed(sc) => NamedEntries(entries)
  BY <1>2 DEF WellNamed, NamedEntries, Entry, n
<1>12. WellNamed(sc) => WellNamed(copy.scopes)
  BY <1>9, <1>11 DEF Copied
<1> QED
  BY <1>9, <1>10, <1>12 DEF Copied, copy, SymbolsAreCopied

----------------------------------------------------------------------------
(* The tables *)

AllIn(sc) == UNION {SymbolsIn(sc, s) : s \in DOMAIN sc}

\* A table is one over the symbols that are in it.
LEMMA TableOfItsSymbols ==
    ASSUME NEW S, NEW sc, IsTable(sc, S)
    PROVE  IsTable(sc, AllIn(sc)) /\ AllIn(sc) \subseteq S
<1>1. ASSUME NEW s \in DOMAIN sc PROVE sc[s] \in Scopes(sc[s], AllIn(sc)) /\ SymbolsIn(sc, s) \subseteq S
  <2>1. sc[s] \in Scopes(sc[s], S)
    BY DEF IsTable
  <2>2. sc[s].symbols \in [Name -> Seq(S)]
    BY <2>1 DEF Scopes
  <2>3. ASSUME NEW n \in Name PROVE sc[s].symbols[n] \in Seq(AllIn(sc)) /\ ToSet(sc[s].symbols[n]) \subseteq S
    <3> DEFINE q == sc[s].symbols[n]
    <3>1. q \in Seq(S)
      BY <2>2
    <3>2. ToSet(q) \subseteq AllIn(sc)
      BY DEF AllIn, SymbolsIn
    <3> HIDE DEF q
    <3>3. q \in Seq(ToSet(q)) /\ ToSet(q) \subseteq S
      BY <3>1 DEF ToSet
    <3>4. q \in Seq(AllIn(sc))
      BY <3>2, <3>3
    <3> QED
      BY <3>3, <3>4 DEF q
  <2>4. sc[s].symbols \in [Name -> Seq(AllIn(sc))]
    BY <2>2, <2>3
  <2>5. sc[s] \in Scopes(sc[s], AllIn(sc))
    BY <2>1, <2>4 DEF Scopes
  <2> QED
    BY <2>3, <2>5 DEF SymbolsIn
<1> QED
  BY <1>1 DEF IsTable, AllIn

LEMMA MoreSymbols ==
    ASSUME NEW S, NEW T, S \subseteq T, NEW sc, IsTable(sc, S)
    PROVE  IsTable(sc, T)
<1>1. ASSUME NEW s \in DOMAIN sc PROVE sc[s] \in Scopes(sc[s], T)
  <2>1. sc[s] \in Scopes(sc[s], S)
    BY DEF IsTable
  <2>2. Seq(S) \subseteq Seq(T)
    OBVIOUS
  <2> QED
    BY <2>1, <2>2 DEF Scopes
<1> QED
  BY <1>1 DEF IsTable

\* A table that has become another one: with symbols of S, and of those only e
\* is new.
Grown(S, sc, e, new) ==
    IsTable(new, S) /\ DOMAIN sc \subseteq DOMAIN new /\ AllIn(new) \subseteq AllIn(sc) \cup {e}

\* A new scope, empty.
LEMMA NestedIsTable ==
    ASSUME NEW S, NEW sc, IsTable(sc, S), NEW i, NEW p, NEW d, NEW e
    PROVE  Grown(S, sc, e, With(sc, i, NewScope(p, d)))
<1> DEFINE none == NewScope(p, d)
           new == With(sc, i, none)
<1>1. DOMAIN new = {i} \cup DOMAIN sc /\ new[i] = none /\ \A s \in DOMAIN sc : s # i => new[s] = sc[s]
  BY DEF With
<1>2. new = [s \in DOMAIN new |-> new[s]]
  BY DEF With
<1>3. none.symbols = [n \in Name |-> << >>]
  BY DEF NewScope
<1>4. none \in Scopes(none, S)
  BY DEF NewScope, Scopes
<1>5. Overloaded(none)
  BY <1>3 DEF Overloaded
<1> HIDE DEF none, new
<1>6. IsTable(new, S)
  BY <1>1, <1>2, <1>4, <1>5 DEF IsTable
<1>7. SymbolsIn(new, i) = {}
  <2>1. ToSet(<< >>) = {}
    BY DEF ToSet
  <2> QED
    BY <1>1, <1>3, <2>1 DEF SymbolsIn
<1>8. \A s \in DOMAIN sc : s # i => SymbolsIn(new, s) = SymbolsIn(sc, s)
  BY <1>1 DEF SymbolsIn
<1>9. AllIn(new) \subseteq AllIn(sc)
  BY <1>1, <1>7, <1>8 DEF AllIn
<1> QED
  BY <1>1, <1>6, <1>9 DEF new, none, Grown

\* An entry that is added, if it can be.
LEMMA AddedGrows ==
    ASSUME NEW S, NEW sc, IsTable(sc, S), NEW s, NEW n \in Name, NEW e \in S
    PROVE  Grown(S, sc, e, AddEntry(sc, s, n, e))
<1> DEFINE new == AddEntry(sc, s, n, e)
<1>1. /\ IsTable(new, S) /\ DOMAIN new = DOMAIN sc
      /\ \A t \in DOMAIN sc : SymbolsIn(new, t) \in {SymbolsIn(sc, t), SymbolsIn(sc, t) \cup {e}}
  BY EntryAdded
<1> HIDE DEF new
<1> QED
  BY <1>1 DEF Grown, AllIn, new

LEMMA Tables ==
    ASSUME TablesInvariant
    PROVE  /\ IsTable(scopes, AllSymbols) /\ AllSymbols = AllIn(scopes)
           /\ \A x, y \in AllSymbols : x.decl = y.decl => x = y
           /\ \A x \in AllSymbols : x.decl \in Items /\ x.decl # 0
<1>1. AllSymbols = AllIn(scopes)
  BY DEF AllSymbols, AllIn, Symbols, SymbolsIn
<1>2. IsTable(scopes, AllSymbols)
  BY DEF TablesInvariant, IsTable
<1>3. Items \subseteq Nat \ {0}
  BY DEF Items
<1> QED
  BY <1>1, <1>2, <1>3 DEF TablesInvariant

\* How a step may change the tables: scopes stay, and the declaration that is
\* visited may get a symbol.
LEMMA TablesKept ==
    ASSUME TablesInvariant, UNCHANGED program, Len(program) \in Nat,
           NEW S, IsTable(scopes', S), \A e, f \in AllIn(scopes') \ AllIn(scopes) : e = f,
           \A e \in AllIn(scopes') \ AllIn(scopes) : pass = "generate" /\ at \in Items /\ e.decl = at,
           DOMAIN scopes \subseteq DOMAIN scopes',
           pass = "generate" => \/ pass' = "generate" /\ at' = at + 1 /\ (at \in Classes => at \in DOMAIN scopes')
                                                       /\ UNCHANGED <<visited, visiting>>
                                \/ pass' # "generate" /\ at = Len(program) + 1 /\ UNCHANGED scopes,
           pass # "generate" => pass' # "generate"
    PROVE  TablesInvariant'
<1>1. IsTable(scopes', AllSymbols') /\ AllSymbols' = AllIn(scopes')
  <2>1. AllSymbols' = AllIn(scopes')
    BY DEF AllSymbols, AllIn, Symbols, SymbolsIn
  <2> QED
    BY <2>1, TableOfItsSymbols
<1>2. AllSymbols = AllIn(scopes)
  BY Tables
<1>3. Items' = Items /\ Classes' = Classes /\ Items \subseteq Nat
  BY DEF Items, Classes, ItemsOf
<1>4. \A e \in AllSymbols : e.decl \in Items /\ (pass = "generate" => e.decl < at)
  BY DEF TablesInvariant
<1>5. pass = "generate" => at \in Nat /\ visited = {} /\ visiting = << >>
  BY DEF TablesInvariant
<1>6. \A e \in AllSymbols' : e.decl \in Items' /\ (pass' = "generate" => e.decl < at')
  <2>1. ASSUME NEW e \in AllSymbols' PROVE e.decl \in Items' /\ (pass' = "generate" => e.decl < at')
    <3>1. e \in AllSymbols \/ (pass = "generate" /\ at \in Items /\ e.decl = at)
      BY <1>1, <1>2
    <3>2. e.decl \in Items /\ e.decl \in Nat
      BY <1>3, <1>4, <3>1
    <3>3. pass' = "generate" => pass = "generate" /\ at' = at + 1
      OBVIOUS
    <3>4. pass = "generate" => e.decl <= at
      BY <1>3, <1>4, <1>5, <3>1, <3>2
    <3> QED
      BY <1>3, <1>5, <3>2, <3>3, <3>4
  <2> QED
    BY <2>1
<1>7. \A e, f \in AllSymbols' : e.decl = f.decl => e = f
  <2>1. ASSUME NEW e \in AllSymbols, NEW f \in AllSymbols' \ AllSymbols PROVE e.decl # f.decl
    <3>1. pass = "generate" /\ f.decl = at /\ at \in Nat /\ e.decl \in Nat /\ e.decl < at
      BY <1>1, <1>2, <1>3, <1>4, <1>5, <2>1
    <3> QED
      BY <3>1
  <2>2. \A e, f \in AllSymbols : e.decl = f.decl => e = f
    BY DEF TablesInvariant
  <2>3. \A e, f \in AllSymbols' \ AllSymbols : e = f
    BY <1>1, <1>2
  <2> QED
    BY <2>1, <2>2, <2>3
<1>8. \A c \in Classes' : (pass' = "generate" => c < at') => c \in DOMAIN scopes'
  <2>1. ASSUME NEW c \in Classes, pass' = "generate" => c < at' PROVE c \in DOMAIN scopes'
    <3>1. c \in Nat /\ c <= Len(program)
      BY <1>3 DEF Classes, ItemsOf, Items
    <3>2. CASE pass # "generate"
      BY <2>1, <3>2 DEF TablesInvariant
    <3>3. CASE pass = "generate"
      <4>1. c < at \/ (c = at /\ at \in DOMAIN scopes')
        BY <1>5, <2>1, <3>1, <3>3
      <4> QED
        BY <2>1, <4>1 DEF TablesInvariant
    <3> QED
      BY <3>2, <3>3
  <2> QED
    BY <1>3, <2>1
<1>9. pass' = "generate" => visited' = {} /\ visiting' = << >> /\ at' \in Nat
  BY <1>5
<1> QED
  BY <1>1, <1>6, <1>7, <1>8, <1>9 DEF TablesInvariant, IsTable

\* A declaration that is met: its symbol, and for some a scope of their own.
LEMMA DeclaredTable ==
    ASSUME NEW S, NEW old, IsTable(old, S), NEW i,
           NEW sc, sc = old \/ \E p, d : sc = With(old, i, NewScope(p, d)), NEW s, NEW n, NEW e \in S,
           NEW new, new = sc \/ (n \in Name /\ new = AddEntry(sc, s, n, e))
    PROVE  Grown(S, old, e, new)
<1>1. Grown(S, old, e, old)
  BY DEF Grown
<1>2. ASSUME NEW p, NEW d PROVE Grown(S, old, e, With(old, i, NewScope(p, d)))
  BY NestedIsTable
<1>3. Grown(S, old, e, sc) /\ IsTable(sc, S)
  BY <1>1, <1>2 DEF Grown
<1>4. n \in Name => Grown(S, sc, e, AddEntry(sc, s, n, e))
  BY <1>3, AddedGrows
<1>5. Grown(S, sc, e, sc)
  BY <1>3 DEF Grown
<1>6. Grown(S, sc, e, new)
  BY <1>4, <1>5
<1> QED
  BY <1>3, <1>6 DEF Grown

LEMMA DeclaredKeepsTables ==
    ASSUME TablesInvariant, UNCHANGED program, Len(program) \in Nat,
           pass = "generate", at \in Items, at' = at + 1, UNCHANGED <<pass, visited, visiting>>,
           NEW sc, (at \notin Classes /\ sc = scopes) \/ \E p, d : sc = With(scopes, at, NewScope(p, d)),
           NEW s, NEW n, NEW e, e.decl = at, scopes' = sc \/ (n \in Name /\ scopes' = AddEntry(sc, s, n, e))
    PROVE  TablesInvariant'
<1> DEFINE S == AllIn(scopes) \cup {e}
<1>1. IsTable(scopes, S) /\ e \in S
  BY Tables, MoreSymbols
<1> HIDE DEF S
<1>2. Grown(S, scopes, e, scopes')
  <2>1. sc = scopes \/ \E p, d : sc = With(scopes, at, NewScope(p, d))
    OBVIOUS
  <2> QED
    BY <1>1, <2>1, DeclaredTable
<1>3. /\ \A f, g \in AllIn(scopes') \ AllIn(scopes) : f = g
      /\ \A f \in AllIn(scopes') \ AllIn(scopes) : pass = "generate" /\ at \in Items /\ f.decl = at
  BY <1>2 DEF Grown
<1>4. pass' = "generate" /\ at' = at + 1 /\ (at \in Classes => at \in DOMAIN scopes')
      /\ UNCHANGED <<visited, visiting>>
  BY DEF With, AddEntry
<1> QED
  BY <1>2, <1>3, <1>4, TablesKept DEF Grown

\* A step that adds nothing.
LEMMA TablesStay ==
    ASSUME TablesInvariant, UNCHANGED program, Len(program) \in Nat, UNCHANGED scopes,
           pass = "generate" => \/ pass' = "generate" /\ at' = at + 1 /\ at \notin Classes
                                                       /\ UNCHANGED <<visited, visiting>>
                                \/ pass' # "generate" /\ at = Len(program) + 1,
           pass # "generate" => pass' # "generate"
    PROVE  TablesInvariant'
<1>1. IsTable(scopes', AllIn(scopes)) /\ AllIn(scopes') = AllIn(scopes)
  BY Tables
<1> QED
  BY <1>1, TablesKept

\* What the usings of a scope are changes no symbol.
SameSymbols(S, sc, new) ==
    IsTable(new, S) /\ DOMAIN new = DOMAIN sc /\ \A t \in DOMAIN sc : SymbolsIn(new, t) = SymbolsIn(sc, t)
LEMMA UseKeepsSymbols ==
    ASSUME NEW S, NEW sc, IsTable(sc, S), NEW s, NEW used
    PROVE  SameSymbols(S, sc, [sc EXCEPT ![s].usedScopes = used])
<1> DEFINE scope == [sc[s] EXCEPT !.usedScopes = used]
           new == [sc EXCEPT ![s] = scope]
<1>1. DOMAIN new = DOMAIN sc /\ new = [t \in DOMAIN new |-> new[t]]
  OBVIOUS
<1>2. \A t \in DOMAIN sc : new[t] = IF t = s THEN scope ELSE sc[t]
  OBVIOUS
<1>3. ASSUME s \in DOMAIN sc
      PROVE  scope \in Scopes(scope, S) /\ scope.symbols = sc[s].symbols /\ Overloaded(scope)
  <2>1. sc[s] \in Scopes(sc[s], S) /\ Overloaded(sc[s])
    BY <1>3 DEF IsTable
  <2>2. scope.symbols = sc[s].symbols /\ scope \in Scopes(scope, S)
    BY <2>1 DEF Scopes
  <2> HIDE DEF scope
  <2> QED
    BY <2>1, <2>2 DEF Overloaded
<1> HIDE DEF new, scope
<1>4. IsTable(new, S)
  <2>1. \A t \in DOMAIN new : new[t] \in Scopes(new[t], S) /\ Overloaded(new[t])
    BY <1>1, <1>2, <1>3 DEF IsTable
  <2> QED
    BY <1>1, <2>1 DEF IsTable
<1>5. \A t \in DOMAIN sc : SymbolsIn(new, t) = SymbolsIn(sc, t)
  BY <1>2, <1>3 DEF SymbolsIn
<1> QED
  BY <1>1, <1>4, <1>5 DEF new, scope, SameSymbols

\* What declares something has a name of the program.
LEMMA NamesOfItems ==
    ASSUME program \in Programs
    PROVE  /\ Len(program) \in Nat
           /\ \A i \in Items : program[i].op \in {"module", "class", "alias", "def", "var"} => program[i].name \in Name
<1>1. program \in Seq(Item)
  BY ProgramsAssumption
<1>2. ASSUME NEW i \in Items, program[i].op \in {"module", "class", "alias", "def", "var"} PROVE program[i].name \in Name
  <2>1. program[i] \in Item
    <3>1. i \in 1..Len(program)
      BY DEF Items
    <3> QED
      BY <1>1, <3>1, ElementOfSeq
  <2> QED
    BY <1>2, <2>1 DEF Item
<1> QED
  BY <1>1, <1>2

LEMMA GenerationKeepsTables ==
    ASSUME TablesInvariant, program \in Programs, Generate
    PROVE  TablesInvariant'
<1>1. Len(program) \in Nat
  BY NamesOfItems
<1>2. pass = "generate"
  BY DEF Generate, GenerateModule, GenerateClass, GenerateAlias, GenerateDef, GenerateBlock, GenerateVar,
         GenerateUse, GenerateEnd, GenerationEnds, Generating
<1>3. ASSUME NEW op, Generating(op), Advance
      PROVE  /\ at \in Items /\ program[at].op = op /\ (at \in Classes => op = "class")
             /\ at' = at + 1 /\ UNCHANGED <<program, pass, visited, visiting>>
             /\ (op \in {"module", "class", "alias", "def", "var"} => item.name \in Name)
  <2>1. at \in Items /\ program[at].op = op
    BY <1>3 DEF Generating, Meets, item
  <2>2. at \in Classes => op = "class"
    BY <2>1 DEF Classes, ItemsOf
  <2>3. at' = at + 1 /\ UNCHANGED <<program, pass, visited, visiting>>
    BY <1>3 DEF Advance, assignationVars
  <2> QED
    BY <2>1, <2>2, <2>3, NamesOfItems DEF item
<1>4. ASSUME NEW op, Generating(op), Advance, NEW type, NEW owner, NEW constructor,
             NEW sc, (op # "class" /\ sc = scopes) \/ \E isDefScope : sc = Nested(isDefScope),
             scopes' = sc \/ (op \in {"module", "class", "alias", "def", "var"}
                              /\ scopes' = Declared(sc, type, owner, constructor))
      PROVE  TablesInvariant'
  <2> DEFINE e == Symbol(at, type, owner, constructor)
  <2>1. /\ at \in Items /\ at' = at + 1 /\ UNCHANGED <<program, pass, visited, visiting>>
        /\ (at \notin Classes /\ sc = scopes) \/ \E p, d : sc = With(scopes, at, NewScope(p, d))
    BY <1>3, <1>4 DEF Nested
  <2>2. e.decl = at
    BY DEF Symbol
  <2>3. scopes' = sc \/ (item.name \in Name /\ scopes' = AddEntry(sc, curScope, item.name, e))
    BY <1>3, <1>4 DEF Declared
  <2> HIDE DEF e
  <2> QED
    BY <1>1, <1>2, <2>1, <2>2, <2>3, DeclaredKeepsTables
<1>4b. ASSUME NEW op \in {"alias", "var"}, Generating(op), Advance, NEW type, scopes' = Declared(scopes, type, 0, FALSE)
      PROVE  TablesInvariant'
  <2> DEFINE e == Symbol(at, type, 0, FALSE)
  <2>1. /\ at \in Items /\ at' = at + 1 /\ UNCHANGED <<program, pass, visited, visiting>>
        /\ at \notin Classes
    BY <1>3, <1>4b
  <2>2. e.decl = at
    BY DEF Symbol
  <2>3. item.name \in Name /\ scopes' = AddEntry(scopes, curScope, item.name, e)
    BY <1>3, <1>4b DEF Declared
  <2> HIDE DEF e
  <2> QED
    BY <1>1, <1>2, <2>1, <2>2, <2>3, DeclaredKeepsTables
<1>5. ASSUME NEW op, Generating(op), Advance, op # "class", UNCHANGED scopes
      PROVE  TablesInvariant'
  BY <1>1, <1>2, <1>3, <1>5, TablesStay
<1>6. CASE GenerateModule
  <2>1. Generating("module") /\ Advance
    BY <1>6 DEF GenerateModule
  <2>2. UNCHANGED scopes \/ scopes' = Declared(Nested(FALSE), "MODULE", 0, FALSE)
    BY <1>6 DEF GenerateModule
  <2> QED
    BY <1>4, <1>5, <2>1, <2>2
<1>7. CASE GenerateClass
  <2>1. Generating("class") /\ Advance /\ scopes' = Declared(Nested(this # 0), "TPE", 0, FALSE)
    BY <1>7 DEF GenerateClass
  <2> QED
    BY <1>4, <2>1
<1>8. CASE GenerateAlias
  <2>1. Generating("alias") /\ Advance /\ scopes' = Declared(scopes, "TPE", 0, FALSE)
    BY <1>8 DEF GenerateAlias
  <2> QED
    BY <1>4b, <2>1
<1>9. CASE GenerateDef
  <2>1. PICK owner \in {IF item.flag = "static" THEN 0 ELSE this} :
          scopes' = Declared(Nested(owner = 0), "DEF", owner, item.flag = "constructor")
    BY <1>9 DEF GenerateDef
  <2>2. Generating("def") /\ Advance
    BY <1>9 DEF GenerateDef
  <2> QED
    BY <1>4, <2>1, <2>2
<1>10. CASE GenerateBlock
  <2>1. Generating("block") /\ Advance /\ scopes' = Nested(FALSE)
    BY <1>10 DEF GenerateBlock
  <2> QED
    BY <1>4, <2>1
<1>11. CASE GenerateVar
  <2>1. Generating("var") /\ Advance /\ scopes' = Declared(scopes, "VAR", 0, FALSE)
    BY <1>11 DEF GenerateVar
  <2> QED
    BY <1>4b, <2>1
<1>12. CASE GenerateUse
  <2>1. Generating("use") /\ Advance /\ UNCHANGED scopes
    BY <1>12 DEF GenerateUse
  <2> QED
    BY <1>5, <2>1
<1>13. CASE GenerateEnd
  <2>1. Generating("end") /\ Advance /\ UNCHANGED scopes
    BY <1>13 DEF GenerateEnd
  <2> QED
    BY <1>5, <2>1
<1>14. CASE GenerationEnds
  <2>1. pass' # "generate" /\ at = Len(program) + 1 /\ UNCHANGED <<program, scopes>>
    BY <1>14 DEF GenerationEnds
  <2> QED
    BY <1>1, <2>1, TablesStay
<1> QED
  BY <1>6, <1>7, <1>8, <1>9, <1>10, <1>11, <1>12, <1>13, <1>14 DEF Generate

----------------------------------------------------------------------------
(* What is inherited *)

\* What has a super class was visited, and no scope of those changes: nor does
\* what it inherited.
LEMMA InheritedStays ==
    ASSUME program \in Programs, CallsInvariant, CallsInvariant', TablesInvariant, TablesInvariant', InheritsAll,
           UNCHANGED program, errors \subseteq errors',
           \A c \in visited : c \in visited' /\ parent'[c] = parent[c],
           \A c \in visited : SymbolsIn(scopes', c) = SymbolsIn(scopes, c),
           \A c \in visited' \ visited :
               parent'[c] # 0 /\ (\A e \in errors' : e.kind # "inherited") =>
                 {e \in SymbolsIn(scopes', parent'[c]) : ~ e.constructor} \subseteq SymbolsIn(scopes', c)
    PROVE  InheritsAll'
<1>1. DOMAIN parent = visited /\ DOMAIN parent' = visited'
  BY DEF CallsInvariant
<1>2. ASSUME NEW c \in visited'
      PROVE  \A n \in Name : Len(scopes'[c].symbols[n]) > 1 => \A e \in ToSet(scopes'[c].symbols[n]) : e.type = "DEF"
  <2>1. c \in DOMAIN scopes'
    <3>1. c \in Classes' /\ pass' # "generate"
      BY <1>2 DEF CallsInvariant, TablesInvariant
    <3> QED
      BY <3>1 DEF TablesInvariant
  <2>2. Overloaded(scopes'[c])
    BY <2>1 DEF TablesInvariant, Overloaded
  <2> QED
    BY <2>2 DEF Overloaded
<1>3. ASSUME NEW c \in visited', parent'[c] # 0, \A e \in errors' : e.kind # "inherited"
      PROVE  {e \in SymbolsIn(scopes', parent'[c]) : ~ e.constructor} \subseteq SymbolsIn(scopes', c)
  <2>1. CASE c \in visited' \ visited
    BY <1>3, <2>1
  <2>2. CASE c \in visited
    <3>1. parent'[c] = parent[c] /\ parent[c] \in visited
      BY <1>3, <2>2 DEF CallsInvariant
    <3>2. {e \in SymbolsIn(scopes, parent[c]) : ~ e.constructor} \subseteq SymbolsIn(scopes, c)
      BY <1>1, <1>3, <2>2, <3>1 DEF InheritsAll, Symbols, SymbolsIn
    <3> QED
      BY <2>2, <3>1, <3>2
  <2> QED
    BY <1>3, <2>1, <2>2
<1>4. \A c \in DOMAIN parent' :
        (parent'[c] # 0 /\ \A e \in errors' : e.kind # "inherited") =>
          {e \in SymbolsIn(scopes', parent'[c]) : ~ e.constructor} \subseteq SymbolsIn(scopes', c)
  BY <1>1, <1>3
<1> QED
  BY <1>1, <1>2, <1>4 DEF InheritsAll, Symbols, SymbolsIn

\* Once the declarations are met, only using and inheriting change tables.
LEMMA UseKeepsTables ==
    ASSUME TablesInvariant, NEW s, Use(s), Len(program) \in Nat, UNCHANGED <<program, pass>>, pass # "generate"
    PROVE  /\ TablesInvariant' /\ AllSymbols' = AllSymbols
           /\ \A t \in DOMAIN scopes : SymbolsIn(scopes', t) = SymbolsIn(scopes, t)
<1>1. PICK used : scopes' = [scopes EXCEPT ![s].usedScopes = used]
  <2>1. scopes' = BuildUsings(scopes, s, item.uses).scopes
    BY DEF Use
  <2> QED
    BY <2>1 DEF BuildUsings
<1>2. IsTable(scopes, AllIn(scopes))
  BY Tables
<1>3. /\ IsTable(scopes', AllIn(scopes)) /\ DOMAIN scopes' = DOMAIN scopes
      /\ \A t \in DOMAIN scopes : SymbolsIn(scopes', t) = SymbolsIn(scopes, t)
  <2> DEFINE new == [scopes EXCEPT ![s].usedScopes = used]
  <2>1. SameSymbols(AllIn(scopes), scopes, new)
    BY <1>2, UseKeepsSymbols
  <2>2. scopes' = new
    BY <1>1
  <2> HIDE DEF new
  <2> QED
    BY <2>1, <2>2 DEF SameSymbols
<1>4. AllIn(scopes') = AllIn(scopes)
  BY <1>3 DEF AllIn
<1>5. TablesInvariant'
  BY <1>3, <1>4, TablesKept
<1>6. AllSymbols' = AllSymbols
  BY <1>4 DEF AllSymbols, AllIn, Symbols, SymbolsIn
<1> QED
  BY <1>3, <1>5, <1>6

LEMMA InheritKeepsTables ==
    ASSUME TablesInvariant, CallsInvariant, InheritFrom, program \in Programs
    PROVE  /\ TablesInvariant' /\ AllSymbols' \subseteq AllSymbols
           /\ \A t \in DOMAIN scopes : t # call.class => SymbolsIn(scopes', t) = SymbolsIn(scopes, t)
           /\ (\A e \in errors' : e.kind # "inherited") =>
                 {e \in SymbolsIn(scopes, call.parent) : ~ e.constructor} \subseteq SymbolsIn(scopes', call.class)
<1>1. visiting # << >> /\ pass # "generate" /\ UNCHANGED <<program, pass>>
  BY DEF InheritFrom, TablesInvariant
<1>2. Len(program) \in Nat
  BY NamesOfItems
<1> DEFINE S == AllIn(scopes)
           from == call.parent
           to == call.class
           copy == CopySymbolsFrom(scopes, from, to)
<1>3. from \in DOMAIN scopes /\ to \in DOMAIN scopes
  <2>1. from \in visited /\ from \in Classes
    BY DEF InheritFrom, CallsInvariant
  <2>2. to \in Classes
    <3>1. Finish(call.parent) /\ call.parent \in visited \cup {0}
      BY <2>1 DEF InheritFrom
    <3> QED
      BY <1>1, <3>1, FinishKeepsCalls
  <2> QED
    BY <1>1, <2>1, <2>2 DEF TablesInvariant
<1>4. scopes' = copy.scopes /\ errors' = errors \cup Fails("inherited", copy.conflict, copy.conflict # 0)
  BY DEF InheritFrom
<1>5. IsTable(scopes, S) /\ (\A x, y \in S : x.decl = y.decl => x = y) /\ (\A x \in S : x.decl # 0)
  BY Tables
<1> HIDE DEF S, from, to
<1>6. SymbolsAreCopied(S, scopes, from, to, copy)
  BY <1>3, <1>5, SymbolsCopied
<1> HIDE DEF copy
<1>7. AllIn(scopes') \subseteq S
  BY <1>4, <1>6, TableOfItsSymbols DEF SymbolsAreCopied
<1>8. TablesInvariant'
  BY <1>1, <1>2, <1>4, <1>6, <1>7, TablesKept DEF S, SymbolsAreCopied
<1>9. \A t \in DOMAIN scopes : t # to => SymbolsIn(scopes', t) = SymbolsIn(scopes, t)
  BY <1>4, <1>6 DEF SymbolsIn, SymbolsAreCopied
<1>10. (\A e \in errors' : e.kind # "inherited") => copy.conflict = 0
  <2>1. ASSUME copy.conflict # 0 PROVE \E e \in errors' : e.kind = "inherited"
    <3>1. [kind |-> "inherited", at |-> copy.conflict] \in errors'
      BY <1>4, <2>1 DEF Fails
    <3> QED
      BY <3>1
  <2> QED
    BY <2>1
<1>11. AllSymbols' \subseteq AllSymbols
  BY <1>7 DEF S, AllSymbols, AllIn, Symbols, SymbolsIn
<1> QED
  BY <1>4, <1>6, <1>8, <1>9, <1>10, <1>11 DEF from, to, SymbolsAreCopied

\* What leaves the super classes and the symbols alone.
LEMMA NothingInherited ==
    ASSUME program \in Programs, CallsInvariant, CallsInvariant', TablesInvariant, TablesInvariant', InheritsAll,
           UNCHANGED <<program, visited, parent>>, errors \subseteq errors',
           \A c \in visited : SymbolsIn(scopes', c) = SymbolsIn(scopes, c)
    PROVE  InheritsAll'
BY InheritedStays

\* The classes that were visited have scopes.
LEMMA VisitedHaveScopes ==
    ASSUME TablesInvariant, CallsInvariant
    PROVE  visited \subseteq DOMAIN scopes
BY DEF TablesInvariant, CallsInvariant

LEMMA InheritanceKept ==
    ASSUME InheritanceInvariant, [Next]_vars
    PROVE  InheritanceInvariant'
<1>1. SupersInvariant /\ SupersInvariant'
  BY SupersKept DEF InheritanceInvariant
<1>2. /\ program \in Programs /\ CallsInvariant /\ CallsInvariant' /\ TablesInvariant /\ InheritsAll
  BY <1>1 DEF SupersInvariant, InheritanceInvariant
<1>3. Len(program) \in Nat /\ visited \subseteq DOMAIN scopes
  BY <1>2, NamesOfItems, VisitedHaveScopes
<1>4. SUFFICES TablesInvariant' /\ InheritsAll'
  BY <1>1 DEF InheritanceInvariant
<1>5. CASE Generate
  <2>1. TablesInvariant'
    BY <1>2, <1>5, GenerationKeepsTables
  <2>2. pass = "generate"
    BY <1>5 DEF Generate, GenerateModule, GenerateClass, GenerateAlias, GenerateDef, GenerateBlock, GenerateVar,
                GenerateUse, GenerateEnd, GenerationEnds, Generating
  <2>3. visited = {} /\ UNCHANGED <<program, visited, parent>>
    <3>1. ~ Visiting
      BY <1>2, <2>2 DEF Visiting, ResolveParent, ParentRead, VisitParent, Assigning, InheritFrom, TablesInvariant
    <3> QED
      BY <1>2, <1>5, <2>2, <3>1, OthersKeepCalls DEF Next, TablesInvariant
  <2>4. DOMAIN parent' = {}
    BY <1>2, <2>3 DEF CallsInvariant
  <2> QED
    BY <2>1, <2>4 DEF InheritsAll
<1>6. ASSUME NEW s, Use(s), Continue, UNCHANGED assignationVars, pass = "assign"
      PROVE  TablesInvariant' /\ InheritsAll'
  <2>1. UNCHANGED <<program, pass, visited, parent>> /\ errors \subseteq errors'
    BY <1>6 DEF Continue, Use, assignationVars
  <2>2. TablesInvariant' /\ \A t \in DOMAIN scopes : SymbolsIn(scopes', t) = SymbolsIn(scopes, t)
    BY <1>2, <1>3, <1>6, <2>1, UseKeepsTables
  <2> QED
    BY <1>2, <1>3, <2>1, <2>2, NothingInherited
<1>7. ASSUME UNCHANGED <<program, scopes>>, errors \subseteq errors', pass # "generate", pass' # "generate"
      PROVE  /\ TablesInvariant' /\ \A c \in visited : SymbolsIn(scopes', c) = SymbolsIn(scopes, c)
             /\ UNCHANGED <<visited, parent>> => InheritsAll'
  <2>1. TablesInvariant'
    BY <1>2, <1>3, <1>7, TablesStay
  <2>2. \A c \in visited : SymbolsIn(scopes', c) = SymbolsIn(scopes, c)
    BY <1>7 DEF SymbolsIn
  <2> QED
    BY <1>2, <1>7, <2>1, <2>2, NothingInherited
<1>8. CASE AssignModule \/ AssignBlock
  BY <1>6, <1>8 DEF AssignModule, AssignBlock, Assigning
<1>9. CASE AssignDef \/ AssignVar \/ AssignName \/ AssignClass \/ VisitParent \/ AssignEnd \/ AnalysisEnds
  <2>1. pass # "generate" /\ pass' # "generate" /\ UNCHANGED <<program, scopes, visited, parent>>
    BY <1>9 DEF AssignDef, AssignVar, AssignName, AssignClass, VisitParent, AssignEnd, AnalysisEnds, Assigning,
                Continue, assignationVars
  <2>2. errors \subseteq errors'
    BY <1>9 DEF AssignDef, AssignVar, AssignName, AssignClass, VisitParent, AssignEnd, AnalysisEnds
  <2> QED
    BY <1>7, <2>1, <2>2
<1>10. CASE ResolveParent
  <2>1. visiting # << >> /\ pass # "generate"
    BY <1>2, <1>10 DEF ResolveParent, ParentRead, TablesInvariant
  <2>2. PICK super \in {Super(scopes, call.class, assigned, typeOf)} :
         /\ Resolved(super)
         /\ IF super.type.class \in ItemsOf("class") \ Marked THEN Enter(super.type.class) ELSE Finish(0)
    BY <1>10 DEF ResolveParent
  <2>3. UNCHANGED <<program, pass, scopes>> /\ errors \subseteq errors'
    BY <2>2 DEF Resolved
  <2>4. /\ TablesInvariant' /\ \A c \in visited : SymbolsIn(scopes', c) = SymbolsIn(scopes, c)
        /\ UNCHANGED <<visited, parent>> => InheritsAll'
    BY <1>7, <2>1, <2>3
  <2>5. UNCHANGED <<visited, parent>> \/ Finish(0)
    BY <2>2 DEF Enter
  <2>6. CASE Finish(0)
    <3>1. call.class \in Classes \ visited
      BY <1>2, <2>1, <2>3, <2>6, FinishKeepsCalls
    <3>2. visited' = visited \cup {call.class} /\ parent' = With(parent, call.class, 0)
      BY <2>6 DEF Finish
    <3>3. \A c \in visited : parent'[c] = parent[c]
      BY <1>2, <3>1, <3>2 DEF With, CallsInvariant
    <3>4. \A c \in visited' \ visited : parent'[c] = 0
      BY <3>2 DEF With
    <3> QED
      BY <1>2, <2>3, <2>4, <3>2, <3>3, <3>4, InheritedStays
  <2> QED
    BY <2>4, <2>5, <2>6
<1>11. CASE InheritFrom
  <2> DEFINE new == call.class
             p == call.parent
  <2>1. visiting # << >> /\ p \in visited /\ Finish(p) /\ UNCHANGED program /\ errors \subseteq errors'
    BY <1>11 DEF InheritFrom
  <2>2. /\ TablesInvariant'
        /\ \A t \in DOMAIN scopes : t # new => SymbolsIn(scopes', t) = SymbolsIn(scopes, t)
        /\ (\A e \in errors' : e.kind # "inherited") =>
              {e \in SymbolsIn(scopes, p) : ~ e.constructor} \subseteq SymbolsIn(scopes', new)
    BY <1>2, <1>11, InheritKeepsTables
  <2>3. new \in Classes \ visited
    BY <1>2, <2>1, FinishKeepsCalls
  <2>4. visited' = visited \cup {new} /\ parent' = With(parent, new, p)
    BY <2>1 DEF Finish
  <2> HIDE DEF new, p
  <2>5. \A c \in visited : parent'[c] = parent[c]
    BY <1>2, <2>3, <2>4 DEF With, CallsInvariant
  <2>6. \A c \in visited' \ visited : c = new /\ parent'[c] = p
    BY <2>4 DEF With
  <2>7. \A c \in visited : SymbolsIn(scopes', c) = SymbolsIn(scopes, c)
    BY <1>3, <2>2, <2>3
  <2>8. \A c \in visited' \ visited : (\A e \in errors' : e.kind # "inherited") =>
          {e \in SymbolsIn(scopes', parent'[c]) : ~ e.constructor} \subseteq SymbolsIn(scopes', c)
    BY <2>1, <2>2, <2>6, <2>7
  <2> QED
    BY <1>2, <2>1, <2>2, <2>4, <2>5, <2>7, <2>8, InheritedStays
<1>12. CASE Terminated \/ UNCHANGED vars
  <2>1. UNCHANGED vars
    BY <1>12 DEF Terminated
  <2>2. UNCHANGED <<program, pass, at, scopes, visiting, visited, parent, errors>>
    BY <2>1 DEF vars, assignationVars
  <2>3. /\ AllSymbols' = AllSymbols /\ Classes' = Classes /\ Items' = Items
        /\ \A c \in visited : SymbolsIn(scopes', c) = SymbolsIn(scopes, c)
    BY <2>2 DEF AllSymbols, Symbols, SymbolsIn, Classes, ItemsOf, Items
  <2>4. TablesInvariant'
    BY <1>2, <2>2, <2>3 DEF TablesInvariant
  <2> QED
    BY <1>2, <2>2, <2>3, <2>4, NothingInherited
<1> QED
  BY <1>5, <1>8, <1>9, <1>10, <1>11, <1>12 DEF Next, Assign

\* Before anything is declared.
LEMMA InheritanceStarts ==
    ASSUME Init
    PROVE  InheritanceInvariant /\ AllSymbols = {}
<1>1. SupersInvariant
  BY DEF Init, SupersInvariant, CallsInvariant, SupersAcyclic
<1>2. scopes = [s \in {0} |-> NewScope(0, FALSE)] /\ pass = "generate" /\ at = 1 /\ visited = {} /\ visiting = << >>
  BY DEF Init
<1>3. NewScope(0, FALSE).symbols = [n \in Name |-> << >>]
  BY DEF NewScope
<1>4. AllSymbols = {}
  <2>1. ToSet(<< >>) = {}
    BY DEF ToSet
  <2> QED
    BY <1>2, <1>3, <2>1 DEF AllSymbols, Symbols
<1>5. \A s \in DOMAIN scopes : scopes[s] \in Scopes(scopes[s], AllSymbols) /\ Overloaded(scopes[s])
  BY <1>2, <1>3 DEF Scopes, NewScope, Overloaded
<1>6. \A c \in Classes : ~ (c < at)
  BY <1>2 DEF Classes, ItemsOf, Items
<1>7. TablesInvariant
  BY <1>2, <1>4, <1>5, <1>6 DEF TablesInvariant
<1>8. InheritsAll
  BY DEF Init, InheritsAll
<1> QED
  BY <1>1, <1>4, <1>7, <1>8 DEF InheritanceInvariant

\* Every class that was visited has, for good, what its super class has but the
\* constructors, unless a conflict was reported; and a name that means several
\* symbols in it is overloaded by definitions only.
THEOREM InheritedForGood == Spec => []InheritsAll
<1>1. Init => InheritanceInvariant
  BY InheritanceStarts
<1>2. InheritanceInvariant /\ [Next]_vars => InheritanceInvariant'
  BY InheritanceKept
<1>3. InheritanceInvariant => InheritsAll
  BY DEF InheritanceInvariant
<1> QED
  BY <1>1, <1>2, <1>3, PTL DEF Spec
----------------------------------------------------------------------------
(* What opens and what closes *)

OpeningItems == {k \in Int : program[k].op \in Opening}
EndItems == {k \in Int : program[k].op = "end"}
Balance(i, j) == CountIn(OpeningItems, i, j) - CountIn(EndItems, i, j)

LEMMA BalanceCounts ==
    ASSUME NEW i \in Int, NEW j \in Int
    PROVE  /\ Opened(program, i, j) \in Nat /\ Closed(program, i, j) \in Nat
           /\ Balance(i, j) = Opened(program, i, j) - Closed(program, i, j)
           /\ Balance(i, j) \in Int
<1>1. {k \in i..j : program[k].op \in Opening} = Among(OpeningItems, i, j)
  BY DEF OpeningItems, Among
<1>2. {k \in i..j : program[k].op = "end"} = Among(EndItems, i, j)
  BY DEF EndItems, Among
<1>3. Opened(program, i, j) = CountIn(OpeningItems, i, j) /\ Closed(program, i, j) = CountIn(EndItems, i, j)
  BY <1>1, <1>2 DEF Opened, Closed, CountIn
<1> QED
  BY <1>3, CountFinite DEF Balance

LEMMA BalanceSplit ==
    ASSUME NEW i \in Int, NEW m \in Int, NEW j \in Int, i <= m + 1, m <= j
    PROVE  /\ Balance(i, j) = Balance(i, m) + Balance(m + 1, j)
           /\ Balance(i, j) \in Int /\ Balance(i, m) \in Int /\ Balance(m + 1, j) \in Int
<1>1. m + 1 \in Int
  OBVIOUS
<1>2. /\ CountIn(OpeningItems, i, j) = CountIn(OpeningItems, i, m) + CountIn(OpeningItems, m + 1, j)
      /\ CountIn(EndItems, i, j) = CountIn(EndItems, i, m) + CountIn(EndItems, m + 1, j)
  BY CountSplit
<1> QED
  BY <1>1, <1>2, CountFinite DEF Balance

LEMMA BalanceOne ==
    ASSUME NEW i \in Int
    PROVE  /\ program[i].op \in Opening => Balance(i, i) = 1
           /\ program[i].op = "end" => Balance(i, i) = -1
           /\ program[i].op \notin Opening \cup {"end"} => Balance(i, i) = 0
           /\ Balance(i, i - 1) = 0
<1>1. /\ i \in OpeningItems <=> program[i].op \in Opening
      /\ i \in EndItems <=> program[i].op = "end"
      /\ program[i].op = "end" => program[i].op \notin Opening
  BY DEF OpeningItems, EndItems, Opening
<1>2. i - 1 \in Int
  OBVIOUS
<1> QED
  BY <1>1, <1>2, CountOne DEF Balance

LEMMA Bracketed ==
    ASSUME program \in Programs
    PROVE  /\ Len(program) \in Nat
           /\ \A m \in 0..Len(program) : Balance(1, m) >= 0
           /\ Balance(1, Len(program)) = 0
<1>1. Len(program) \in Nat
  BY ProgramsAssumption
<1>2. /\ \A j \in 1..Len(program) : Closed(program, 1, j) <= Opened(program, 1, j)
      /\ Closed(program, 1, Len(program)) = Opened(program, 1, Len(program))
  BY NestingAssumption
<1>3. ASSUME NEW m \in 1..Len(program) PROVE Balance(1, m) >= 0
  <2>1. m \in Int /\ 1 \in Int
    BY <1>1
  <2>2. /\ Opened(program, 1, m) \in Nat /\ Closed(program, 1, m) \in Nat
        /\ Balance(1, m) = Opened(program, 1, m) - Closed(program, 1, m)
    BY <2>1, BalanceCounts
  <2>3. Closed(program, 1, m) <= Opened(program, 1, m)
    BY <1>2
  <2> QED
    BY <2>2, <2>3
<1>4. Balance(1, 0) = 0
  <2>1. 1 \in Int /\ 1 - 1 = 0
    OBVIOUS
  <2>2. Balance(1, 1 - 1) = 0
    BY <2>1, BalanceOne
  <2> QED
    BY <2>1, <2>2
<1>5. Balance(1, Len(program)) = 0
  <2>1. 1 \in Int /\ Len(program) \in Int
    BY <1>1
  <2> QED
    BY <1>2, <2>1, BalanceCounts
<1> QED
  BY <1>1, <1>3, <1>4, <1>5

\* When an item ends: at the first item at which what was opened is closed.
LEMMA EndsBalance ==
    ASSUME program \in Programs, NEW i \in Items, NEW j \in Items
    PROVE  Ends(program, i, j) <=> /\ i < j /\ program[j].op = "end"
                          /\ \A k \in i..j : Balance(i, k) = 0 <=> k = j
<1>1. ASSUME NEW k \in i..j PROVE Balance(i, k) = 0 <=> Opened(program, i, k) = Closed(program, i, k)
  <2>1. i \in Int /\ k \in Int
    BY Bracketed DEF Items
  <2>2. /\ Opened(program, i, k) \in Nat /\ Closed(program, i, k) \in Nat
        /\ Balance(i, k) = Opened(program, i, k) - Closed(program, i, k)
    BY <2>1, BalanceCounts
  <2> QED
    BY <2>2
<1> QED
  BY <1>1 DEF Ends

\* It ends once.
LEMMA EndsOnce ==
    ASSUME program \in Programs, NEW i \in Items, NEW j \in Items, NEW k \in Items, Ends(program, i, j), Ends(program, i, k)
    PROVE  j = k
<1>1. i \in Int /\ j \in Int /\ k \in Int
  BY Bracketed DEF Items
<1>2. /\ i < j /\ i < k
      /\ \A h \in i..j : Balance(i, h) = 0 <=> h = j
      /\ \A h \in i..k : Balance(i, h) = 0 <=> h = k
  BY EndsBalance
<1>3. CASE j < k
  <2>1. j \in i..j /\ j \in i..k
    BY <1>1, <1>2, <1>3
  <2> QED
    BY <1>2, <2>1
<1>4. CASE k < j
  <2>1. k \in i..j /\ k \in i..k
    BY <1>1, <1>2, <1>4
  <2> QED
    BY <1>2, <2>1
<1> QED
  BY <1>1, <1>3, <1>4

\* What opens ends, and until then more is opened than closed.
LEMMA OpeningEnds ==
    ASSUME program \in Programs, NEW i \in Items, program[i].op \in Opening
    PROVE  /\ End(program, i) \in Items /\ i < End(program, i) /\ Ends(program, i, End(program, i))
           /\ \A m \in i..(End(program, i) - 1) : Balance(i, m) > 0
<1> DEFINE n == Len(program)
           D(m) == Balance(i, m)
           L == {j \in i..n : D(j) <= 0}
<1>1. n \in Nat /\ i \in Nat /\ i >= 1 /\ i <= n /\ i \in Int
  BY Bracketed DEF Items
<1>2. D(i) = 1
  BY <1>1, BalanceOne
<1>3. ASSUME NEW m \in (i + 1)..n
      PROVE  /\ D(m) = D(m - 1) + Balance(m, m)
             /\ D(m) \in Int /\ D(m - 1) \in Int /\ Balance(m, m) \in Int
  <2>1. m \in Int /\ m - 1 \in Int /\ i \in Int /\ i <= m - 1 + 1 /\ m - 1 <= m /\ m - 1 + 1 = m
    BY <1>1
  <2> HIDE DEF n
  <2> QED
    BY <2>1, BalanceSplit
<1>4. ASSUME NEW m \in Int
      PROVE  /\ Balance(m, m) = -1 \/ Balance(m, m) = 0 \/ Balance(m, m) = 1
             /\ Balance(m, m) = -1 => program[m].op = "end"
  BY BalanceOne
<1>5. D(n) <= 0
  <2>1. Balance(1, i - 1) >= 0 /\ Balance(1, n) = 0
    <3>1. i - 1 \in 0..n
      BY <1>1
    <3> QED
      BY <3>1, Bracketed
  <2>2. 1 \in Int /\ i - 1 \in Int /\ n \in Int /\ 1 <= i - 1 + 1 /\ i - 1 <= n /\ i - 1 + 1 = i
    BY <1>1
  <2>3. Balance(1, n) = Balance(1, i - 1) + D(n) /\ Balance(1, i - 1) \in Int /\ D(n) \in Int
    <3> HIDE DEF n
    <3> QED
      BY <2>2, BalanceSplit
  <2> HIDE DEF D, n
  <2> QED
    BY <2>1, <2>3
<1> HIDE DEF D, n
<1>6. PICK c \in L : \A z \in L : c <= z
  <2>1. L \in SUBSET Nat /\ n \in L
    BY <1>1, <1>5
  <2> HIDE DEF L
  <2> QED
    BY <2>1, LeastElement
<1>7. c \in (i + 1)..n
  BY <1>1, <1>2, <1>6
<1>8. ASSUME NEW m \in i..(c - 1) PROVE D(m) > 0
  <2>1. m \in i..n /\ m < c
    BY <1>1, <1>7
  <2>2. ~ (D(m) <= 0)
    BY <1>6, <1>7, <2>1
  <2>3. D(m) \in Int
    BY <1>1, <1>2, <1>3, <2>1
  <2> QED
    BY <2>2, <2>3
<1>9. D(c) = 0 /\ program[c].op = "end"
  <2>1. c - 1 \in i..(c - 1) /\ c \in Int
    BY <1>1, <1>7
  <2>2. D(c - 1) > 0 /\ D(c) <= 0
    BY <1>6, <1>8, <2>1
  <2>3. /\ Balance(c, c) = -1 \/ Balance(c, c) = 0 \/ Balance(c, c) = 1
        /\ Balance(c, c) = -1 => program[c].op = "end"
    BY <1>4, <2>1
  <2> QED
    BY <1>3, <1>7, <2>2, <2>3
<1>10. c \in Items /\ i < c
  BY <1>1, <1>7 DEF Items, n
<1>11. Ends(program, i, c)
  <2>1. ASSUME NEW k \in i..c PROVE Balance(i, k) = 0 <=> k = c
    <3>1. k = c \/ k \in i..(c - 1)
      BY <1>1, <1>7
    <3>2. k \in i..(c - 1) => D(k) > 0 /\ k # c
      BY <1>1, <1>7, <1>8
    <3> QED
      BY <1>9, <3>1, <3>2 DEF D
  <2> QED
    BY <1>9, <1>10, <2>1, EndsBalance
<1>12. End(program, i) = c
  <2>1. \A j \in Items : Ends(program, i, j) => j = c
    BY <1>10, <1>11, EndsOnce
  <2> QED
    BY <1>10, <1>11, <2>1 DEF End, Items
<1> QED
  BY <1>8, <1>10, <1>11, <1>12 DEF D

\* What ends was opened, and it is what is open then and was opened last.
LEMMA EndsOpening ==
    ASSUME program \in Programs, NEW k \in Items, program[k].op = "end"
    PROVE  \E i \in 1..(k - 1) : program[i].op \in Opening /\ Ends(program, i, k)
<1> DEFINE n == Len(program)
           D(i) == Balance(i, k - 1)
           L == {d \in Nat : d < k /\ D(k - d) >= 1}
<1>1. n \in Nat /\ k \in Nat /\ k >= 1 /\ k <= n /\ k \in Int
  BY Bracketed DEF Items
<1>2. Balance(k, k) = -1
  BY <1>1, BalanceOne
<1>3. D(k) = 0
  BY <1>1, BalanceOne
<1>4. D(1) >= 1
  <2>1. k \in 0..n
    BY <1>1
  <2>2. Balance(1, k) >= 0
    BY <2>1, Bracketed
  <2>3. 1 \in Int /\ k - 1 \in Int /\ k \in Int /\ 1 <= k - 1 + 1 /\ k - 1 <= k /\ k - 1 + 1 = k
    BY <1>1
  <2>4. Balance(1, k) = D(1) + Balance(k, k) /\ D(1) \in Int
    <3> HIDE DEF n
    <3> QED
      BY <2>3, BalanceSplit
  <2> HIDE DEF D, n
  <2> QED
    BY <1>2, <2>2, <2>4
<1>5. ASSUME NEW i \in 1..(k - 1)
      PROVE  /\ D(i) = Balance(i, i) + D(i + 1) /\ D(i) \in Int /\ D(i + 1) \in Int
             /\ Balance(i, i) = -1 \/ Balance(i, i) = 0 \/ Balance(i, i) = 1
             /\ Balance(i, i) = 1 => program[i].op \in Opening
  <2>1. i \in Int /\ k - 1 \in Int /\ i <= i + 1 /\ i <= k - 1
    BY <1>1
  <2>2. D(i) = Balance(i, i) + D(i + 1) /\ D(i) \in Int /\ D(i + 1) \in Int
    <3> HIDE DEF n
    <3> QED
      BY <2>1, BalanceSplit
  <2> HIDE DEF D
  <2> QED
    BY <2>1, <2>2, BalanceOne
<1>6. ASSUME NEW i \in 1..(k - 1), NEW m \in i..(k - 1)
      PROVE  D(i) = Balance(i, m) + D(m + 1) /\ Balance(i, m) \in Int /\ D(m + 1) \in Int
  <2>1. i \in Int /\ k - 1 \in Int /\ m \in Int /\ i <= m + 1 /\ m <= k - 1
    BY <1>1
  <2> HIDE DEF n
  <2> QED
    BY <2>1, BalanceSplit
<1>7. ASSUME NEW i \in 1..(k - 1)
      PROVE  Balance(i, k) = D(i) - 1
  <2>1. i \in Int /\ k - 1 \in Int /\ k \in Int /\ i <= k - 1 + 1 /\ k - 1 <= k /\ k - 1 + 1 = k
    BY <1>1
  <2>2. Balance(i, k) = D(i) + Balance(k, k) /\ D(i) \in Int
    <3> HIDE DEF n
    <3> QED
      BY <2>1, BalanceSplit
  <2> HIDE DEF D
  <2> QED
    BY <1>2, <2>2
<1> HIDE DEF D, n
<1>8. PICK e \in L : \A d \in L : e <= d
  <2>1. L \in SUBSET Nat /\ k - 1 \in L
    <3>1. k - 1 \in Nat /\ k - (k - 1) = 1
      BY <1>1
    <3> QED
      BY <1>1, <1>4, <3>1
  <2> HIDE DEF L
  <2> QED
    BY <2>1, LeastElement
<1> DEFINE i == k - e
<1>9. i \in 1..(k - 1) /\ D(i) >= 1 /\ i \in Int
  <2>1. e \in Nat /\ e < k /\ D(k - e) >= 1
    BY <1>8
  <2>2. e # 0
    BY <1>1, <1>3, <2>1
  <2> QED
    BY <1>1, <2>1, <2>2
<1>10. ASSUME NEW m \in i..(k - 1) PROVE D(m + 1) <= 0
  <2>1. m \in Int /\ i <= m /\ m <= k - 1
    BY <1>1, <1>9
  <2>2. CASE m = k - 1
    <3>1. m + 1 = k
      BY <1>1, <2>1, <2>2
    <3> QED
      BY <1>3, <3>1
  <2>3. CASE m # k - 1
    <3>1. k - (m + 1) \in Nat /\ k - (m + 1) < k /\ k - (k - (m + 1)) = m + 1 /\ k - (m + 1) < e
      BY <1>1, <1>8, <1>9, <2>1, <2>3
    <3>2. ~ (D(m + 1) >= 1)
      BY <1>8, <3>1
    <3>3. m + 1 \in 1..(k - 1)
      BY <1>1, <1>9, <2>1, <2>3
    <3>4. D(m + 1) \in Int
      BY <1>5, <3>3
    <3> QED
      BY <3>2, <3>4
  <2> QED
    BY <2>2, <2>3
<1> HIDE DEF i
<1>11. D(i) = 1 /\ program[i].op \in Opening
  <2>1. i \in i..(k - 1)
    BY <1>1, <1>9
  <2>2. D(i + 1) <= 0
    BY <1>10, <2>1
  <2> QED
    BY <1>5, <1>9, <2>2
<1>12. i \in Items /\ i < k
  BY <1>1, <1>9 DEF Items, n
<1>13. ASSUME NEW m \in i..k PROVE Balance(i, m) = 0 <=> m = k
  <2>1. m \in Int /\ (m = k \/ m \in i..(k - 1)) /\ (m \in i..(k - 1) => m # k)
    BY <1>1, <1>9
  <2>2. Balance(i, k) = 0
    BY <1>7, <1>9, <1>11
  <2>3. ASSUME m \in i..(k - 1) PROVE Balance(i, m) # 0
    BY <1>6, <1>9, <1>10, <1>11, <2>3
  <2> QED
    BY <2>1, <2>2, <2>3
<1>14. Ends(program, i, k)
  BY <1>12, <1>13, EndsBalance
<1> QED
  BY <1>9, <1>11, <1>14

\* What opens in an item that has not ended yet ends before that item.
LEMMA EndsNest ==
    ASSUME program \in Programs, NEW i \in Items, NEW j \in Items,
           program[i].op \in Opening, program[j].op \in Opening, i < j, j < End(program, i)
    PROVE  End(program, j) < End(program, i)
<1> DEFINE k == End(program, i)
           m == End(program, j)
<1>1. /\ k \in Items /\ Ends(program, i, k) /\ \A h \in i..(k - 1) : Balance(i, h) > 0
      /\ m \in Items /\ Ends(program, j, m) /\ \A h \in j..(m - 1) : Balance(j, h) > 0
  BY OpeningEnds
<1> HIDE DEF k, m
<1>2. /\ i \in Int /\ j \in Int /\ k \in Int /\ m \in Int /\ j < k
      /\ i < k /\ Balance(i, k) = 0 /\ Balance(j, m) = 0 /\ j < m
  <2>1. i \in Int /\ j \in Int /\ k \in Int /\ m \in Int
    BY <1>1, Bracketed DEF Items
  <2>2. i < k /\ (\A h \in i..k : Balance(i, h) = 0 <=> h = k) /\ j < m /\ (\A h \in j..m : Balance(j, h) = 0 <=> h = m)
    BY <1>1, EndsBalance
  <2>3. k \in i..k /\ m \in j..m
    BY <2>1, <2>2
  <2> QED
    BY <2>1, <2>2, <2>3 DEF k
<1>3. /\ Balance(i, k) = Balance(i, j - 1) + Balance(j, k)
      /\ Balance(i, j - 1) \in Int /\ Balance(j, k) \in Int
  <2>1. j - 1 \in Int /\ i <= j - 1 + 1 /\ j - 1 <= k /\ j - 1 + 1 = j /\ i \in Int /\ k \in Int
    BY <1>2
  <2>2. /\ Balance(i, k) = Balance(i, j - 1) + Balance(j - 1 + 1, k)
        /\ Balance(i, j - 1) \in Int /\ Balance(j - 1 + 1, k) \in Int
    BY <2>1, BalanceSplit
  <2> QED
    BY <2>1, <2>2
<1>4. Balance(i, j - 1) > 0
  <2>1. j - 1 \in i..(k - 1)
    BY <1>2
  <2> QED
    BY <1>1, <2>1
<1>5. Balance(j, k) < 0
  BY <1>2, <1>3, <1>4
<1>6. ~ (k <= m)
  <2>1. k <= m => k = m \/ k \in j..(m - 1)
    BY <1>2
  <2> QED
    BY <1>1, <1>2, <1>3, <1>5, <2>1
<1> QED
  BY <1>2, <1>6 DEF k, m

\* What is pending at an item is what it is in.
LEMMA PendingEncloses ==
    ASSUME program \in Programs, NEW i \in Items, program[i].op # "end"
    PROVE  Pending(i) = Enclosing(program, i)
<1>1. ASSUME NEW j \in 1..(i - 1), program[j].op \in Opening PROVE i <= End(program, j) <=> i < End(program, j)
  <2>1. i \in Nat /\ j \in Items
    BY <1>1, Bracketed DEF Items
  <2>2. End(program, j) \in Items /\ Ends(program, j, End(program, j))
    BY <1>1, <2>1, OpeningEnds
  <2>3. program[End(program, j)].op = "end" /\ End(program, j) \in Nat
    BY <2>2, Bracketed DEF Ends, Items
  <2> QED
    BY <2>1, <2>3
<1> QED
  BY <1>1 DEF Pending, Enclosing

LEMMA PendingItems ==
    ASSUME program \in Programs, NEW i \in 1..(Len(program) + 1)
    PROVE  Pending(i) \subseteq Items /\ Pending(i) \subseteq 1..(i - 1)
BY Bracketed DEF Pending, Items

\* What is pending at the next item: what opens is, what ends is not any more.
LEMMA PendingOpens ==
    ASSUME program \in Programs, NEW i \in Items, program[i].op \in Opening
    PROVE  Pending(i + 1) = Pending(i) \cup {i}
<1>1. i \in Nat /\ i >= 1 /\ i + 1 - 1 = i
  BY Bracketed DEF Items
<1>2. Pending(i) = Enclosing(program, i)
  BY PendingEncloses DEF Opening
<1>3. ASSUME NEW j \in 1..i, program[j].op \in Opening
      PROVE  End(program, j) \in Nat /\ (j = i => j < End(program, j))
  <2>1. j \in Items
    BY <1>1, Bracketed DEF Items
  <2>2. End(program, j) \in Items /\ j < End(program, j)
    BY <1>3, <2>1, OpeningEnds
  <2> QED
    BY <2>2, Bracketed DEF Items
<1>4. ASSUME NEW j PROVE j \in Pending(i + 1) <=> j \in Enclosing(program, i) \cup {i}
  <2>1. j \in 1..i <=> j \in 1..(i - 1) \/ j = i
    BY <1>1
  <2>2. j \in Pending(i + 1) <=> j \in 1..i /\ program[j].op \in Opening /\ i + 1 <= End(program, j)
    BY <1>1 DEF Pending
  <2>3. j \in 1..i /\ program[j].op \in Opening => (i + 1 <= End(program, j) <=> i < End(program, j))
    BY <1>1, <1>3
  <2>4. j = i => i < End(program, j)
    BY <1>1, <1>3
  <2> QED
    BY <2>1, <2>2, <2>3, <2>4 DEF Enclosing
<1> QED
  BY <1>2, <1>4

LEMMA PendingStays ==
    ASSUME program \in Programs, NEW i \in Items, program[i].op \notin Opening \cup {"end"}
    PROVE  Pending(i + 1) = Pending(i)
<1>1. i \in Nat /\ i >= 1 /\ i + 1 - 1 = i
  BY Bracketed DEF Items
<1>2. Pending(i) = Enclosing(program, i)
  BY PendingEncloses
<1>3. ASSUME NEW j \in 1..i, program[j].op \in Opening PROVE End(program, j) \in Nat
  <2>1. j \in Items
    BY <1>1, Bracketed DEF Items
  <2>2. End(program, j) \in Items
    BY <1>3, <2>1, OpeningEnds
  <2> QED
    BY <2>2, Bracketed DEF Items
<1>4. ASSUME NEW j PROVE j \in Pending(i + 1) <=> j \in Enclosing(program, i)
  <2>1. j \in 1..i /\ program[j].op \in Opening <=> j \in 1..(i - 1) /\ program[j].op \in Opening
    BY <1>1
  <2>2. j \in Pending(i + 1) <=> j \in 1..i /\ program[j].op \in Opening /\ i + 1 <= End(program, j)
    BY <1>1 DEF Pending
  <2>3. j \in 1..i /\ program[j].op \in Opening => (i + 1 <= End(program, j) <=> i < End(program, j))
    BY <1>1, <1>3
  <2> QED
    BY <2>1, <2>2, <2>3 DEF Enclosing
<1> QED
  BY <1>2, <1>4

\* What ends at an item is the opener, which is what is pending and was opened last.
LEMMA PendingEnds ==
    ASSUME program \in Programs, at \in Items, program[at].op = "end"
    PROVE  /\ opener \in Pending(at) /\ Pending(at + 1) = Pending(at) \ {opener}
           /\ \A j \in Pending(at) : j <= opener
<1>1. at \in Nat /\ at >= 1 /\ at + 1 - 1 = at /\ at \in Int
  BY Bracketed DEF Items
<1>2. PICK q \in 1..(at - 1) : program[q].op \in Opening /\ Ends(program, q, at)
  BY EndsOpening
<1>3. q \in Items /\ q < at /\ q \in Int /\ \A k \in q..at : Balance(q, k) = 0 <=> k = at
  <2>1. q \in Items /\ q < at /\ q \in Int
    BY <1>1, <1>2, Bracketed DEF Items
  <2> QED
    BY <1>2, <2>1, EndsBalance
<1>4. End(program, q) = at
  <2>1. End(program, q) \in Items /\ Ends(program, q, End(program, q))
    BY <1>2, <1>3, OpeningEnds
  <2> QED
    BY <1>2, <1>3, <2>1, EndsOnce
<1>5. ASSUME NEW j \in Items, program[j].op \in Opening
      PROVE  End(program, j) \in Nat /\ j \in Nat /\ (q < j /\ j < at => End(program, j) < at) /\ (j < q => End(program, j) < q \/ at < End(program, j))
  <2>1. End(program, j) \in Items /\ Ends(program, j, End(program, j))
    BY <1>5, OpeningEnds
  <2>2. End(program, j) \in Nat /\ j \in Nat
    BY <1>5, <2>1, Bracketed DEF Items
  <2>3. q < j /\ j < at => End(program, j) < at
    BY <1>2, <1>3, <1>4, <1>5, EndsNest
  <2>4. ASSUME j < q PROVE End(program, j) < q \/ at < End(program, j)
    <3>1. q < End(program, j) => at < End(program, j)
      BY <1>2, <1>3, <1>4, <1>5, <2>4, EndsNest
    <3>2. End(program, j) # q
      BY <1>2, <2>1 DEF Ends, Opening
    <3> QED
      BY <1>3, <2>2, <3>1, <3>2
  <2> QED
    BY <2>2, <2>3, <2>4
<1>6. q \in Pending(at) /\ \A j \in Pending(at) : j <= q
  <2>1. q \in Pending(at)
    BY <1>1, <1>2, <1>4 DEF Pending
  <2>2. ASSUME NEW j \in Pending(at) PROVE j <= q
    <3>1. j \in Items /\ program[j].op \in Opening /\ j < at /\ at <= End(program, j)
      BY <1>1, PendingItems, Bracketed DEF Pending, Items
    <3>2. End(program, j) \in Nat /\ j \in Nat /\ (q < j /\ j < at => End(program, j) < at)
      BY <1>5, <3>1
    <3> QED
      BY <1>1, <1>3, <3>1, <3>2
  <2> QED
    BY <2>1, <2>2
<1>7. Pending(at + 1) = Pending(at) \ {q}
  <2>1. ASSUME NEW j PROVE j \in Pending(at + 1) <=> j \in Pending(at) /\ j # q
    <3>1. j \in Pending(at + 1) <=> j \in 1..at /\ program[j].op \in Opening /\ at + 1 <= End(program, j)
      BY <1>1 DEF Pending
    <3>2. j \in Pending(at) <=> j \in 1..(at - 1) /\ program[j].op \in Opening /\ at <= End(program, j)
      BY DEF Pending
    <3>3. j \in 1..at /\ program[j].op \in Opening <=> j \in 1..(at - 1) /\ program[j].op \in Opening
      BY <1>1 DEF Opening
    <3>4. ASSUME j \in 1..(at - 1), program[j].op \in Opening PROVE at + 1 <= End(program, j) <=> at <= End(program, j) /\ j # q
      <4>1. j \in Items /\ j < at /\ j \in Nat
        BY <1>1, <3>4, Bracketed DEF Items
      <4>2. End(program, j) \in Nat /\ (q < j /\ j < at => End(program, j) < at) /\ (j < q => End(program, j) < q \/ at < End(program, j))
        BY <1>5, <3>4, <4>1
      <4> QED
        BY <1>1, <1>3, <1>4, <4>1, <4>2
    <3> QED
      BY <3>1, <3>2, <3>3, <3>4
  <2> QED
    BY <2>1
<1>8. opener = q
  <2> DEFINE S == {i \in Items : i < at /\ program[i].op \in Opening
                                 /\ Opened(program, i, at) = Closed(program, i, at)}
  <2>1. ASSUME NEW i \in Items PROVE Opened(program, i, at) = Closed(program, i, at) <=> Balance(i, at) = 0
    <3>1. i \in Int
      BY Bracketed DEF Items
    <3>2. /\ Opened(program, i, at) \in Nat /\ Closed(program, i, at) \in Nat
          /\ Balance(i, at) = Opened(program, i, at) - Closed(program, i, at)
      BY <1>1, <3>1, BalanceCounts
    <3> QED
      BY <3>2
  <2>2. q \in S
    <3>1. at \in q..at
      BY <1>1, <1>3
    <3> QED
      BY <1>2, <1>3, <2>1, <3>1
  <2>3. ASSUME NEW i \in S PROVE i <= q
    <3>1. i \in Int /\ i \in Items /\ i < at /\ Balance(i, at) = 0
      BY <2>1, Bracketed DEF Items
    <3>2. CASE q < i
      <4>1. i - 1 \in Int /\ q <= i - 1 + 1 /\ i - 1 <= at /\ i - 1 + 1 = i
        BY <1>1, <1>3, <3>1, <3>2
      <4>2. /\ Balance(q, at) = Balance(q, i - 1) + Balance(i - 1 + 1, at)
            /\ Balance(q, at) \in Int /\ Balance(q, i - 1) \in Int /\ Balance(i - 1 + 1, at) \in Int
        BY <1>1, <1>3, <4>1, BalanceSplit
      <4>3. at \in q..at /\ i - 1 \in q..at /\ i - 1 # at
        BY <1>1, <1>3, <3>1, <3>2
      <4>4. Balance(q, at) = 0 /\ Balance(q, i - 1) # 0
        BY <1>3, <4>3
      <4> QED
        BY <3>1, <4>1, <4>2, <4>4
    <3> QED
      BY <1>3, <3>1, <3>2
  <2>4. S \subseteq Int
    BY Bracketed DEF Items
  <2>5. Max(S) = q
    <3> HIDE DEF S
    <3>1. \A z \in S : q >= z
      BY <2>2, <2>3, <2>4
    <3>2. \A x \in S : (\A z \in S : x >= z) => x = q
      BY <2>2, <2>4, <3>1
    <3> QED
      BY <2>2, <3>1, <3>2 DEF Max
  <2> QED
    BY <2>5 DEF opener
<1> QED
  BY <1>6, <1>7, <1>8

\* How long the path is and from where on it is not absolute.
LEMMA NumbersCounted ==
    ASSUME NEW m \in Nat, NEW P, P \subseteq 1..m
    PROVE  IsFiniteSet(P) /\ Cardinality(P) \in Nat /\ Cardinality(P) <= m
<1>1. 1 \in Int /\ m \in Int
  OBVIOUS
<1>2. IsFiniteSet(1..m) /\ Cardinality(1..m) = IF 1 > m THEN 0 ELSE m - 1 + 1
  BY <1>1, FS_Interval
<1>3. Cardinality(1..m) = m
  BY <1>2
<1>4. P \in SUBSET (1..m)
  OBVIOUS
<1>5. IsFiniteSet(P) /\ Cardinality(P) <= Cardinality(1..m)
  BY <1>2, <1>4, FS_Subset
<1> QED
  BY <1>3, <1>5, FS_CardinalityType

\* Paths are absolute where no definition is pending.
LEMMA MeasuredFrom ==
    ASSUME Len(program) \in Nat, NEW m \in 0..Len(program), NEW P, P \subseteq 1..m,
           NEW length, NEW from, Measured(P, length, from)
    PROVE  /\ length \in Nat /\ from \in Nat /\ length <= m
           /\ Definitions(P) = {} => from = Len(program) + 1
           /\ Definitions(P) # {} => from <= length
           /\ length < from <=> Definitions(P) = {}
<1>1. OnPath(P) \subseteq 1..m
  BY DEF OnPath
<1>2. length \in Nat /\ length <= m /\ IsFiniteSet(OnPath(P))
  BY <1>1, NumbersCounted DEF Measured
<1>3. CASE Definitions(P) = {}
  BY <1>2, <1>3 DEF Measured
<1>4. CASE Definitions(P) # {}
  <2>1. PICK d \in Definitions(P) : from = Cardinality({j \in OnPath(P) : j <= d})
    BY <1>4 DEF Measured
  <2>2. {j \in OnPath(P) : j <= d} \subseteq 1..m /\ {j \in OnPath(P) : j <= d} \in SUBSET OnPath(P)
    BY <1>1
  <2>3. from \in Nat
    BY <2>1, <2>2, NumbersCounted
  <2>4. from <= length
    BY <1>2, <2>1, <2>2, FS_Subset DEF Measured
  <2> QED
    BY <1>2, <1>4, <2>3, <2>4
<1> QED
  BY <1>3, <1>4

\* pushPathPart, and what a block leaves as it is.
LEMMA MeasuredOpens ==
    ASSUME Len(program) \in Nat, NEW i \in Items, program[i].op \in Opening,
           NEW P, P \subseteq 1..(i - 1), NEW length, NEW from, Measured(P, length, from),
           NEW longer, longer = IF program[i].op = "block" THEN length ELSE length + 1,
           NEW first, first = IF program[i].op = "def" /\ longer < from THEN longer ELSE from
    PROVE  Measured(P \cup {i}, longer, first)
<1> DEFINE Q == P \cup {i}
           n == Len(program)
<1>1. /\ i \in Nat /\ i - 1 \in 0..n /\ i - 1 \in Nat /\ i <= n /\ i \notin P
      /\ \A j \in P : j \in Nat /\ j < i
      /\ \A j \in Q : j <= i
  BY DEF Items
<1>2. /\ length \in Nat /\ from \in Nat /\ length <= i - 1
      /\ Definitions(P) = {} => from = n + 1
      /\ Definitions(P) # {} => from <= length
  BY <1>1, MeasuredFrom
<1>3. /\ OnPath(Q) = IF program[i].op = "block" THEN OnPath(P) ELSE OnPath(P) \cup {i}
      /\ Definitions(Q) = IF program[i].op = "def" THEN Definitions(P) \cup {i} ELSE Definitions(P)
      /\ i \notin OnPath(P)
  BY <1>1 DEF OnPath, Definitions
<1>4. longer = Cardinality(OnPath(Q))
  <2>1. IsFiniteSet(OnPath(P)) /\ length = Cardinality(OnPath(P))
    <3>1. OnPath(P) \subseteq 1..(i - 1)
      BY DEF OnPath
    <3> QED
      BY <1>1, <3>1, NumbersCounted DEF Measured
  <2> QED
    BY <1>3, <2>1, FS_AddElement
<1>5. CASE Definitions(P) = {} /\ program[i].op # "def"
  BY <1>2, <1>3, <1>4, <1>5 DEF Measured
<1>6. CASE Definitions(P) = {} /\ program[i].op = "def"
  <2>1. longer = length + 1 /\ first = longer
    BY <1>1, <1>2, <1>6
  <2>2. Definitions(Q) = {i}
    BY <1>3, <1>6
  <2>3. {j \in OnPath(Q) : j <= i} = OnPath(Q)
    <3>1. \A j \in OnPath(Q) : j <= i
      BY <1>1 DEF OnPath
    <3> QED
      BY <3>1
  <2>4. i \in Definitions(Q) /\ (\A e \in Definitions(Q) : i <= e) /\ first = Cardinality({j \in OnPath(Q) : j <= i})
    <3>1. \A e \in {i} : i <= e
      BY <1>1
    <3> QED
      BY <1>4, <2>1, <2>2, <2>3, <3>1
  <2> QED
    BY <1>4, <2>4 DEF Measured
<1>7. CASE Definitions(P) # {}
  <2>1. first = from
    BY <1>2, <1>7
  <2>2. PICK d \in Definitions(P) : /\ \A e \in Definitions(P) : d <= e
                                    /\ from = Cardinality({j \in OnPath(P) : j <= d})
    BY <1>7 DEF Measured
  <2>3. d \in P /\ d < i /\ d \in Nat
    BY <1>1 DEF Definitions
  <2>4. {j \in OnPath(Q) : j <= d} = {j \in OnPath(P) : j <= d}
    BY <1>1, <1>3, <2>3
  <2>5. d \in Definitions(Q) /\ \A e \in Definitions(Q) : d <= e
    <3>1. d <= i
      BY <1>1, <2>3
    <3>2. \A e \in Definitions(P) \cup {i} : d <= e
      BY <2>2, <3>1
    <3>3. Definitions(Q) \subseteq Definitions(P) \cup {i} /\ Definitions(P) \subseteq Definitions(Q)
      BY <1>3
    <3> QED
      BY <3>2, <3>3
  <2> QED
    BY <1>4, <2>1, <2>2, <2>4, <2>5 DEF Measured
<1> QED
  BY <1>5, <1>6, <1>7

\* popPathPart, of what was opened last.
LEMMA MeasuredEnds ==
    ASSUME Len(program) \in Nat, NEW m \in 0..Len(program), NEW P, P \subseteq 1..m,
           NEW q \in P, \A j \in P : j <= q,
           NEW length, NEW from, Measured(P, length, from),
           NEW shorter, shorter = IF program[q].op = "block" THEN length ELSE length - 1,
           NEW first, first = IF shorter < from THEN Len(program) + 1 ELSE from
    PROVE  Measured(P \ {q}, shorter, first)
<1> DEFINE Q == P \ {q}
           n == Len(program)
<1>1. m \in Nat /\ q \in Nat /\ q >= 1 /\ \A j \in P : j \in Nat
  OBVIOUS
<1>2. /\ length \in Nat /\ from \in Nat /\ length <= m
      /\ Definitions(P) = {} => from = n + 1
      /\ Definitions(P) # {} => from <= length
  BY MeasuredFrom
<1>3. /\ OnPath(Q) = IF program[q].op = "block" THEN OnPath(P) ELSE OnPath(P) \ {q}
      /\ Definitions(Q) = Definitions(P) \ {q}
      /\ program[q].op # "block" => q \in OnPath(P)
  BY DEF OnPath, Definitions
<1>4. IsFiniteSet(OnPath(P)) /\ length = Cardinality(OnPath(P))
  <2>1. OnPath(P) \subseteq 1..m
    BY DEF OnPath
  <2> QED
    BY <1>1, <2>1, NumbersCounted DEF Measured
<1>5. shorter = Cardinality(OnPath(Q)) /\ shorter \in Int
  <2>1. shorter = Cardinality(OnPath(Q))
    BY <1>3, <1>4, FS_RemoveElement
  <2> QED
    BY <1>2, <2>1
<1>6. CASE Definitions(P) = {}
  <2>1. first = n + 1
    BY <1>2, <1>6
  <2> QED
    BY <1>3, <1>5, <1>6, <2>1 DEF Measured
<1>7. CASE Definitions(P) # {}
  <2>1. PICK d \in Definitions(P) : /\ \A e \in Definitions(P) : d <= e
                                    /\ from = Cardinality({j \in OnPath(P) : j <= d})
    BY <1>7 DEF Measured
  <2>2. d \in P /\ program[d].op = "def" /\ d <= q /\ d \in Nat
    BY <1>1 DEF Definitions
  <2>3. CASE d = q
    <3>1. {j \in OnPath(P) : j <= d} = OnPath(P)
      BY <2>3 DEF OnPath
    <3>2. first = n + 1
      <4>1. from = length
        BY <1>4, <2>1, <3>1
      <4>2. shorter = length - 1
        BY <2>2, <2>3
      <4> QED
        BY <1>2, <4>1, <4>2
    <3>3. Definitions(Q) = {}
      <4>1. ASSUME NEW e \in Definitions(P) PROVE e = q
        <5>1. e \in P /\ e <= q /\ q <= e /\ e \in Nat
          BY <1>1, <2>1, <2>3 DEF Definitions
        <5> QED
          BY <1>1, <5>1
      <4> QED
        BY <1>3, <4>1
    <3> QED
      BY <1>5, <3>2, <3>3 DEF Measured
  <2>4. CASE d # q
    <3>1. d < q
      BY <1>1, <2>2, <2>4
    <3>2. {j \in OnPath(Q) : j <= d} = {j \in OnPath(P) : j <= d}
      <4>1. ~ (q <= d)
        BY <1>1, <2>2, <3>1
      <4>2. OnPath(Q) = OnPath(P) \/ OnPath(Q) = OnPath(P) \ {q}
        BY <1>3
      <4> QED
        BY <4>1, <4>2
    <3>3. from <= Cardinality(OnPath(Q))
      <4>1. IsFiniteSet(OnPath(Q)) /\ {j \in OnPath(Q) : j <= d} \in SUBSET OnPath(Q)
        BY <1>3, <1>4, FS_RemoveElement
      <4> QED
        BY <2>1, <3>2, <4>1, FS_Subset
    <3>4. first = from
      BY <1>2, <1>5, <3>3
    <3>5. d \in Definitions(Q) /\ \A e \in Definitions(Q) : d <= e
      BY <1>3, <2>1, <2>4
    <3> QED
      BY <1>5, <2>1, <3>2, <3>4, <3>5 DEF Measured
  <2> QED
    BY <2>3, <2>4
<1> QED
  BY <1>6, <1>7

----------------------------------------------------------------------------
(* Absolute names *)

\* What is about the program alone stays as it is, like the program.
LEMMA ProgramStays ==
    ASSUME UNCHANGED program
    PROVE  /\ Pending(at)' = Pending(at')
           /\ \A i : Global(i)' <=> Global(i)
BY DEF Pending, Global, Enclosing

LEMMA DepthNext ==
    ASSUME program \in Programs, UNCHANGED program, at \in Items, at' = at + 1,
           Measured(Pending(at + 1), depth', invalidFrom')
    PROVE  DepthInvariant'
<1>1. at' \in 1..(Len(program') + 1)
  BY Bracketed DEF Items
<1>2. Pending(at)' = Pending(at + 1)
  BY ProgramStays
<1>3. Measured(Pending(at), depth, invalidFrom)'
  BY <1>2 DEF Measured, OnPath, Definitions
<1> QED
  BY <1>1, <1>3 DEF DepthInvariant

\* The items of pushPathPart and of blocks, of popPathPart, and the others.
LEMMA DepthKeptOpening ==
    ASSUME program \in Programs, DepthInvariant, UNCHANGED program, at \in Items, at' = at + 1,
           item.op \in Opening,
           depth' = IF item.op = "block" THEN depth ELSE depth + 1,
           invalidFrom' = IF item.op = "def" /\ depth' < invalidFrom THEN depth' ELSE invalidFrom
    PROVE  DepthInvariant'
<1>1. Len(program) \in Nat /\ at \in 1..(Len(program) + 1)
  BY Bracketed DEF DepthInvariant
<1>2. Pending(at) \subseteq 1..(at - 1) /\ Measured(Pending(at), depth, invalidFrom)
  BY <1>1, PendingItems DEF DepthInvariant
<1>3. program[at].op \in Opening
  BY DEF item
<1>4. Measured(Pending(at) \cup {at}, depth', invalidFrom')
  BY <1>1, <1>2, <1>3, MeasuredOpens DEF item
<1>5. Measured(Pending(at + 1), depth', invalidFrom')
  BY <1>3, <1>4, PendingOpens
<1> QED
  BY <1>5, DepthNext

LEMMA DepthKeptEnding ==
    ASSUME program \in Programs, DepthInvariant, UNCHANGED program, at \in Items, at' = at + 1,
           item.op = "end",
           depth' = IF program[opener].op = "block" THEN depth ELSE depth - 1,
           invalidFrom' = IF depth' < invalidFrom THEN Len(program) + 1 ELSE invalidFrom
    PROVE  DepthInvariant'
<1>1. Len(program) \in Nat /\ at \in 1..(Len(program) + 1) /\ at - 1 \in 0..Len(program)
  BY Bracketed DEF Items
<1>2. Pending(at) \subseteq 1..(at - 1) /\ Measured(Pending(at), depth, invalidFrom)
  BY <1>1, PendingItems DEF DepthInvariant
<1>3. program[at].op = "end"
  BY DEF item
<1>4. /\ opener \in Pending(at) /\ Pending(at + 1) = Pending(at) \ {opener}
      /\ \A j \in Pending(at) : j <= opener
  BY <1>3, PendingEnds
<1>5. Measured(Pending(at) \ {opener}, depth', invalidFrom')
  BY <1>1, <1>2, <1>4, MeasuredEnds
<1> QED
  BY <1>4, <1>5, DepthNext

LEMMA DepthKeptOthers ==
    ASSUME program \in Programs, DepthInvariant, UNCHANGED program, at \in Items, at' = at + 1,
           item.op \notin Opening \cup {"end"}, UNCHANGED <<depth, invalidFrom>>
    PROVE  DepthInvariant'
<1>1. Measured(Pending(at), depth', invalidFrom')
  BY DEF DepthInvariant
<1>2. Pending(at + 1) = Pending(at)
  BY PendingStays DEF item
<1> QED
  BY <1>1, <1>2, DepthNext

LEMMA GenerationKeepsDepth ==
    ASSUME program \in Programs, DepthInvariant, Generate, ~ GenerationEnds
    PROVE  DepthInvariant' /\ at \in Items /\ at' = at + 1 /\ UNCHANGED program
<1>1. ASSUME NEW op, Generating(op), Advance
      PROVE  at \in Items /\ at' = at + 1 /\ UNCHANGED program /\ item.op = op
  BY <1>1 DEF Generating, Meets, Advance
<1>2. CASE GenerateModule
  BY <1>1, <1>2, DepthKeptOpening DEF GenerateModule, Opening
<1>3. CASE GenerateClass
  BY <1>1, <1>3, DepthKeptOpening DEF GenerateClass, Opening
<1>4. CASE GenerateDef
  <2>1. Generating("def") /\ Advance /\ depth' = depth + 1
    BY <1>4 DEF GenerateDef
  <2>2. invalidFrom' = IF depth' < invalidFrom THEN depth' ELSE invalidFrom
    BY <1>4 DEF GenerateDef
  <2> QED
    BY <1>1, <2>1, <2>2, DepthKeptOpening DEF Opening
<1>5. CASE GenerateBlock
  BY <1>1, <1>5, DepthKeptOpening DEF GenerateBlock, Opening, generationVars
<1>6. CASE GenerateEnd
  <2>1. /\ Generating("end") /\ Advance
        /\ depth' = IF program[opener].op = "block" THEN depth ELSE depth - 1
        /\ invalidFrom' = IF depth' < invalidFrom THEN Len(program) + 1 ELSE invalidFrom
    BY <1>6 DEF GenerateEnd
  <2> QED
    BY <1>1, <2>1, DepthKeptEnding
<1>7. CASE GenerateAlias \/ GenerateVar \/ GenerateUse
  <2>1. PICK op \in {"alias", "var", "use"} : Generating(op) /\ Advance /\ UNCHANGED <<depth, invalidFrom>>
    BY <1>7 DEF GenerateAlias, GenerateVar, GenerateUse, generationVars
  <2>2. op \notin Opening \cup {"end"}
    BY DEF Opening
  <2> QED
    BY <1>1, <2>1, <2>2, DepthKeptOthers
<1> QED
  BY <1>2, <1>3, <1>4, <1>5, <1>6, <1>7 DEF Generate

\* Where a path is absolute, no definition is around the item.
LEMMA AbsoluteIsGlobal ==
    ASSUME program \in Programs, DepthInvariant, at \in Items, item.op # "end"
    PROVE  isValidAbsolutePath <=> Global(at)
<1>1. Len(program) \in Nat /\ at \in 1..(Len(program) + 1) /\ at - 1 \in 0..Len(program)
  BY Bracketed DEF Items
<1>2. Pending(at) \subseteq 1..(at - 1) /\ Measured(Pending(at), depth, invalidFrom)
  BY <1>1, PendingItems DEF DepthInvariant
<1>3. depth < invalidFrom <=> Definitions(Pending(at)) = {}
  BY <1>1, <1>2, MeasuredFrom
<1>4. Pending(at) = Enclosing(program, at)
  BY PendingEncloses DEF item
<1> QED
  BY <1>3, <1>4 DEF isValidAbsolutePath, Global, Definitions

\* No symbol is added, and no name.
LEMMA NamesStay ==
    ASSUME NamesInvariant, UNCHANGED <<program, absolute>>, AllSymbols' \subseteq AllSymbols
    PROVE  \A e \in AllSymbols' : e.type # "VAR" => (e.decl \in absolute' <=> Global(e.decl)')
<1>1. \A i : Global(i)' <=> Global(i)
  BY ProgramStays
<1> QED
  BY <1>1 DEF NamesInvariant

\* A symbol is added, if at all, for the item visited, and a name unless that is
\* a variable.
LEMMA OneNamed ==
    ASSUME program \in Programs, TablesInvariant, NamesInvariant, UNCHANGED program,
           pass = "generate", at \in Items, item.op # "end",
           NEW e, e.decl = at, AllSymbols' \subseteq AllSymbols \cup {e},
           (e.type = "VAR" /\ UNCHANGED absolute) \/ NameAbsolutely
    PROVE  \A f \in AllSymbols' : f.type # "VAR" => (f.decl \in absolute' <=> Global(f.decl)')
<1>1. \A i : Global(i)' <=> Global(i)
  BY ProgramStays
<1>2. isValidAbsolutePath <=> Global(at)
  BY AbsoluteIsGlobal DEF NamesInvariant
<1>3. at \in Nat /\ absolute \subseteq 1..(at - 1) /\ at \notin absolute
  BY Bracketed DEF NamesInvariant, Items
<1>4. ASSUME NEW f \in AllSymbols, f.type # "VAR" PROVE f.decl \in absolute' <=> Global(f.decl)
  <2>1. f.decl \in Items /\ f.decl < at
    BY DEF TablesInvariant
  <2>2. f.decl # at
    BY <1>3, <2>1, Bracketed DEF Items
  <2>3. f.decl \in absolute' <=> f.decl \in absolute
    BY <2>2 DEF NameAbsolutely
  <2> QED
    BY <1>4, <2>3 DEF NamesInvariant
<1>5. ASSUME e.type # "VAR" PROVE e.decl \in absolute' <=> Global(e.decl)
  <2>1. absolute' = absolute \cup (IF isValidAbsolutePath THEN {at} ELSE {})
    BY <1>5 DEF NameAbsolutely
  <2>2. at \in absolute' <=> isValidAbsolutePath
    BY <1>3, <2>1
  <2> QED
    BY <1>2, <2>2
<1> QED
  BY <1>1, <1>4, <1>5

\* What a declaration adds to the symbols.
LEMMA DeclaredSymbols ==
    ASSUME TablesInvariant,
           NEW sc, sc = scopes \/ \E p, d : sc = With(scopes, at, NewScope(p, d)),
           NEW s, NEW n, NEW e, scopes' = sc \/ (n \in Name /\ scopes' = AddEntry(sc, s, n, e))
    PROVE  AllSymbols' \subseteq AllSymbols \cup {e}
<1> DEFINE S == AllIn(scopes) \cup {e}
<1>1. IsTable(scopes, S) /\ e \in S
  BY Tables, MoreSymbols
<1> HIDE DEF S
<1>2. Grown(S, scopes, e, scopes')
  <2>1. sc = scopes \/ \E p, d : sc = With(scopes, at, NewScope(p, d))
    OBVIOUS
  <2> QED
    BY <1>1, <2>1, DeclaredTable
<1>3. AllSymbols' = AllIn(scopes') /\ AllSymbols = AllIn(scopes)
  BY DEF AllSymbols, AllIn, Symbols, SymbolsIn
<1> QED
  BY <1>2, <1>3 DEF Grown

LEMMA GenerationNames ==
    ASSUME program \in Programs, TablesInvariant, NamesInvariant, Generate, ~ GenerationEnds, UNCHANGED program
    PROVE  /\ \A e \in AllSymbols' : e.type # "VAR" => (e.decl \in absolute' <=> Global(e.decl)')
           /\ UNCHANGED absolute \/ NameAbsolutely
<1>1. ASSUME NEW op \in {"module", "class", "alias", "def", "var", "block"}, Generating(op), NEW type, NEW owner,
             NEW constructor, NEW sc, sc = scopes \/ \E isDefScope : sc = Nested(isDefScope),
             scopes' = sc \/ (op # "block" /\ scopes' = Declared(sc, type, owner, constructor)),
             (type = "VAR" /\ UNCHANGED absolute) \/ NameAbsolutely
      PROVE  \A e \in AllSymbols' : e.type # "VAR" => (e.decl \in absolute' <=> Global(e.decl)')
  <2> DEFINE e == Symbol(at, type, owner, constructor)
  <2>1. at \in Items /\ item.op = op /\ pass = "generate" /\ (op # "block" => item.name \in Name)
    BY <1>1, NamesOfItems DEF Generating, Meets, item
  <2>2. e.decl = at /\ e.type = type
    BY DEF Symbol
  <2>3. sc = scopes \/ \E p, d : sc = With(scopes, at, NewScope(p, d))
    BY <1>1 DEF Nested
  <2>4. scopes' = sc \/ (item.name \in Name /\ scopes' = AddEntry(sc, curScope, item.name, e))
    BY <1>1, <2>1 DEF Declared
  <2> HIDE DEF e
  <2>5. AllSymbols' \subseteq AllSymbols \cup {e}
    BY <2>3, <2>4, DeclaredSymbols
  <2>6. (e.type = "VAR" /\ UNCHANGED absolute) \/ NameAbsolutely
    BY <1>1, <2>2
  <2> QED
    BY <2>1, <2>2, <2>5, <2>6, OneNamed
<1>2. ASSUME UNCHANGED scopes, UNCHANGED absolute
      PROVE  \A e \in AllSymbols' : e.type # "VAR" => (e.decl \in absolute' <=> Global(e.decl)')
  <2>1. AllSymbols' = AllSymbols
    BY <1>2 DEF AllSymbols, Symbols
  <2> QED
    BY <1>2, <2>1, NamesStay
<1>3. CASE GenerateModule
  <2>1. Generating("module")
    BY <1>3 DEF GenerateModule
  <2>2. \/ UNCHANGED scopes /\ UNCHANGED absolute
        \/ scopes' = Declared(Nested(FALSE), "MODULE", 0, FALSE) /\ NameAbsolutely
    BY <1>3 DEF GenerateModule
  <2> QED
    BY <1>1, <1>2, <2>1, <2>2
<1>4. CASE GenerateClass
  <2>1. Generating("class") /\ scopes' = Declared(Nested(this # 0), "TPE", 0, FALSE) /\ NameAbsolutely
    BY <1>4 DEF GenerateClass
  <2> QED
    BY <1>1, <2>1
<1>5. CASE GenerateAlias
  <2>1. Generating("alias") /\ scopes' = Declared(scopes, "TPE", 0, FALSE) /\ NameAbsolutely
    BY <1>5 DEF GenerateAlias
  <2> QED
    BY <1>1, <2>1
<1>6. CASE GenerateDef
  <2>1. PICK owner \in {IF item.flag = "static" THEN 0 ELSE this} :
          scopes' = Declared(Nested(owner = 0), "DEF", owner, item.flag = "constructor")
    BY <1>6 DEF GenerateDef
  <2>2. Generating("def") /\ NameAbsolutely
    BY <1>6 DEF GenerateDef
  <2> QED
    BY <1>1, <2>1, <2>2
<1>7. CASE GenerateVar
  <2>1. Generating("var") /\ scopes' = Declared(scopes, "VAR", 0, FALSE) /\ UNCHANGED absolute
    BY <1>7 DEF GenerateVar, generationVars
  <2> QED
    BY <1>1, <2>1
<1>8. CASE GenerateBlock
  <2> DEFINE sc == Nested(FALSE)
  <2>1. Generating("block") /\ scopes' = sc /\ UNCHANGED absolute /\ \E isDefScope : sc = Nested(isDefScope)
    BY <1>8 DEF GenerateBlock, generationVars
  <2> HIDE DEF sc
  <2> QED
    BY <1>1, <2>1
<1>9. CASE GenerateUse \/ GenerateEnd
  BY <1>2, <1>9 DEF GenerateUse, GenerateEnd, generationVars
<1>10. UNCHANGED absolute \/ NameAbsolutely
  BY DEF Generate, GenerateModule, GenerateClass, GenerateAlias, GenerateDef, GenerateBlock, GenerateVar,
         GenerateUse, GenerateEnd, generationVars
<1> QED
  BY <1>3, <1>4, <1>5, <1>6, <1>7, <1>8, <1>9, <1>10 DEF Generate

LEMMA GenerationKeepsNames ==
    ASSUME program \in Programs, TablesInvariant, NamesInvariant, Generate
    PROVE  NamesInvariant'
<1>1. pass = "generate"
  BY DEF Generate, GenerateModule, GenerateClass, GenerateAlias, GenerateDef, GenerateBlock, GenerateVar,
         GenerateUse, GenerateEnd, GenerationEnds, Generating
<1>2. CASE GenerationEnds
  <2>1. pass' # "generate" /\ UNCHANGED <<program, absolute, scopes>>
    BY <1>2 DEF GenerationEnds, generationVars
  <2>2. AllSymbols' = AllSymbols
    BY <2>1 DEF AllSymbols, Symbols
  <2> QED
    BY <2>1, <2>2, NamesStay DEF NamesInvariant
<1>3. CASE ~ GenerationEnds
  <2>1. DepthInvariant /\ absolute \subseteq 1..(at - 1)
    BY <1>1 DEF NamesInvariant
  <2>2. DepthInvariant' /\ at \in Items /\ at' = at + 1 /\ UNCHANGED program
    BY <1>3, <2>1, GenerationKeepsDepth
  <2>3. /\ \A e \in AllSymbols' : e.type # "VAR" => (e.decl \in absolute' <=> Global(e.decl)')
        /\ UNCHANGED absolute \/ NameAbsolutely
    BY <1>3, <2>2, GenerationNames
  <2>4. absolute' \subseteq absolute \cup {at}
    BY <2>3 DEF NameAbsolutely
  <2>5. at' - 1 = at /\ at \in Nat /\ at >= 1
    BY <2>2, Bracketed DEF Items
  <2>6. absolute' \subseteq 1..(at' - 1)
    BY <2>1, <2>4, <2>5
  <2> QED
    BY <2>2, <2>3, <2>6 DEF NamesInvariant
<1> QED
  BY <1>2, <1>3

\* Afterwards no symbol is new.
LEMMA AssignKeepsSymbols ==
    ASSUME program \in Programs, CallsInvariant, TablesInvariant, Assign
    PROVE  AllSymbols' \subseteq AllSymbols /\ UNCHANGED <<program, absolute>> /\ pass' # "generate"
<1>1. Len(program) \in Nat
  BY NamesOfItems
<1>2. ASSUME UNCHANGED scopes PROVE AllSymbols' \subseteq AllSymbols
  BY <1>2 DEF AllSymbols, Symbols
<1>3. CASE AssignModule \/ AssignBlock
  <2>1. PICK s \in {scopeOf[at], at} : Use(s) /\ Continue /\ pass = "assign"
    BY <1>3 DEF AssignModule, AssignBlock, Assigning
  <2>2. UNCHANGED <<program, pass, absolute>>
    BY <2>1 DEF Continue, generationVars
  <2>3. AllSymbols' = AllSymbols
    BY <1>1, <2>1, <2>2, UseKeepsTables
  <2> QED
    BY <2>1, <2>2, <2>3
<1>4. CASE AssignDef \/ AssignVar \/ AssignName \/ AssignClass \/ VisitParent \/ AssignEnd \/ AnalysisEnds
  <2>1. UNCHANGED <<program, absolute, scopes>> /\ pass' # "generate"
    BY <1>4 DEF AssignDef, AssignVar, AssignName, AssignClass, VisitParent, AssignEnd, AnalysisEnds, Assigning,
                Continue, generationVars
  <2> QED
    BY <1>2, <2>1
<1>5. CASE ResolveParent
  <2>1. UNCHANGED <<program, pass, absolute, scopes>> /\ pass # "generate"
    BY <1>5 DEF ResolveParent, Resolved, ParentRead, TablesInvariant, generationVars
  <2> QED
    BY <1>2, <2>1
<1>6. CASE InheritFrom
  <2>1. UNCHANGED <<program, pass, absolute>> /\ pass # "generate"
    BY <1>6 DEF InheritFrom, TablesInvariant, generationVars
  <2> QED
    BY <1>6, <2>1, InheritKeepsTables
<1> QED
  BY <1>3, <1>4, <1>5, <1>6 DEF Assign

LEMMA NamesKept ==
    ASSUME AbsoluteInvariant, [Next]_vars
    PROVE  AbsoluteInvariant'
<1>1. program \in Programs /\ CallsInvariant /\ TablesInvariant /\ NamesInvariant
  BY DEF AbsoluteInvariant, InheritanceInvariant, SupersInvariant
<1>2. InheritanceInvariant'
  BY InheritanceKept DEF AbsoluteInvariant
<1>3. CASE Generate
  BY <1>1, <1>2, <1>3, GenerationKeepsNames DEF AbsoluteInvariant
<1>4. CASE Assign
  <2>1. AllSymbols' \subseteq AllSymbols /\ UNCHANGED <<program, absolute>> /\ pass' # "generate"
    BY <1>1, <1>4, AssignKeepsSymbols
  <2>2. NamesInvariant'
    BY <1>1, <2>1, NamesStay DEF NamesInvariant
  <2> QED
    BY <1>2, <2>2 DEF AbsoluteInvariant
<1>5. CASE Terminated \/ UNCHANGED vars
  <2>1. UNCHANGED <<program, pass, at, scopes, depth, invalidFrom, absolute>>
    BY <1>5 DEF Terminated, vars, generationVars
  <2>2. AllSymbols' = AllSymbols
    BY <2>1 DEF AllSymbols, Symbols
  <2>3. \A e \in AllSymbols' : e.type # "VAR" => (e.decl \in absolute' <=> Global(e.decl)')
    BY <1>1, <2>1, <2>2, NamesStay
  <2>4. DepthInvariant => DepthInvariant'
    <3>1. Pending(at)' = Pending(at)
      BY <2>1, ProgramStays
    <3> QED
      BY <2>1, <3>1 DEF DepthInvariant, Measured, OnPath, Definitions
  <2>5. NamesInvariant'
    BY <1>1, <2>1, <2>3, <2>4 DEF NamesInvariant
  <2> QED
    BY <1>2, <2>5 DEF AbsoluteInvariant
<1> QED
  BY <1>3, <1>4, <1>5 DEF Next

\* For every program, in the end the declarations that have an absolute name are
\* exactly those that no definition encloses, however definitions, blocks,
\* classes and modules nest: pushPathPart and popPathPart keep _symbolPath as
\* long as the declarations around an item, and _invalidFrom at the outermost
\* definition of those.
THEOREM GlobalsNamed == Spec => []AbsoluteIffGlobal
<1>1. Init => AbsoluteInvariant
  <2> SUFFICES ASSUME Init PROVE AbsoluteInvariant
    OBVIOUS
  <2>1. InheritanceInvariant /\ AllSymbols = {} /\ program \in Programs
    BY InheritanceStarts DEF Init
  <2>2. at = 1 /\ depth = 0 /\ invalidFrom = Len(program) + 1 /\ absolute = {}
    BY DEF Init
  <2>3. Pending(at) = {} /\ at \in 1..(Len(program) + 1)
    BY <2>1, <2>2, Bracketed DEF Pending
  <2>4. Measured({}, 0, Len(program) + 1)
    BY FS_EmptySet DEF Measured, OnPath, Definitions
  <2>5. DepthInvariant
    BY <2>2, <2>3, <2>4 DEF DepthInvariant
  <2> QED
    BY <2>1, <2>2, <2>5 DEF AbsoluteInvariant, NamesInvariant
<1>2. AbsoluteInvariant /\ [Next]_vars => AbsoluteInvariant'
  BY NamesKept
<1>3. AbsoluteInvariant => AbsoluteIffGlobal
  BY DEF AbsoluteInvariant, NamesInvariant, AbsoluteIffGlobal, AllSymbols
<1> QED
  BY <1>1, <1>2, <1>3, PTL DEF Spec

----------------------------------------------------------------------------
(* What is open *)

LEMMA GreatestElement ==
    ASSUME NEW m \in Nat, NEW S, S \subseteq 0..m, S # {}
    PROVE  \E x \in S : \A y \in S : y <= x
<1> DEFINE L == {d \in Nat : m - d \in S}
<1>1. PICK x \in S : TRUE
  OBVIOUS
<1>2. x \in Nat /\ x <= m
  BY <1>1
<1>3. m - x \in Nat /\ m - (m - x) = x
  BY <1>2
<1>4. L \in SUBSET Nat /\ L # {}
  BY <1>1, <1>3
<1>5. PICK d \in L : \A c \in L : d <= c
  <2> HIDE DEF L
  <2> QED
    BY <1>4, LeastElement
<1>6. ASSUME NEW y \in S
      PROVE  y <= m - d
  <2>1. y \in Nat /\ y <= m
    OBVIOUS
  <2>2. m - y \in Nat /\ m - (m - y) = y
    BY <2>1
  <2>3. d <= m - y
    BY <1>5, <2>2
  <2> QED
    BY <2>1, <2>3, <1>5
<1> QED
  BY <1>5, <1>6

\* The items around an item are the innermost of them and the items around that.
EnclosedIn(i, p) ==
    /\ p \in 0..(i - 1)
    /\ p = 0 => Enclosing(program, i) = {}
    /\ p # 0 => /\ p \in Items /\ program[p].op \in Opening
                /\ Enclosing(program, i) = Enclosing(program, p) \cup {p}
LEMMA Enclosers ==
    ASSUME program \in Programs, NEW i \in Items
    PROVE  EnclosedIn(i, Encloser(program, i))
<1>1. Len(program) \in Nat /\ i \in 1..Len(program)
  BY Bracketed DEF Items
<1>2. Enclosing(program, i) \subseteq 0..(i - 1) /\ i - 1 \in Nat
  BY <1>1 DEF Enclosing
<1>3. CASE Enclosing(program, i) = {}
  BY <1>1, <1>3 DEF Encloser, EnclosedIn
<1>4. CASE Enclosing(program, i) # {}
  <2> DEFINE p == Encloser(program, i)
  <2>1. \E x \in Enclosing(program, i) : \A y \in Enclosing(program, i) : y <= x
    BY <1>2, <1>4, GreatestElement
  <2>2. \E x \in Enclosing(program, i) : \A y \in Enclosing(program, i) : x >= y
    <3>1. PICK x \in Enclosing(program, i) : \A y \in Enclosing(program, i) : y <= x
      BY <2>1
    <3>2. \A y \in Enclosing(program, i) : x >= y
      BY <3>1, <1>2
    <3> QED
      BY <3>2
  <2>3. p \in Enclosing(program, i) /\ \A y \in Enclosing(program, i) : p >= y
    BY <2>2, <1>4 DEF Encloser, Max
  <2> HIDE DEF p
  <2>4. /\ p \in Items /\ program[p].op \in Opening /\ i < End(program, p)
        /\ p \in 1..(i - 1) /\ p < i /\ p \in Nat /\ End(program, p) \in Items
    <3>1. p \in 1..(i - 1) /\ program[p].op \in Opening /\ i < End(program, p)
      BY <2>3 DEF Enclosing
    <3>2. p \in Items
      BY <3>1, <1>1 DEF Items
    <3> QED
      BY <3>1, <3>2, <1>1, OpeningEnds
  <2>5. ASSUME NEW k \in Enclosing(program, i), k # p
        PROVE  k \in Enclosing(program, p)
    <3>1. k \in 1..(i - 1) /\ program[k].op \in Opening /\ i < End(program, k)
      BY DEF Enclosing
    <3>2. k <= p /\ k < p
      BY <2>3, <2>4, <2>5, <3>1, <1>1
    <3>3. k \in Items
      BY <3>1, <1>1 DEF Items
    <3>4. End(program, k) \in Nat
      BY <3>1, <3>3, OpeningEnds, <1>1 DEF Items
    <3>5. k \in 1..(p - 1) /\ p < End(program, k)
      BY <2>4, <3>1, <3>2, <3>4, <1>1
    <3> QED
      BY <3>1, <3>5 DEF Enclosing
  <2>6. ASSUME NEW k \in Enclosing(program, p)
        PROVE  k \in Enclosing(program, i)
    <3>1. k \in 1..(p - 1) /\ program[k].op \in Opening /\ p < End(program, k)
      BY DEF Enclosing
    <3>2. k \in Items /\ k < p
      BY <3>1, <2>4, <1>1 DEF Items
    <3>3. End(program, p) < End(program, k) /\ End(program, k) \in Nat
      BY <2>4, <3>1, <3>2, EndsNest, OpeningEnds, <1>1 DEF Items
    <3>4. End(program, p) \in Nat
      BY <2>4, <1>1 DEF Items
    <3>5. i < End(program, k) /\ k \in 1..(i - 1)
      BY <3>1, <3>3, <3>4, <2>4, <1>1
    <3> QED
      BY <3>1, <3>5 DEF Enclosing
  <2>7. Enclosing(program, i) = Enclosing(program, p) \cup {p}
    BY <2>3, <2>5, <2>6
  <2>8. EnclosedIn(i, p)
    BY <2>4, <2>7, <1>1 DEF EnclosedIn
  <2> QED
    BY <2>8 DEF p
<1> QED
  BY <1>3, <1>4

\* The last of a chain is the greatest of the items in it, or none.
LEMMA ChainTop ==
    ASSUME NEW P, NEW q, NEW n, Chain(P, q, n), P \subseteq Nat \ {0}
    PROVE  /\ n \in Nat \ {0} /\ q[n] \in P \cup {0}
           /\ \A p \in P : p <= q[n]
           /\ P = {} => n = 1
           /\ P # {} => n >= 2 /\ q[n] \in P
           /\ \A k \in 1..n : q[k] \in P \cup {0}
<1>1. n \in Nat \ {0} /\ q[1] = 0 /\ \A k \in 2..n : q[k] \in P
  BY DEF Chain
<1>2. ASSUME NEW p \in P
      PROVE  p <= q[n] /\ n >= 2
  <2>1. PICK k \in 2..n : q[k] = p
    BY DEF Chain
  <2>2. k \in 1..n /\ n \in 1..n /\ n >= 2 /\ n \in 2..n /\ k \in Int
    BY <1>1
  <2>3. q[n] \in Nat
    BY <2>2, <1>1
  <2>4. k < n => q[k] < q[n]
    BY <2>2 DEF Chain
  <2> QED
    BY <2>1, <2>2, <2>3, <2>4, <1>1
<1>3. \A k \in 1..n : k = 1 \/ k \in 2..n
  BY <1>1
<1>4. \A k \in 1..n : q[k] \in P \cup {0}
  BY <1>1, <1>3
<1>5. n \in 1..n /\ (n >= 2 => n \in 2..n) /\ (n = 1 \/ 2 \in 2..n)
  BY <1>1
<1> QED
  BY <1>1, <1>2, <1>4, <1>5

Longer(q, n, i) == [k \in 1..(n + 1) |-> IF k <= n THEN q[k] ELSE i]
LEMMA ChainGrows ==
    ASSUME NEW P, NEW q, NEW n, Chain(P, q, n), P \subseteq Nat \ {0},
           NEW i \in Nat \ {0}, \A p \in P : p < i
    PROVE  Chain(P \cup {i}, Longer(q, n, i), n + 1)
<1> DEFINE r == [k \in 1..(n + 1) |-> IF k <= n THEN q[k] ELSE i]
<1>1. n \in Nat \ {0} /\ q[1] = 0 /\ \A k \in 1..n : q[k] \in P \cup {0}
  BY ChainTop DEF Chain
<1>2. /\ \A k \in 1..n : r[k] = q[k] /\ k \in 1..(n + 1)
      /\ r[n + 1] = i /\ n + 1 \in 2..(n + 1) /\ 1 \in 1..n
      /\ \A k \in 1..(n + 1) : k \in 1..n \/ k = n + 1
      /\ \A k \in 2..(n + 1) : k \in 2..n \/ k = n + 1
      /\ \A k \in 2..n : k \in 1..n /\ k \in 2..(n + 1)
      /\ n + 1 \in Nat \ {0}
  BY <1>1
<1>3. ASSUME NEW j \in 1..(n + 1), NEW k \in 1..(n + 1), j < k
      PROVE  r[j] < r[k]
  <2>1. j \in 1..n
    BY <1>1, <1>3
  <2>2. CASE k \in 1..n
    <3>1. q[j] < q[k]
      BY <2>1, <2>2, <1>3 DEF Chain
    <3>2. r[j] = q[j] /\ r[k] = q[k]
      BY <2>1, <2>2, <1>2
    <3> HIDE DEF r
    <3> QED
      BY <3>1, <3>2
  <2>3. CASE k = n + 1
    <3>1. r[j] = q[j] /\ r[k] = i /\ q[j] \in P \cup {0}
      BY <2>1, <2>3, <1>1, <1>2
    <3> HIDE DEF r
    <3>2. q[j] \in P => q[j] < i
      OBVIOUS
    <3>3. 0 < i
      OBVIOUS
    <3> QED
      BY <3>1, <3>2, <3>3
  <2> QED
    BY <1>2, <2>2, <2>3
<1>4. \A k \in 2..(n + 1) : r[k] \in P \cup {i}
  BY <1>2 DEF Chain
<1>5. \A p \in P \cup {i} : \E k \in 2..(n + 1) : r[k] = p
  <2> SUFFICES ASSUME NEW p \in P \cup {i}
               PROVE  \E k \in 2..(n + 1) : r[k] = p
    OBVIOUS
  <2>1. CASE p = i
    BY <2>1, <1>2
  <2>2. CASE p \in P
    <3>1. PICK k \in 2..n : q[k] = p
      BY <2>2 DEF Chain
    <3> QED
      BY <3>1, <1>2
  <2> QED
    BY <2>1, <2>2
<1>6. r[1] = 0
  BY <1>1, <1>2
<1> HIDE DEF r
<1>7. Chain(P \cup {i}, r, n + 1)
  BY <1>2, <1>3, <1>4, <1>5, <1>6 DEF Chain
<1> QED
  BY <1>7 DEF r, Longer

Shorter(q, n) == [k \in 1..(n - 1) |-> q[k]]
LEMMA ChainShrinks ==
    ASSUME NEW P, NEW q, NEW n, Chain(P, q, n), P \subseteq Nat \ {0},
           NEW t \in P, \A p \in P : p <= t
    PROVE  /\ n - 1 \in Nat \ {0} /\ q[n] = t
           /\ Chain(P \ {t}, Shorter(q, n), n - 1)
<1> DEFINE r == [k \in 1..(n - 1) |-> q[k]]
<1>1. /\ n \in Nat \ {0} /\ q[1] = 0 /\ n >= 2 /\ q[n] \in P /\ t <= q[n]
      /\ \A k \in 1..n : q[k] \in P \cup {0}
  BY ChainTop DEF Chain
<1>2. q[n] = t
  <2>1. q[n] \in Nat /\ t \in Nat /\ q[n] <= t
    BY <1>1
  <2> QED
    BY <1>1, <2>1
<1>3. /\ n - 1 \in Nat \ {0} /\ 1 \in 1..(n - 1) /\ n \in 1..n
      /\ \A k \in 1..(n - 1) : k \in 1..n /\ k < n /\ r[k] = q[k]
      /\ \A k \in 2..(n - 1) : k \in 2..n /\ k \in 1..(n - 1)
      /\ \A k \in 2..n : k = n \/ k \in 2..(n - 1)
  BY <1>1
<1>4. \A k \in 1..(n - 1) : q[k] < t /\ q[k] # t
  BY <1>1, <1>2, <1>3 DEF Chain
<1>5. \A k \in 2..(n - 1) : r[k] \in P \ {t}
  BY <1>3, <1>4 DEF Chain
<1>6. \A p \in P \ {t} : \E k \in 2..(n - 1) : r[k] = p
  BY <1>2, <1>3 DEF Chain
<1>7. r[1] = 0 /\ \A j, k \in 1..(n - 1) : j < k => r[j] < r[k]
  BY <1>1, <1>3 DEF Chain
<1> HIDE DEF r
<1>8. Chain(P \ {t}, r, n - 1)
  BY <1>3, <1>5, <1>6, <1>7 DEF Chain
<1> QED
  BY <1>2, <1>3, <1>8 DEF r, Shorter

\* The scope and the class that are current are those of the item around.
LEMMA StackTop ==
    ASSUME program \in Programs, StackInvariant, at \in Items, item.op # "end"
    PROVE  /\ curScope = ScopeNumber(Encloser(program, at))
           /\ pass = "generate" => this = ThisOf(Encloser(program, at))
<1> DEFINE n == Len(open)
           e == Encloser(program, at)
<1>1. PICK q \in [1..n -> Pending(at) \cup {0}] : OpenOn(q)
  BY DEF StackInvariant
<1>2. Len(program) \in Nat /\ at \in Nat /\ at \in 1..(Len(program) + 1)
  BY Bracketed DEF Items
<1>3. Pending(at) = Enclosing(program, at)
  BY PendingEncloses DEF item
<1>4. Pending(at) \subseteq Nat \ {0}
  BY <1>2, PendingItems
<1>5. /\ n \in Nat \ {0} /\ q[n] \in Pending(at) \cup {0}
      /\ \A p \in Pending(at) : p <= q[n]
      /\ Pending(at) # {} => q[n] \in Pending(at)
  BY <1>1, <1>4, ChainTop DEF OpenOn
<1>6. EnclosedIn(at, e)
  BY Enclosers
<1>7. q[n] = e
  <2> HIDE DEF n, e
  <2>1. CASE e = 0
    BY <2>1, <1>3, <1>5, <1>6 DEF EnclosedIn
  <2>2. CASE e # 0
    <3>1. e \in Pending(at) /\ \A p \in Pending(at) : p = e \/ p \in Enclosing(program, e)
      BY <2>2, <1>3, <1>6 DEF EnclosedIn
    <3>2. e \in Nat /\ \A p \in Enclosing(program, e) : p \in Nat /\ p <= e
      <4>1. e \in Nat
        BY <3>1, <1>4
      <4> QED
        BY <4>1 DEF Enclosing
    <3>3. q[n] \in Pending(at)
      BY <3>1, <1>5
    <3>4. q[n] \in Nat /\ e <= q[n] /\ q[n] <= e
      BY <3>1, <3>2, <3>3, <1>4, <1>5
    <3> QED
      BY <3>2, <3>4
  <2> QED
    BY <2>1, <2>2
<1>8. Last(open) = open[n] /\ n \in 1..n
  BY <1>5 DEF Last
<1>9. open[n].scope = ScopeNumber(q[n]) /\ (pass = "generate" => this = ThisOf(q[n]))
  BY <1>1, <1>8 DEF OpenOn
<1> QED
  BY <1>7, <1>8, <1>9 DEF curScope

\* What is open next.
LEMMA StackSet ==
    ASSUME UNCHANGED program, at' \in 1..(Len(program) + 1), open' \in Seq([scope : Nat, this : Nat]),
           NEW n, n = Len(open'), NEW P, P = Pending(at'),
           NEW q \in [1..n -> P \cup {0}], Chain(P, q, n),
           \A k \in 1..n : open'[k].scope = ScopeNumber(q[k])',
           pass' = "generate" => this' = ThisOf(q[n]) /\ \A k \in 2..n : open'[k].this = ThisOf(q[k - 1])
    PROVE  StackInvariant'
<1>1. Pending(at)' = P
  BY ProgramStays
<1>2. \A i : ThisOf(i)' = ThisOf(i)
  BY DEF ThisOf, Classes, ItemsOf, Items
<1>3. OpenOn(q)'
  BY <1>1, <1>2 DEF OpenOn, Chain
<1> QED
  BY <1>1, <1>3 DEF StackInvariant

LEMMA StackStays ==
    ASSUME program \in Programs, StackInvariant, UNCHANGED <<program, open, scopeOf>>,
           at' \in 1..(Len(program) + 1), Pending(at') = Pending(at),
           pass' = "generate" => pass = "generate" /\ UNCHANGED this
    PROVE  StackInvariant'
<1> DEFINE n == Len(open)
<1>1. PICK q \in [1..n -> Pending(at) \cup {0}] : OpenOn(q)
  BY DEF StackInvariant
<1>2. \A i : ScopeNumber(i)' = ScopeNumber(i)
  BY DEF ScopeNumber
<1>3. /\ open' \in Seq([scope : Nat, this : Nat]) /\ n = Len(open')
      /\ q \in [1..n -> Pending(at) \cup {0}] /\ Chain(Pending(at), q, n)
      /\ \A k \in 1..n : open'[k].scope = ScopeNumber(q[k])
      /\ pass' = "generate" => this' = ThisOf(q[n]) /\ \A k \in 2..n : open'[k].this = ThisOf(q[k - 1])
  BY <1>1 DEF OpenOn, StackInvariant
<1> HIDE DEF n
<1>4. \A k \in 1..n : open'[k].scope = ScopeNumber(q[k])'
  BY <1>2, <1>3
<1> QED
  BY <1>3, <1>4, StackSet

LEMMA StackGrows ==
    ASSUME program \in Programs, StackInvariant, UNCHANGED <<program, pass>>,
           NEW i \in Items, i = at, item.op \in Opening, at' = at + 1,
           NEW s \in Nat, NEW t \in Nat, Push(s, t), s = ScopeNumber(i)',
           \A j \in 0..(i - 1) : ScopeNumber(j)' = ScopeNumber(j),
           pass = "generate" => t = this /\ this' = ThisOf(i)
    PROVE  StackInvariant'
<1>0. PICK n : n = Len(open)
  OBVIOUS
<1> DEFINE S == [scope : Nat, this : Nat]
           new == [scope |-> s, this |-> t]
<1>1. PICK q \in [1..n -> Pending(i) \cup {0}] : OpenOn(q)
  BY <1>0 DEF StackInvariant
<1>2. Len(program) \in Nat /\ i \in Nat /\ i \in 1..Len(program) /\ i \in 1..(Len(program) + 1)
  BY Bracketed DEF Items
<1>3. Pending(i) \subseteq 1..(i - 1) /\ Pending(i) \subseteq Nat \ {0} /\ i \in Nat \ {0}
  BY <1>2, PendingItems
<1>4. \A p \in Pending(i) : p < i
  BY <1>2, <1>3
<1>20. PICK r : r = Longer(q, n, i)
  OBVIOUS
<1>5. Chain(Pending(i), q, n) /\ Chain(Pending(i) \cup {i}, r, n + 1)
  <2>1. Chain(Pending(i), q, n)
    BY <1>0, <1>1 DEF OpenOn
  <2>2. Chain(Pending(i) \cup {i}, Longer(q, n, i), n + 1)
    BY <2>1, <1>3, <1>4, ChainGrows
  <2> QED
    BY <2>1, <2>2, <1>20
<1>6. Pending(at') = Pending(i) \cup {i}
  BY PendingOpens DEF item
<1>7. n \in Nat \ {0} /\ \A k \in 1..n : q[k] \in Pending(i) \cup {0}
  BY <1>3, <1>5, ChainTop
<1>8. open' = open \o <<new>> /\ open \in Seq(S) /\ new \in S
  BY DEF Push, StackInvariant
<1>9. /\ open' \in Seq(S) /\ Len(open') = n + 1
      /\ open'[n + 1] = new /\ \A k \in 1..n : open'[k] = open[k]
  <2> HIDE DEF S, new
  <2> QED
    BY <1>0, <1>8, OneMore
<1>10. /\ \A k \in 1..n : r[k] = q[k] /\ k \in 1..(n + 1)
       /\ r[n + 1] = i
       /\ \A k \in 1..(n + 1) : k \in 1..n \/ k = n + 1
       /\ \A k \in 2..(n + 1) : k - 1 \in 1..n /\ (k \in 2..n \/ (k = n + 1 /\ k - 1 = n))
       /\ n \in 1..n /\ n + 1 \in Nat
  BY <1>7, <1>20 DEF Longer
<1>11. r \in [1..(n + 1) -> (Pending(i) \cup {i}) \cup {0}]
  BY <1>7, <1>10, <1>20 DEF Longer
<1>12. \A k \in 1..n : q[k] \in 0..(i - 1)
  BY <1>2, <1>3, <1>7
<1>13. \A k \in 1..(n + 1) : open'[k].scope = ScopeNumber(r[k])'
  <2> SUFFICES ASSUME NEW k \in 1..(n + 1)
               PROVE  open'[k].scope = ScopeNumber(r[k])'
    OBVIOUS
  <2>1. CASE k = n + 1
    BY <2>1, <1>9, <1>10
  <2>2. CASE k \in 1..n
    <3>1. open'[k].scope = open[k].scope /\ r[k] = q[k]
      BY <2>2, <1>9, <1>10
    <3>2. open[k].scope = ScopeNumber(q[k])
      BY <2>2, <1>0, <1>1 DEF OpenOn
    <3>3. ScopeNumber(q[k])' = ScopeNumber(q[k])
      BY <2>2, <1>12
    <3> QED
      BY <3>1, <3>2, <3>3
  <2> QED
    BY <2>1, <2>2, <1>10
<1>14. ASSUME pass' = "generate"
       PROVE  this' = ThisOf(r[n + 1]) /\ \A k \in 2..(n + 1) : open'[k].this = ThisOf(r[k - 1])
  <2>1. pass = "generate" /\ t = this /\ this' = ThisOf(i)
    BY <1>14
  <2>2. this = ThisOf(q[n]) /\ \A k \in 2..n : open[k].this = ThisOf(q[k - 1])
    BY <2>1, <1>0, <1>1 DEF OpenOn
  <2> SUFFICES ASSUME NEW k \in 2..(n + 1)
               PROVE  open'[k].this = ThisOf(r[k - 1])
    BY <2>1, <1>10
  <2>3. CASE k = n + 1
    BY <2>1, <2>2, <2>3, <1>9, <1>10
  <2>4. CASE k \in 2..n
    <3>1. k \in 1..n /\ k - 1 \in 1..n
      BY <2>4, <1>10
    <3> QED
      BY <2>2, <2>4, <3>1, <1>9, <1>10
  <2> QED
    BY <2>3, <2>4, <1>10
<1>15. at' \in 1..(Len(program) + 1)
  BY <1>2
<1> QED
  BY <1>5, <1>6, <1>9, <1>11, <1>13, <1>14, <1>15, StackSet

LEMMA StackShrinks ==
    ASSUME program \in Programs, StackInvariant, UNCHANGED <<program, pass, scopeOf>>,
           at \in Items, item.op = "end", at' = at + 1, Pop,
           pass = "generate" => this' = Last(open).this
    PROVE  StackInvariant'
<1>0. PICK n, t : n = Len(open) /\ t = opener
  OBVIOUS
<1> DEFINE S == [scope : Nat, this : Nat]
<1>1. PICK q \in [1..n -> Pending(at) \cup {0}] : OpenOn(q)
  BY <1>0 DEF StackInvariant
<1>2. Len(program) \in Nat /\ at \in Nat /\ at \in 1..Len(program) /\ at \in 1..(Len(program) + 1)
  BY Bracketed DEF Items
<1>3. Pending(at) \subseteq Nat \ {0}
  BY <1>2, PendingItems
<1>4. t \in Pending(at) /\ Pending(at') = Pending(at) \ {t} /\ \A p \in Pending(at) : p <= t
  BY <1>0, PendingEnds DEF item
<1>20. PICK r : r = Shorter(q, n)
  OBVIOUS
<1>5. /\ n - 1 \in Nat \ {0} /\ n \in Nat \ {0} /\ q[n] = t
      /\ Chain(Pending(at) \ {t}, r, n - 1)
  <2>1. Chain(Pending(at), q, n)
    BY <1>0, <1>1 DEF OpenOn
  <2>2. n \in Nat \ {0}
    BY <2>1, <1>3, ChainTop
  <2>3. n - 1 \in Nat \ {0} /\ q[n] = t /\ Chain(Pending(at) \ {t}, Shorter(q, n), n - 1)
    BY <2>1, <1>3, <1>4, ChainShrinks
  <2> QED
    BY <2>2, <2>3, <1>20
<1>6. open' = SubSeq(open, 1, n - 1) /\ open \in Seq(S) /\ n > 0 /\ Last(open) = open[n]
  BY <1>0, <1>5 DEF Pop, Front, Last, StackInvariant
<1>7. open' \in Seq(S) /\ Len(open') = n - 1 /\ \A k \in 1..(n - 1) : open'[k] = open[k]
  <2> HIDE DEF S
  <2> QED
    BY <1>0, <1>6, FrontOfSeq
<1>8. /\ \A k \in 1..(n - 1) : r[k] = q[k] /\ k \in 1..n
      /\ \A k \in 2..(n - 1) : k - 1 \in 1..(n - 1) /\ k \in 2..n /\ k \in 1..(n - 1)
      /\ n - 1 \in 1..(n - 1) /\ n \in 2..n
  BY <1>5, <1>20 DEF Shorter
<1>9. Chain(Pending(at) \ {t}, r, n - 1) /\ Pending(at) \ {t} \subseteq Nat \ {0}
  BY <1>3, <1>5
<1>10. \A k \in 1..(n - 1) : r[k] \in (Pending(at) \ {t}) \cup {0}
  <2> QED
    BY <1>9, ChainTop
<1>11. r \in [1..(n - 1) -> (Pending(at) \ {t}) \cup {0}]
  BY <1>10, <1>20 DEF Shorter
<1>12. \A i : ScopeNumber(i)' = ScopeNumber(i)
  BY DEF ScopeNumber
<1>13. \A k \in 1..(n - 1) : open'[k].scope = ScopeNumber(r[k])
  BY <1>0, <1>1, <1>7, <1>8 DEF OpenOn
<1>14. \A k \in 1..(n - 1) : open'[k].scope = ScopeNumber(r[k])'
  BY <1>12, <1>13
<1>15. ASSUME pass' = "generate"
       PROVE  this' = ThisOf(r[n - 1]) /\ \A k \in 2..(n - 1) : open'[k].this = ThisOf(r[k - 1])
  <2>1. \A k \in 2..n : open[k].this = ThisOf(q[k - 1])
    BY <1>0, <1>1, <1>15 DEF OpenOn
  <2>2. this' = open[n].this
    BY <1>6, <1>15
  <2> QED
    BY <2>1, <2>2, <1>7, <1>8
<1>16. at' \in 1..(Len(program) + 1)
  BY <1>2
<1> QED
  BY <1>4, <1>7, <1>9, <1>11, <1>14, <1>15, <1>16, StackSet

----------------------------------------------------------------------------
(* Looking names up *)

\* What counts in a sequence, in what is put together of it.
LEMMA OneCounts ==
    ASSUME NEW S, NEW e, NEW counts \in BOOLEAN, counts => e \in S
    PROVE  One(e, counts) \in Seq(S)
<1>1. << >> \in Seq(S) /\ (e \in S => <<e>> \in Seq(S))
  OBVIOUS
<1> QED
  BY <1>1 DEF One

LEMMA FlattenedIn ==
    ASSUME NEW S, NEW n \in Nat, NEW q, q = [k \in 1..n |-> q[k]], \A k \in 1..n : q[k] \in Seq(S)
    PROVE  FlattenSeq(q) \in Seq(S)
<1>1. q \in Seq(Seq(S)) /\ Len(q) = n
  <2>1. [k \in 1..n |-> q[k]] \in Seq(Seq(S)) /\ Len([k \in 1..n |-> q[k]]) = n
    OBVIOUS
  <2> QED
    BY <2>1
<1>2. Len(q) = 0 => q = << >>
  BY <1>1, EmptySeq
<1> QED
  BY <1>1, <1>2, FlattenedHasAll

\* The symbols a scope has under a name, and those of them that are found there.
Findable(sc, s, crossed) == {e \in SymbolsIn(sc, s) : Accessible(e, crossed)}
LEMMA FoundInScope ==
    ASSUME NEW S, NEW sc, IsTable(sc, S), NEW s \in DOMAIN sc, NEW n \in Name, NEW crossed \in BOOLEAN
    PROVE  InScope(sc, s, n, crossed) \in Seq(Findable(sc, s, crossed))
<1> DEFINE found == sc[s].symbols[n]
           q == [k \in 1..Len(found) |-> One(found[k], Accessible(found[k], crossed))]
           F == Findable(sc, s, crossed)
<1>1. found \in Seq(S)
  BY DEF IsTable, Scopes
<1>2. Len(found) \in Nat /\ \A k \in 1..Len(found) : found[k] \in SymbolsIn(sc, s)
  BY <1>1 DEF SymbolsIn, ToSet
<1>3. ASSUME NEW k \in 1..Len(found)
      PROVE  q[k] \in Seq(F)
  <2>1. Accessible(found[k], crossed) \in BOOLEAN
    BY DEF Accessible
  <2>2. Accessible(found[k], crossed) => found[k] \in F
    BY <1>2 DEF Findable
  <2> HIDE DEF F, found
  <2> QED
    BY <2>1, <2>2, OneCounts
<1>4. q = [k \in 1..Len(found) |-> q[k]]
  OBVIOUS
<1> HIDE DEF q, F
<1>5. FlattenSeq(q) \in Seq(F)
  BY <1>2, <1>3, <1>4, FlattenedIn
<1> QED
  BY <1>5 DEF InScope, q, F

LEMMA FoundInUsings ==
    ASSUME NEW S, NEW sc, IsTable(sc, S), NEW s \in DOMAIN sc, NEW n \in Name, NEW crossed \in BOOLEAN,
           NEW M, M \subseteq DOMAIN sc, sc[s].usedScopes \in Seq(M),
           NEW F, \A m \in M : Findable(sc, m, crossed) \subseteq F
    PROVE  InUsings(sc, s, n, crossed) \in Seq(F)
<1> DEFINE used == sc[s].usedScopes
           q == [k \in 1..Len(used) |-> InScope(sc, used[k], n, crossed)]
<1>1. Len(used) \in Nat /\ \A k \in 1..Len(used) : used[k] \in M
  OBVIOUS
<1>2. ASSUME NEW k \in 1..Len(used)
      PROVE  q[k] \in Seq(F)
  <2>1. used[k] \in DOMAIN sc /\ Findable(sc, used[k], crossed) \subseteq F
    BY <1>1
  <2>2. InScope(sc, used[k], n, crossed) \in Seq(Findable(sc, used[k], crossed))
    BY <2>1, FoundInScope
  <2> HIDE DEF used
  <2>3. InScope(sc, used[k], n, crossed) \in Seq(F)
    BY <2>1, <2>2
  <2> QED
    BY <2>3
<1>3. q = [k \in 1..Len(used) |-> q[k]]
  OBVIOUS
<1> HIDE DEF q
<1>4. FlattenSeq(q) \in Seq(F)
  BY <1>1, <1>2, <1>3, FlattenedIn
<1> QED
  BY <1>4 DEF InUsings, q

\* Every scope but the first has its parent before it.
Rooted(sc, m) ==
    /\ 0 \in DOMAIN sc /\ DOMAIN sc \subseteq 0..m
    /\ \A s \in DOMAIN sc : s # 0 => sc[s].parent \in DOMAIN sc /\ sc[s].parent < s

\* One step of a lookup, and what takes such steps.
StepUp(sc, n, t, crossed, above) ==
    IF sc[t].symbols[n] # << >> THEN InScope(sc, t, n, crossed)
    ELSE IF InUsings(sc, t, n, crossed) # << >> THEN InUsings(sc, t, n, crossed)
    ELSE IF t = 0 THEN << >>
    ELSE above[crossed \/ sc[t].isDefScope]
LooksUp(sc, n, g) ==
    g = [t \in DOMAIN sc |-> [crossed \in BOOLEAN |-> StepUp(sc, n, t, crossed, g[sc[t].parent])]]
LEMMA LookupExists ==
    ASSUME NEW S, NEW sc, IsTable(sc, S), NEW m \in Nat, Rooted(sc, m),
           \A s \in DOMAIN sc : sc[s].usedScopes \in Seq(DOMAIN sc), NEW n \in Name
    PROVE  \E g : LooksUp(sc, n, g)
<1> DEFINE C == DOMAIN sc
           Q == Seq(S)
           X == [BOOLEAN -> Q]
           rank == [t \in C |-> t]
           up == [t \in C |-> IF t = 0 THEN -1 ELSE sc[t].parent]
           B == [t \in C |-> [crossed \in BOOLEAN |-> IF t = 0 THEN StepUp(sc, n, t, crossed, << >>) ELSE << >>]]
           F == [tv \in C \X X |-> [crossed \in BOOLEAN |->
                    IF tv[1] # 0 THEN StepUp(sc, n, tv[1], crossed, tv[2]) ELSE << >>]]
<1>1. << >> \in Q
  OBVIOUS
<1>2. ASSUME NEW t \in C, NEW crossed \in BOOLEAN
      PROVE  InScope(sc, t, n, crossed) \in Q /\ InUsings(sc, t, n, crossed) \in Q
  <2>1. \A s \in C : Findable(sc, s, crossed) \subseteq S
    BY DEF Findable, SymbolsIn, ToSet, IsTable, Scopes
  <2>2. InScope(sc, t, n, crossed) \in Seq(Findable(sc, t, crossed))
    BY FoundInScope
  <2>3. InScope(sc, t, n, crossed) \in Q
    BY <2>1, <2>2
  <2>4. InUsings(sc, t, n, crossed) \in Q
    BY <2>1, FoundInUsings
  <2> QED
    BY <2>3, <2>4
<1>3. \A t \in C : t \in 0..m
  BY DEF Rooted
<1> HIDE DEF Q
<1>4. rank \in [C -> 0..m]
  BY <1>3
<1>5. \A t \in C : up[t] \in C => rank[up[t]] < rank[t]
  <2> SUFFICES ASSUME NEW t \in C, up[t] \in C
               PROVE  up[t] < t
    OBVIOUS
  <2>1. t # 0
    <3>1. -1 \notin C
      BY <1>3
    <3> QED
      BY <3>1
  <2> QED
    BY <2>1 DEF Rooted
<1>6. B \in [C -> X]
  <2> SUFFICES ASSUME NEW t \in C, NEW crossed \in BOOLEAN
               PROVE  (IF t = 0 THEN StepUp(sc, n, t, crossed, << >>) ELSE << >>) \in Q
    OBVIOUS
  <2> QED
    BY <1>1, <1>2 DEF StepUp
<1>7. F \in [C \X X -> X]
  <2> SUFFICES ASSUME NEW t \in C, NEW v \in X, NEW crossed \in BOOLEAN
               PROVE  (IF t # 0 THEN StepUp(sc, n, t, crossed, v) ELSE << >>) \in Q
    OBVIOUS
  <2>1. (crossed \/ sc[t].isDefScope) \in BOOLEAN
    OBVIOUS
  <2>2. v[crossed \/ sc[t].isDefScope] \in Q
    BY <2>1
  <2> QED
    BY <1>1, <1>2, <2>2 DEF StepUp
<1> HIDE DEF X, rank, up, B, F
<1>8. PICK g \in [C -> X] : Recurs(C, up, B, F, g, C)
  BY <1>4, <1>5, <1>6, <1>7, AlongParents
<1>9. ASSUME NEW t \in C
      PROVE  g[t] = [crossed \in BOOLEAN |-> StepUp(sc, n, t, crossed, g[sc[t].parent])]
  <2>1. g[t] = IF up[t] \in C THEN F[<<t, g[up[t]]>>] ELSE B[t]
    BY <1>8 DEF Recurs
  <2>2. CASE t = 0
    <3>1. up[t] = -1 /\ -1 \notin C
      BY <1>3, <2>2 DEF up
    <3>2. g[t] = [crossed \in BOOLEAN |-> StepUp(sc, n, t, crossed, << >>)]
      BY <2>1, <2>2, <3>1 DEF B
    <3>3. \A crossed \in BOOLEAN : StepUp(sc, n, t, crossed, << >>) = StepUp(sc, n, t, crossed, g[sc[t].parent])
      BY <2>2 DEF StepUp
    <3> QED
      BY <3>2, <3>3
  <2>3. CASE t # 0
    <3>1. up[t] = sc[t].parent /\ up[t] \in C
      BY <2>3 DEF up, Rooted
    <3>2. g[up[t]] \in X
      BY <3>1
    <3>3. F[<<t, g[up[t]]>>] = [crossed \in BOOLEAN |-> StepUp(sc, n, t, crossed, g[up[t]])]
      BY <2>3, <3>2 DEF F
    <3> QED
      BY <2>1, <3>1, <3>3
  <2> QED
    BY <2>2, <2>3
<1>10. g = [t \in C |-> g[t]]
  OBVIOUS
<1>11. LooksUp(sc, n, g)
  BY <1>9, <1>10 DEF LooksUp
<1> QED
  BY <1>11

\* assignSymbolic takes the steps.
Finds(sc, n, g) == LooksUp(sc, n, g) /\ \A s : AssignSymbolic(sc, s, n) = g[s][FALSE]
LEMMA AssignSymbolicLooksUp ==
    ASSUME NEW S, NEW sc, IsTable(sc, S), NEW m \in Nat, Rooted(sc, m),
           \A s \in DOMAIN sc : sc[s].usedScopes \in Seq(DOMAIN sc), NEW n \in Name
    PROVE  \E g : Finds(sc, n, g)
<1> DEFINE from[t \in DOMAIN sc] == [crossed \in BOOLEAN |->
               LET used == InUsings(sc, t, n, crossed)
               IN  IF sc[t].symbols[n] # << >> THEN InScope(sc, t, n, crossed)
                   ELSE IF used # << >> THEN used
                   ELSE IF t = 0 THEN << >>
                   ELSE from[sc[t].parent][crossed \/ sc[t].isDefScope]]
<1>1. \E g : LooksUp(sc, n, g)
  BY LookupExists
<1>2. \E g : g = [t \in DOMAIN sc |-> [crossed \in BOOLEAN |->
               LET used == InUsings(sc, t, n, crossed)
               IN  IF sc[t].symbols[n] # << >> THEN InScope(sc, t, n, crossed)
                   ELSE IF used # << >> THEN used
                   ELSE IF t = 0 THEN << >>
                   ELSE g[sc[t].parent][crossed \/ sc[t].isDefScope]]]
  BY <1>1 DEF LooksUp, StepUp
<1>3. LooksUp(sc, n, from)
  BY <1>2 DEF LooksUp, StepUp
<1>4. \A s : AssignSymbolic(sc, s, n) = from[s][FALSE]
  BY DEF AssignSymbolic
<1> HIDE DEF from
<1>5. Finds(sc, n, from)
  BY <1>3, <1>4 DEF Finds
<1> QED
  BY <1>5

\* What is placed, and what is in a sequence.
LEMMA Places ==
    ASSUME program \in Programs, TablesInvariant, PlacesInvariant
    PROVE  /\ Len(program) \in Nat /\ Rooted(scopes, Len(program))
           /\ \A s \in DOMAIN scopes : scopes[s].usedScopes \in Seq(DOMAIN scopes)
           /\ \A i \in Items : Met(i) => Met(Encloser(program, i)) /\ Encloser(program, i) \in 0..(i - 1)
<1>1. Len(program) \in Nat /\ \A i \in Items : i \in Nat
  BY Bracketed DEF Items
<1>2. ASSUME NEW i \in Items
      PROVE  /\ Encloser(program, i) \in 0..(i - 1)
             /\ Encloser(program, i) # 0 =>
                  Encloser(program, i) \in Items /\ program[Encloser(program, i)].op \in Opening
  BY Enclosers DEF EnclosedIn
<1>3. ASSUME NEW i \in Items, Met(i), NEW p \in 0..(i - 1)
      PROVE  Met(p)
  <2> SUFFICES ASSUME pass = "generate"
               PROVE  p < at
    BY DEF Met
  <2>1. i < at
    BY <1>3 DEF Met
  <2>2. at \in Nat
    BY DEF TablesInvariant
  <2> QED
    BY <1>1, <2>1, <2>2
<1>4. ASSUME NEW s \in DOMAIN scopes
      PROVE  s # 0 => s \in 1..Len(program) /\ scopes[s].parent \in DOMAIN scopes /\ scopes[s].parent < s
  <2> SUFFICES ASSUME s # 0
               PROVE  s \in 1..Len(program) /\ scopes[s].parent \in DOMAIN scopes /\ scopes[s].parent < s
    OBVIOUS
  <2>1. s \in Items /\ program[s].op \in Opening /\ Met(s) /\ ScopeNumber(s) = s
    BY <1>4 DEF PlacesInvariant
  <2>2. scopes[s].parent = ScopeNumber(Encloser(program, s))
    BY <2>1 DEF PlacesInvariant, Placed
  <2> DEFINE p == Encloser(program, s)
  <2>3. p \in 0..(s - 1) /\ (p # 0 => p \in Items /\ program[p].op \in Opening)
    BY <2>1, <1>2
  <2>4. Met(p)
    BY <2>1, <2>3, <1>3
  <2>5. ScopeNumber(p) \in DOMAIN scopes /\ ScopeNumber(p) \in 0..p
    <3>1. CASE p = 0
      BY <3>1 DEF PlacesInvariant, ScopeNumber
    <3>2. CASE p # 0
      <4>1. Placed(p)
        BY <2>3, <2>4, <3>2 DEF PlacesInvariant
      <4> QED
        BY <4>1 DEF Placed
    <3> QED
      BY <3>1, <3>2
  <2> HIDE DEF p
  <2>6. ScopeNumber(p) < s
    BY <2>1, <2>3, <2>5, <1>1
  <2> QED
    BY <2>1, <2>2, <2>5, <2>6 DEF Items, p
<1>5. Rooted(scopes, Len(program))
  <2>1. \A s \in DOMAIN scopes : s \in 0..Len(program)
    BY <1>1, <1>4
  <2> QED
    BY <1>4, <2>1 DEF Rooted, PlacesInvariant
<1>6. \A s \in DOMAIN scopes : scopes[s].usedScopes \in Seq(DOMAIN scopes)
  <2>1. Modules \subseteq DOMAIN scopes
    BY DEF Modules
  <2>2. \A s \in DOMAIN scopes : scopes[s].usedScopes \in Seq(Modules)
    BY DEF PlacesInvariant
  <2> QED
    BY <2>1, <2>2
<1>7. \A i \in Items : Met(i) => Met(Encloser(program, i)) /\ Encloser(program, i) \in 0..(i - 1)
  BY <1>2, <1>3
<1> QED
  BY <1>1, <1>5, <1>6, <1>7

LEMMA InSeq ==
    ASSUME NEW S, NEW q \in Seq(S), NEW e \in ToSet(q)
    PROVE  e \in S
BY DEF ToSet

\* What can be reached from the item around can be reached, if there is no barrier.
LEMMA ReachesInside ==
    ASSUME program \in Programs, NEW i \in Items, NEW p, p = Encloser(program, i), p # 0, ~ Barrier(i),
           NEW e, Reachable(p, e)
    PROVE  Reachable(i, e)
<1>1. EnclosedIn(i, p)
  BY Enclosers
<1>2. Enclosing(program, i) = Enclosing(program, p) \cup {p}
  BY <1>1 DEF EnclosedIn
<1>3. PICK s \in Enclosing(program, p) \cup {p} :
         /\ ScopeNumber(s) \in {t \in DOMAIN scopes : e \in Symbols(t)}
         /\ \A t \in Enclosing(program, p) \cup {p} : t > s => ~ Barrier(t)
  BY DEF Reachable
<1>4. s \in Enclosing(program, i) \cup {i}
  BY <1>2
<1>5. \A t \in Enclosing(program, i) \cup {i} : t > s => ~ Barrier(t)
  BY <1>2, <1>3
<1> QED
  BY <1>3, <1>4, <1>5 DEF Reachable

\* What a lookup finds from the scope of an item on can be reached from there, and
\* what needs a frame is found only if none was left.
FoundFrom(g, j) ==
    \A crossed \in BOOLEAN : \A e \in ToSet(g[ScopeNumber(j)][crossed]) :
        NeedsFrame(e) => j # 0 /\ ~ crossed /\ Reachable(j, e)
Scoped(j) == j = 0 \/ (j \in Items /\ program[j].op \in Opening /\ Met(j))
LEMMA LookupReaches ==
    ASSUME program \in Programs, TablesInvariant, PlacesInvariant, NEW n \in Name, NEW g, LooksUp(scopes, n, g),
           NEW j \in Nat, Scoped(j), \A i \in 0..(j - 1) : Scoped(i) => FoundFrom(g, i)
    PROVE  FoundFrom(g, j)
<1> DEFINE t == ScopeNumber(j)
<1>1. IsTable(scopes, AllSymbols) /\ \A s : Symbols(s) = SymbolsIn(scopes, s)
  BY Tables DEF Symbols, SymbolsIn
<1>2. t \in DOMAIN scopes /\ (t = 0 <=> j = 0) /\ (j # 0 => Placed(j) /\ j \in Items /\ Met(j))
  BY DEF Scoped, PlacesInvariant, Placed, ScopeNumber
<1>3. \A s \in DOMAIN scopes : \A e \in SymbolsIn(scopes, s) :
         NeedsFrame(e) => s # 0 /\ program[s].op # "module"
  BY <1>1 DEF PlacesInvariant
<1> SUFFICES ASSUME NEW crossed \in BOOLEAN, NEW e \in ToSet(g[t][crossed]), NeedsFrame(e)
             PROVE  j # 0 /\ ~ crossed /\ Reachable(j, e)
  BY DEF FoundFrom
<1>4. g[t][crossed] = StepUp(scopes, n, t, crossed, g[scopes[t].parent])
  BY <1>2 DEF LooksUp
<1>5. CASE e \in Findable(scopes, t, crossed)
  <2>1. e \in SymbolsIn(scopes, t) /\ Accessible(e, crossed)
    BY <1>5 DEF Findable
  <2>2. ~ crossed
    BY <2>1 DEF Accessible, NeedsFrame
  <2>3. j # 0
    BY <1>2, <1>3, <2>1
  <2>4. \A s \in Enclosing(program, j) \cup {j} : ~ (s > j)
    BY DEF Enclosing
  <2>5. t \in {s \in DOMAIN scopes : e \in Symbols(s)}
    BY <1>1, <1>2, <2>1
  <2> QED
    BY <2>2, <2>3, <2>4, <2>5 DEF Reachable
<1>6. CASE \E m \in Modules : e \in Findable(scopes, m, crossed)
  BY <1>3, <1>6 DEF Findable, Modules
<1>7. CASE t # 0 /\ e \in ToSet(g[scopes[t].parent][crossed \/ scopes[t].isDefScope])
  <2> DEFINE p == Encloser(program, j)
             c == crossed \/ scopes[t].isDefScope
  <2>1. /\ j \in Items /\ Met(j) /\ j # 0
        /\ scopes[t].parent = ScopeNumber(p) /\ (scopes[t].isDefScope <=> Barrier(j))
    BY <1>2, <1>7 DEF Placed
  <2>2. EnclosedIn(j, p)
    BY <2>1, Enclosers
  <2>3. p \in 0..(j - 1) /\ Met(p) /\ Scoped(p)
    BY <2>1, <2>2, Places DEF EnclosedIn, Scoped
  <2>4. FoundFrom(g, p) /\ c \in BOOLEAN
    BY <2>3
  <2>5. p # 0 /\ ~ c /\ Reachable(p, e)
    BY <1>7, <2>1, <2>4 DEF FoundFrom
  <2>6. ~ crossed /\ ~ Barrier(j)
    BY <2>1, <2>5
  <2>7. Reachable(j, e)
    BY <2>1, <2>5, <2>6, ReachesInside
  <2> QED
    BY <2>1, <2>6, <2>7
<1>8. \/ e \in Findable(scopes, t, crossed)
      \/ \E m \in Modules : e \in Findable(scopes, m, crossed)
      \/ t # 0 /\ e \in ToSet(g[scopes[t].parent][crossed \/ scopes[t].isDefScope])
  <2>1. InScope(scopes, t, n, crossed) \in Seq(Findable(scopes, t, crossed))
    BY <1>1, <1>2, FoundInScope
  <2> DEFINE F == UNION {Findable(scopes, m, crossed) : m \in Modules}
  <2>2. InUsings(scopes, t, n, crossed) \in Seq(F)
    <3>1. Modules \subseteq DOMAIN scopes /\ scopes[t].usedScopes \in Seq(Modules)
      BY <1>2 DEF Modules, PlacesInvariant
    <3>2. \A m \in Modules : Findable(scopes, m, crossed) \subseteq F
      OBVIOUS
    <3> HIDE DEF F
    <3> QED
      BY <1>1, <1>2, <3>1, <3>2, FoundInUsings
  <2>3. ToSet(<< >>) = {}
    BY DEF ToSet
  <2> HIDE DEF t, F
  <2>4. \/ e \in ToSet(InScope(scopes, t, n, crossed))
        \/ e \in ToSet(InUsings(scopes, t, n, crossed))
        \/ t # 0 /\ e \in ToSet(g[scopes[t].parent][crossed \/ scopes[t].isDefScope])
    BY <1>4, <2>3 DEF StepUp
  <2>5. e \in ToSet(InScope(scopes, t, n, crossed)) => e \in Findable(scopes, t, crossed)
    BY <2>1, InSeq
  <2>6. e \in ToSet(InUsings(scopes, t, n, crossed)) => e \in F
    BY <2>2, InSeq
  <2> QED
    BY <2>4, <2>5, <2>6 DEF F
<1> QED
  BY <1>5, <1>6, <1>7, <1>8

LEMMA FoundIsReachable ==
    ASSUME program \in Programs, TablesInvariant, PlacesInvariant, NEW n \in Name, NEW j \in Nat, Scoped(j),
           NEW e \in ToSet(AssignSymbolic(scopes, ScopeNumber(j), n)), NeedsFrame(e)
    PROVE  j # 0 /\ Reachable(j, e)
<1>1. PICK g : Finds(scopes, n, g)
  <2>1. PICK m, S : /\ m \in Nat /\ IsTable(scopes, S) /\ Rooted(scopes, m)
                    /\ \A s \in DOMAIN scopes : scopes[s].usedScopes \in Seq(DOMAIN scopes)
    BY Tables, Places
  <2>2. \E g : Finds(scopes, n, g)
    BY <2>1, AssignSymbolicLooksUp
  <2> QED
    BY <2>2
<1> DEFINE T == {k \in Nat : \A i \in 0..(k - 1) : Scoped(i) => FoundFrom(g, i)}
<1>6. LooksUp(scopes, n, g) /\ \A s : AssignSymbolic(scopes, s, n) = g[s][FALSE]
  BY <1>1 DEF Finds
<1>2. 0 \in T
  OBVIOUS
<1>3. ASSUME NEW k \in Nat, k \in T
      PROVE  k + 1 \in T
  <2>1. Scoped(k) => FoundFrom(g, k)
    BY <1>6, <1>3, LookupReaches
  <2>2. \A i \in 0..(k + 1 - 1) : i \in 0..(k - 1) \/ i = k
    OBVIOUS
  <2> QED
    BY <1>3, <2>1, <2>2
<1> HIDE DEF T
<1>4. j \in T
  BY <1>2, <1>3, NumberInduction
<1>5. FoundFrom(g, j)
  BY <1>6, <1>4, LookupReaches DEF T
<1> QED
  BY <1>5, <1>6 DEF FoundFrom

----------------------------------------------------------------------------
(* Usings *)

\* The modules of a table, and the symbols that stand for them.
NamesModules(sc, M) ==
    M \subseteq DOMAIN sc /\ \A s \in DOMAIN sc : \A e \in SymbolsIn(sc, s) : e.type = "MODULE" => e.decl \in M
LEMMA ModuleFound ==
    ASSUME NEW S, NEW sc, IsTable(sc, S), NEW s \in DOMAIN sc, NEW n \in Name
    PROVE  \/ ModuleIn(sc, s, n) = 0
           \/ \E e \in SymbolsIn(sc, s) : e.type = "MODULE" /\ e.decl = ModuleIn(sc, s, n)
<1>1. CASE IsModule(sc, s, n)
  <2> DEFINE found == sc[s].symbols[n]
  <2>1. found \in Seq(S) /\ found # << >> /\ Head(found).type = "MODULE"
    BY <1>1 DEF IsTable, Scopes, IsModule
  <2>2. Head(found) \in ToSet(found)
    <3> HIDE DEF found
    <3>1. Len(found) \in Nat /\ Len(found) # 0 /\ Head(found) = found[1]
      BY <2>1, EmptySeq
    <3> QED
      BY <2>1, <3>1 DEF ToSet
  <2>3. Head(found) \in SymbolsIn(sc, s)
    BY <2>2 DEF SymbolsIn
  <2> QED
    BY <1>1, <2>1, <2>3 DEF ModuleIn
<1>2. CASE ~ IsModule(sc, s, n)
  BY <1>2 DEF ModuleIn
<1> QED
  BY <1>1, <1>2

LEMMA ModuleNamed ==
    ASSUME NEW S, NEW sc, IsTable(sc, S), NEW M, NamesModules(sc, M), NEW s \in DOMAIN sc, NEW n \in Name
    PROVE  ModuleIn(sc, s, n) \in M \cup {0}
BY ModuleFound DEF NamesModules

LEMMA ModuleAboveNamed ==
    ASSUME NEW S, NEW sc, IsTable(sc, S), NEW m \in Nat, Rooted(sc, m), NEW M, NamesModules(sc, M),
           NEW s \in DOMAIN sc, NEW n \in Name
    PROVE  ModuleAbove(sc, s, n) \in M \cup {0}
<1> DEFINE C == DOMAIN sc
           X == M \cup {0}
           Stops(t) == IsModule(sc, t, n) \/ t = 0
           rank == [t \in C |-> t]
           up == [t \in C |-> IF Stops(t) THEN -1 ELSE sc[t].parent]
           B == [t \in C |-> ModuleIn(sc, t, n)]
           F == [tv \in C \X X |-> tv[2]]
           from[t \in C] == IF IsModule(sc, t, n) \/ t = 0 THEN ModuleIn(sc, t, n) ELSE from[sc[t].parent]
<1>1. \A t \in C : t \in 0..m /\ -1 \notin C
  BY DEF Rooted
<1>2. rank \in [C -> 0..m]
  BY <1>1
<1>3. ASSUME NEW t \in C
      PROVE  /\ Stops(t) => up[t] \notin C
             /\ ~ Stops(t) => up[t] = sc[t].parent /\ up[t] \in C /\ rank[up[t]] < rank[t]
  BY <1>1 DEF Rooted
<1>4. B \in [C -> X] /\ F \in [C \X X -> X]
  <2>1. \A t \in C : ModuleIn(sc, t, n) \in X
    BY ModuleNamed
  <2> HIDE DEF X
  <2> QED
    BY <2>1
<1>5. \A t \in C : up[t] \in C => rank[up[t]] < rank[t]
  BY <1>3
<1>6. PICK g \in [C -> X] : Recurs(C, up, B, F, g, C)
  <2> HIDE DEF rank, up, B, F, X
  <2> QED
    BY <1>2, <1>4, <1>5, AlongParents
<1>7. ASSUME NEW t \in C
      PROVE  g[t] = IF IsModule(sc, t, n) \/ t = 0 THEN ModuleIn(sc, t, n) ELSE g[sc[t].parent]
  <2>1. g[t] = IF up[t] \in C THEN F[<<t, g[up[t]]>>] ELSE B[t]
    BY <1>6 DEF Recurs
  <2>2. CASE Stops(t)
    BY <2>1, <2>2, <1>3
  <2>3. CASE ~ Stops(t)
    <3>1. up[t] = sc[t].parent /\ up[t] \in C /\ g[up[t]] \in X
      BY <2>3, <1>3
    <3>2. F[<<t, g[up[t]]>>] = g[up[t]]
      BY <3>1
    <3> QED
      BY <2>1, <2>3, <3>1, <3>2
  <2> QED
    BY <2>2, <2>3
<1>8. from = [t \in C |-> IF IsModule(sc, t, n) \/ t = 0 THEN ModuleIn(sc, t, n) ELSE from[sc[t].parent]]
  <2>1. g = [t \in C |-> IF IsModule(sc, t, n) \/ t = 0 THEN ModuleIn(sc, t, n) ELSE g[sc[t].parent]]
    BY <1>7
  <2> HIDE DEF C
  <2> QED
    BY <2>1
<1>9. ModuleAbove(sc, s, n) = from[s]
  BY DEF ModuleAbove
<1> HIDE DEF from
<1> DEFINE T == {t \in C : from[t] \in X}
<1>10. ASSUME NEW t \in C, up[t] \in C => up[t] \in T
       PROVE  t \in T
  <2>1. from[t] = IF Stops(t) THEN ModuleIn(sc, t, n) ELSE from[sc[t].parent]
    BY <1>8
  <2>2. ModuleIn(sc, t, n) \in X
    BY ModuleNamed
  <2>3. ~ Stops(t) => from[sc[t].parent] \in X
    BY <1>3, <1>10
  <2> QED
    BY <2>1, <2>2, <2>3
<1> HIDE DEF T, rank, up, C
<1>11. \A t \in C : t \in T
  <2>1. \A t \in C : (up[t] \in C => up[t] \in T) => t \in T
    BY <1>10
  <2> QED
    BY <1>2, <1>5, <2>1, ParentInduction
<1> QED
  BY <1>9, <1>11 DEF T, C

LEMMA ModuleOfNamed ==
    ASSUME NEW S, NEW sc, IsTable(sc, S), NEW m \in Nat, Rooted(sc, m), NEW M, NamesModules(sc, M),
           NEW s \in DOMAIN sc, NEW path \in Seq(Name), path # << >>
    PROVE  ModuleOf(sc, s, path) \in M \cup {0}
<1> DEFINE n == Len(path)
           X == M \cup {0}
           F == [kv \in (1..n) \X X |->
                   IF kv[1] = 1 THEN ModuleAbove(sc, s, path[1])
                   ELSE IF kv[2] = 0 THEN 0 ELSE ModuleIn(sc, kv[2], path[kv[1]])]
           to[k \in 1..n] == IF k = 1 THEN ModuleAbove(sc, s, path[1])
                             ELSE IF to[k - 1] = 0 THEN 0
                             ELSE ModuleIn(sc, to[k - 1], path[k])
<1>1. n \in Nat /\ n # 0 /\ 1 \in 1..n /\ n \in 1..n /\ \A k \in 1..n : path[k] \in Name
  BY EmptySeq
<1>2. ModuleAbove(sc, s, path[1]) \in X
  BY <1>1, ModuleAboveNamed
<1>3. \A v \in X : \A k \in 1..n : v # 0 => ModuleIn(sc, v, path[k]) \in X
  <2> SUFFICES ASSUME NEW v \in M, NEW k \in 1..n
               PROVE  ModuleIn(sc, v, path[k]) \in X
    OBVIOUS
  <2>1. v \in DOMAIN sc /\ path[k] \in Name
    BY <1>1 DEF NamesModules
  <2> QED
    BY <2>1, ModuleNamed
<1>4. F \in Steps(n, X) /\ 0 \in X
  <2> HIDE DEF X, n
  <2>1. \A k \in 1..n : \A v \in X :
          (IF k = 1 THEN ModuleAbove(sc, s, path[1])
           ELSE IF v = 0 THEN 0 ELSE ModuleIn(sc, v, path[k])) \in X
    BY <1>2, <1>3 DEF X
  <2> QED
    BY <2>1 DEF Steps, X
<1>5. PICK g : Iterates(n, X, F, 0, g)
  <2> HIDE DEF F, X, n
  <2> QED
    BY <1>1, <1>4, Iteration
<1>6. ASSUME NEW k \in 1..n
      PROVE  /\ g[k] = IF k = 1 THEN ModuleAbove(sc, s, path[1])
                       ELSE IF g[k - 1] = 0 THEN 0 ELSE ModuleIn(sc, g[k - 1], path[k])
             /\ g[k] \in X
  <2>1. g[k] = F[<<k, g[k - 1]>>] /\ g[k] \in X /\ g[k - 1] \in X
    <3>1. k \in 0..n /\ k - 1 \in 0..n
      BY <1>1
    <3> QED
      BY <1>5, <3>1 DEF Iterates
  <2> HIDE DEF X, n
  <2>2. F[<<k, g[k - 1]>>] = IF k = 1 THEN ModuleAbove(sc, s, path[1])
                             ELSE IF g[k - 1] = 0 THEN 0 ELSE ModuleIn(sc, g[k - 1], path[k])
    BY <2>1
  <2> QED
    BY <2>1, <2>2
<1> DEFINE h == [k \in 1..n |-> g[k]]
<1>7. h = [k \in 1..n |-> IF k = 1 THEN ModuleAbove(sc, s, path[1])
                          ELSE IF h[k - 1] = 0 THEN 0 ELSE ModuleIn(sc, h[k - 1], path[k])]
  <2>1. \A k \in 1..n : k # 1 => k - 1 \in 1..n
    BY <1>1
  <2> HIDE DEF n
  <2> QED
    BY <2>1, <1>6
<1>8. to = [k \in 1..n |-> IF k = 1 THEN ModuleAbove(sc, s, path[1])
                           ELSE IF to[k - 1] = 0 THEN 0 ELSE ModuleIn(sc, to[k - 1], path[k])]
  <2> HIDE DEF n, h
  <2> QED
    BY <1>7
<1>9. ModuleOf(sc, s, path) = to[n]
  BY DEF ModuleOf
<1> HIDE DEF to, X, n
<1> DEFINE T == {k \in Nat : k \in 1..n => to[k] \in X}
<1>10. 0 \in T
  OBVIOUS
<1>11. ASSUME NEW k \in Nat, k \in T
       PROVE  k + 1 \in T
  <2> SUFFICES ASSUME k + 1 \in 1..n
               PROVE  to[k + 1] \in X
    OBVIOUS
  <2>1. k + 1 = 1 \/ k \in 1..n
    BY <1>1
  <2>2. PICK j \in 1..n : j = k + 1 /\ j - 1 = k
    OBVIOUS
  <2>3. to[j] = IF j = 1 THEN ModuleAbove(sc, s, path[1])
                ELSE IF to[j - 1] = 0 THEN 0 ELSE ModuleIn(sc, to[j - 1], path[j])
    BY <1>8
  <2>4. j # 1 => to[j - 1] \in X
    BY <2>1, <2>2, <1>11
  <2>5. 0 \in X
    BY DEF X
  <2>6. to[j] \in X
    BY <2>3, <2>4, <2>5, <1>2, <1>3
  <2> QED
    BY <2>2, <2>6
<1> HIDE DEF T
<1>12. \A k \in Nat : k \in T
  BY <1>10, <1>11, NumberInduction
<1>13. to[n] \in X
  BY <1>1, <1>12 DEF T
<1> QED
  BY <1>9, <1>13 DEF X

\* What the paths of a scope use are modules.
UsesModules(sc, s, paths, M) ==
    \E used \in Seq(M) : BuildUsings(sc, s, paths).scopes = [sc EXCEPT ![s].usedScopes = used]
LEMMA UsingsNamed ==
    ASSUME NEW S, NEW sc, IsTable(sc, S), NEW m \in Nat, Rooted(sc, m), NEW M, NamesModules(sc, M), 0 \notin M,
           NEW s \in DOMAIN sc, NEW paths \in Seq(Path \ {<< >>}), sc[s].usedScopes \in Seq(M)
    PROVE  UsesModules(sc, s, paths, M)
<1> DEFINE heads == {k \in 1..Len(paths) : ModuleAbove(sc, s, Head(paths[k])) = 0}
           read == IF heads = {} THEN paths ELSE SubSeq(paths, 1, Min(heads) - 1)
           used == [k \in 1..Len(read) |-> ModuleOf(sc, s, read[k])]
           parts == [k \in 1..Len(read) |-> One(used[k], used[k] # 0)]
<1>1. read \in Seq(Path \ {<< >>})
  <2>1. CASE heads = {}
    BY <2>1
  <2>2. CASE heads # {}
    <3>1. \E x \in heads : \A y \in heads : x <= y
      <4>1. heads \in SUBSET Nat
        OBVIOUS
      <4> HIDE DEF heads
      <4> QED
        BY <2>2, <4>1, LeastElement
    <3>2. Min(heads) \in heads
      <4> HIDE DEF heads
      <4> QED
        BY <3>1 DEF Min
    <3>3. Min(heads) \in 1..Len(paths) /\ Len(paths) \in Nat
      BY <3>2
    <3> HIDE DEF heads
    <3>4. PICK k \in Int : k = Min(heads) - 1 /\ k < Len(paths)
      BY <3>3
    <3>5. \A i \in 1..k : paths[i] \in Path \ {<< >>}
      BY <3>3, <3>4
    <3>6. SubSeq(paths, 1, k) \in Seq(Path \ {<< >>})
      BY <3>4, <3>5, SubSeqProperties
    <3> QED
      BY <2>2, <3>4, <3>6
  <2> QED
    BY <2>1, <2>2
<1> HIDE DEF read
<1>2. Len(read) \in Nat /\ \A k \in 1..Len(read) : read[k] \in Seq(Name) /\ read[k] # << >>
  BY <1>1 DEF Path
<1>3. ASSUME NEW k \in 1..Len(read)
      PROVE  parts[k] \in Seq(M)
  <2>1. used[k] \in M \cup {0}
    BY <1>2, ModuleOfNamed
  <2> HIDE DEF used
  <2>2. (used[k] # 0) \in BOOLEAN /\ (used[k] # 0 => used[k] \in M)
    BY <2>1
  <2> QED
    BY <2>2, OneCounts
<1>4. parts = [k \in 1..Len(read) |-> parts[k]]
  OBVIOUS
<1>5. FlattenSeq(parts) \in Seq(M)
  <2> HIDE DEF parts
  <2> QED
    BY <1>2, <1>3, <1>4, FlattenedIn
<1>6. sc[s].usedScopes \o FlattenSeq(parts) \in Seq(M)
  <2> HIDE DEF parts
  <2> QED
    BY <1>5
<1>7. BuildUsings(sc, s, paths).scopes = [sc EXCEPT ![s].usedScopes = @ \o FlattenSeq(parts)]
  BY DEF BuildUsings, read
<1> HIDE DEF parts
<1>8. BuildUsings(sc, s, paths).scopes = [sc EXCEPT ![s].usedScopes = sc[s].usedScopes \o FlattenSeq(parts)]
  BY <1>7
<1> QED
  BY <1>6, <1>8 DEF UsesModules

----------------------------------------------------------------------------
(* Where scopes are *)

\* A symbol is added to scope s only, which stays where it is.
SameFrame(a, b) == a.parent = b.parent /\ a.isDefScope = b.isDefScope /\ a.usedScopes = b.usedScopes
AddedTo(sc, s, e, new) ==
    /\ DOMAIN new = DOMAIN sc
    /\ \A t \in DOMAIN sc : /\ SameFrame(new[t], sc[t])
                            /\ SymbolsIn(new, t) \subseteq SymbolsIn(sc, t) \cup (IF t = s THEN {e} ELSE {})
LEMMA EntryAddedTo ==
    ASSUME NEW S, NEW sc, IsTable(sc, S), NEW s, NEW n \in Name, NEW e \in S
    PROVE  AddedTo(sc, s, e, AddEntry(sc, s, n, e))
<1> DEFINE new == AddEntry(sc, s, n, e)
<1>1. /\ DOMAIN new = DOMAIN sc
      /\ \A t \in DOMAIN sc : t # s => new[t] = sc[t]
      /\ \A t \in DOMAIN sc : SymbolsIn(new, t) \in {SymbolsIn(sc, t), SymbolsIn(sc, t) \cup {e}}
  BY EntryAdded
<1>2. ASSUME NEW t \in DOMAIN sc
      PROVE  SameFrame(new[t], sc[t])
  <2>1. CASE t # s
    BY <2>1, <1>1 DEF SameFrame
  <2>2. CASE t = s /\ TakesEntry(sc, s, n, e)
    <3>1. new[s] \in Scopes(sc[s], S)
      BY <2>2, EntryTaken
    <3> QED
      BY <2>2, <3>1 DEF SameFrame, Scopes
  <2>3. CASE ~ TakesEntry(sc, s, n, e)
    BY <2>3 DEF SameFrame, AddEntry
  <2> QED
    BY <2>1, <2>2, <2>3
<1>3. \A t \in DOMAIN sc : t # s => SymbolsIn(new, t) = SymbolsIn(sc, t)
  BY <1>1 DEF SymbolsIn
<1> HIDE DEF new
<1>4. AddedTo(sc, s, e, new)
  BY <1>1, <1>2, <1>3 DEF AddedTo
<1> QED
  BY <1>4 DEF new

\* A scope for item i under scope p, if it is fresh, and a symbol in scope p.
Extended(sc, p, fresh, i, d, e, new) ==
    /\ DOMAIN new = DOMAIN sc \cup (IF fresh THEN {i} ELSE {})
    /\ \A t \in DOMAIN sc : /\ SameFrame(new[t], sc[t])
                            /\ SymbolsIn(new, t) \subseteq SymbolsIn(sc, t) \cup (IF t = p THEN {e} ELSE {})
    /\ fresh => SameFrame(new[i], NewScope(p, d)) /\ SymbolsIn(new, i) = {}
LEMMA TablesExtended ==
    ASSUME NEW S, NEW old, IsTable(old, S), NEW p \in DOMAIN old, NEW fresh \in BOOLEAN, NEW i, i \notin DOMAIN old, NEW d,
           NEW n, NEW e \in S, NEW sc, sc = IF fresh THEN With(old, i, NewScope(p, d)) ELSE old,
           NEW new, new = sc \/ (n \in Name /\ new = AddEntry(sc, p, n, e))
    PROVE  Extended(old, p, fresh, i, d, e, new)
<1>1. /\ IsTable(sc, S) /\ DOMAIN sc = DOMAIN old \cup (IF fresh THEN {i} ELSE {})
      /\ \A t \in DOMAIN old : sc[t] = old[t]
      /\ fresh => sc[i] = NewScope(p, d)
  <2>1. CASE fresh
    <3> DEFINE w == With(old, i, NewScope(p, d))
    <3>1. Grown(S, old, e, w)
      BY NestedIsTable
    <3>2. DOMAIN w = DOMAIN old \cup {i} /\ w[i] = NewScope(p, d) /\ \A t \in DOMAIN old : w[t] = old[t]
      BY DEF With
    <3> HIDE DEF w
    <3>3. sc = w
      BY <2>1 DEF w
    <3> QED
      BY <2>1, <3>1, <3>2, <3>3 DEF Grown
  <2>2. CASE ~ fresh
    BY <2>2
  <2> QED
    BY <2>1, <2>2
<1>2. fresh => SymbolsIn(sc, i) = {}
  <2> SUFFICES ASSUME fresh
               PROVE  SymbolsIn(sc, i) = {}
    OBVIOUS
  <2>1. \A m \in Name : sc[i].symbols[m] = << >>
    BY <1>1 DEF NewScope
  <2>2. ToSet(<< >>) = {}
    BY DEF ToSet
  <2> QED
    BY <2>1, <2>2 DEF SymbolsIn
<1>3. \A t \in DOMAIN old : SymbolsIn(sc, t) = SymbolsIn(old, t)
  BY <1>1 DEF SymbolsIn
<1>4. AddedTo(sc, p, e, new)
  <2>1. CASE new = sc
    BY <2>1 DEF AddedTo, SameFrame
  <2>2. CASE n \in Name /\ new = AddEntry(sc, p, n, e)
    BY <2>2, <1>1, EntryAddedTo
  <2> QED
    BY <2>1, <2>2
<1>5. i # p
  OBVIOUS
<1>6. ASSUME NEW t \in DOMAIN old
      PROVE  /\ SameFrame(new[t], old[t])
             /\ SymbolsIn(new, t) \subseteq SymbolsIn(old, t) \cup (IF t = p THEN {e} ELSE {})
  <2>1. t \in DOMAIN sc
    BY <1>1
  <2> QED
    BY <2>1, <1>1, <1>3, <1>4 DEF AddedTo
<1>7. fresh => SameFrame(new[i], NewScope(p, d)) /\ SymbolsIn(new, i) = {}
  <2> SUFFICES ASSUME fresh
               PROVE  SameFrame(new[i], NewScope(p, d)) /\ SymbolsIn(new, i) = {}
    OBVIOUS
  <2>1. i \in DOMAIN sc /\ sc[i] = NewScope(p, d) /\ SymbolsIn(sc, i) = {}
    BY <1>1, <1>2
  <2>2. SameFrame(new[i], sc[i]) /\ SymbolsIn(new, i) \subseteq {}
    BY <2>1, <1>4, <1>5 DEF AddedTo
  <2> QED
    BY <2>1, <2>2
<1>8. DOMAIN new = DOMAIN old \cup (IF fresh THEN {i} ELSE {})
  BY <1>1, <1>4 DEF AddedTo
<1> QED
  BY <1>6, <1>7, <1>8 DEF Extended

\* What is scoped is placed where it was; the item met may be scoped now.
StaysScoped(i) ==
    /\ \A j \in 0..(i - 1) : ScopeNumber(j)' = ScopeNumber(j)
    /\ \A j \in DOMAIN scopeOf : j \in DOMAIN scopeOf' /\ (j # i => scopeOf'[j] = scopeOf[j])
ScopeOpened(i, p, fresh, d) ==
    IF fresh
    THEN /\ ScopeNumber(i)' = i /\ (d <=> Barrier(i))
         /\ program[i].op = "module" => i \in DOMAIN scopeOf' /\ scopeOf'[i] = i
    ELSE program[i].op \in Opening =>
            /\ program[i].op = "module" /\ i \in DOMAIN scopeOf'
            /\ scopeOf'[i] \in Modules /\ scopes[scopeOf'[i]].parent = p
LEMMA PlacesGrow ==
    ASSUME program \in Programs, TablesInvariant, PlacesInvariant,
           pass = "generate", UNCHANGED <<program, pass>>, NEW i \in Items, i = at, at' = at + 1,
           NEW p, p = ScopeNumber(Encloser(program, i)),
           NEW fresh \in BOOLEAN, fresh => program[i].op \in Opening, NEW d, NEW e,
           Extended(scopes, p, fresh, i, d, e, scopes'),
           NeedsFrame(e) => p # 0 /\ program[p].op # "module",
           e.type = "MODULE" => fresh /\ e.decl = i /\ program[i].op = "module",
           StaysScoped(i), ScopeOpened(i, p, fresh, d)
    PROVE  PlacesInvariant'
<1>1. i \in Nat /\ i # 0 /\ Len(program) \in Nat /\ i \in 1..Len(program)
  BY Bracketed DEF Items
<1>2. /\ 0 \in DOMAIN scopes
      /\ \A s \in DOMAIN scopes :
            s # 0 => s \in Items /\ program[s].op \in Opening /\ s < i /\ ScopeNumber(s) = s /\ s \in Nat
      /\ \A j \in Items : program[j].op \in Opening /\ j < i => Placed(j)
      /\ \A s \in DOMAIN scopes : scopes[s].usedScopes \in Seq(Modules)
      /\ \A s \in DOMAIN scopes : \A f \in SymbolsIn(scopes, s) :
            /\ NeedsFrame(f) => s # 0 /\ program[s].op # "module"
            /\ f.type = "MODULE" => f.decl \in Modules /\ scopes[f.decl].parent = s
  <2>1. \A s : Symbols(s) = SymbolsIn(scopes, s)
    BY DEF Symbols, SymbolsIn
  <2>2. \A j : Met(j) <=> j < i
    BY DEF Met
  <2> QED
    BY <2>1, <2>2 DEF PlacesInvariant, Items
<1>3. i \notin DOMAIN scopes
  BY <1>1, <1>2
<1>4. /\ DOMAIN scopes' = DOMAIN scopes \cup (IF fresh THEN {i} ELSE {})
      /\ \A t \in DOMAIN scopes : SameFrame(scopes'[t], scopes[t])
      /\ \A t \in DOMAIN scopes : SymbolsIn(scopes', t) \subseteq SymbolsIn(scopes, t) \cup (IF t = p THEN {e} ELSE {})
      /\ fresh => SameFrame(scopes'[i], NewScope(p, d)) /\ SymbolsIn(scopes', i) = {}
  BY DEF Extended
<1>5. \A s \in DOMAIN scopes' : s \in DOMAIN scopes \/ (fresh /\ s = i)
  BY <1>4
<1>6. Modules \subseteq Modules' /\ (fresh /\ program[i].op = "module" => i \in Modules')
  BY <1>1, <1>4 DEF Modules
<1>7. \A m \in Modules : m \in DOMAIN scopes /\ m # 0 /\ program[m].op = "module"
  BY DEF Modules
<1>8. ASSUME NEW s \in DOMAIN scopes', s # 0
      PROVE  s \in Items' /\ program'[s].op \in Opening /\ Met(s)' /\ ScopeNumber(s)' = s
  <2>1. s \in Items' <=> s \in Items
    BY DEF Items
  <2>2. CASE s \in DOMAIN scopes
    <3>1. s \in Items /\ program[s].op \in Opening /\ s < i /\ ScopeNumber(s) = s /\ s \in Nat
      BY <1>2, <1>8, <2>2
    <3>2. s \in 0..(i - 1) /\ s < i + 1
      BY <3>1, <1>1
    <3>3. ScopeNumber(s)' = s
      BY <3>1, <3>2 DEF StaysScoped
    <3> QED
      BY <2>1, <3>1, <3>2, <3>3 DEF Met
  <2>3. CASE fresh /\ s = i
    <3>1. i < i + 1
      BY <1>1
    <3>2. ScopeNumber(s)' = s
      BY <2>3 DEF ScopeOpened
    <3> QED
      BY <2>1, <2>3, <3>1, <3>2 DEF Met
  <2> QED
    BY <2>2, <2>3, <1>5
<1>9. \A j : (Barrier(j)' <=> Barrier(j)) /\ (Items' = Items)
  BY DEF Barrier, Method, Classes, ItemsOf, Items
<1>10. p \in DOMAIN scopes
  <2> DEFINE q == Encloser(program, i)
  <2>1. EnclosedIn(i, q)
    BY Enclosers
  <2>2. q \in Nat /\ q < i /\ (q # 0 => q \in Items /\ program[q].op \in Opening)
    BY <2>1, <1>1 DEF EnclosedIn
  <2> HIDE DEF q
  <2>3. CASE q = 0
    BY <2>3, <1>2 DEF ScopeNumber, q
  <2>4. CASE q # 0
    BY <2>2, <2>4, <1>2 DEF Placed, q
  <2> QED
    BY <2>3, <2>4
<1>11. ASSUME NEW j \in Items, program[j].op \in Opening, Met(j)'
       PROVE  Placed(j)'
  <2> DEFINE q == Encloser(program, j)
             u == ScopeNumber(q)
  <2>1. j \in Nat /\ (j < i \/ j = i)
    <3>1. j < i + 1 /\ j \in Nat
      BY <1>1, <1>11 DEF Met, Items
    <3> QED
      BY <3>1, <1>1
  <2>2. EnclosedIn(j, q)
    BY <1>11, Enclosers
  <2>3. q \in 0..(i - 1)
    BY <1>1, <2>1, <2>2 DEF EnclosedIn
  <2>4. ScopeNumber(Encloser(program, j))' = u
    BY <2>3 DEF StaysScoped, ScopeNumber
  <2>5. ASSUME NEW t, t = ScopeNumber(j)', t \in DOMAIN scopes', t \in 1..j, scopes'[t].parent = u,
               scopes'[t].isDefScope <=> Barrier(j),
               program[j].op = "module" => j \in DOMAIN scopeOf' /\ scopeOf'[j] \in Modules'
        PROVE  Placed(j)'
    BY <2>4, <2>5, <1>9 DEF Placed
  <2>6. CASE j < i
    <3>1. Placed(j) /\ ScopeNumber(j)' = ScopeNumber(j)
      <4>1. j \in 0..(i - 1)
        BY <1>1, <2>1, <2>6
      <4> QED
        BY <1>2, <1>11, <2>6, <4>1 DEF StaysScoped
    <3>2. PICK t : t = ScopeNumber(j)
      OBVIOUS
    <3>3. t \in DOMAIN scopes /\ t \in 1..j /\ scopes[t].parent = u /\ (scopes[t].isDefScope <=> Barrier(j))
      BY <3>1, <3>2 DEF Placed
    <3>4. scopes'[t].parent = u /\ (scopes'[t].isDefScope <=> Barrier(j)) /\ t \in DOMAIN scopes'
      BY <3>3, <1>4 DEF SameFrame
    <3>5. ASSUME program[j].op = "module"
          PROVE  j \in DOMAIN scopeOf' /\ scopeOf'[j] \in Modules'
      <4>1. j \in DOMAIN scopeOf /\ scopeOf[j] \in Modules
        BY <3>1, <3>5 DEF Placed
      <4>2. j # i
        BY <1>1, <2>6
      <4> QED
        BY <4>1, <4>2, <1>6 DEF StaysScoped
    <3> HIDE DEF u
    <3> QED
      BY <2>5, <3>1, <3>2, <3>3, <3>4, <3>5
  <2>7. CASE j = i /\ fresh
    <3>1. ScopeNumber(i)' = i /\ (d <=> Barrier(i))
      BY <2>7 DEF ScopeOpened
    <3>2. i \in DOMAIN scopes' /\ scopes'[i].parent = p /\ scopes'[i].isDefScope = d
      BY <2>7, <1>4 DEF SameFrame, NewScope
    <3>3. program[i].op = "module" => i \in DOMAIN scopeOf' /\ scopeOf'[i] \in Modules'
      BY <2>7, <1>6 DEF ScopeOpened
    <3>4. i \in 1..i /\ p = u
      BY <1>1, <2>7
    <3> HIDE DEF u
    <3> QED
      BY <2>5, <2>7, <3>1, <3>2, <3>3, <3>4
  <2>8. CASE j = i /\ ~ fresh
    <3>1. /\ program[i].op = "module" /\ i \in DOMAIN scopeOf'
          /\ scopeOf'[i] \in Modules /\ scopes[scopeOf'[i]].parent = p
      BY <1>11, <2>8 DEF ScopeOpened
    <3>2. PICK m : m = scopeOf'[i]
      OBVIOUS
    <3>3. m \in DOMAIN scopes /\ m # 0 /\ program[m].op = "module" /\ m \in Modules'
      BY <3>1, <3>2, <1>6, <1>7
    <3>4. m \in Items /\ m < i /\ m \in Nat /\ ScopeNumber(m) = m /\ Placed(m)
      BY <3>3, <1>2
    <3>5. scopes[m].isDefScope <=> Barrier(m)
      BY <3>4 DEF Placed
    <3>6. ~ Barrier(m) /\ ~ Barrier(i)
      BY <3>1, <3>3 DEF Barrier, Classes, ItemsOf
    <3>7. SameFrame(scopes'[m], scopes[m]) /\ m \in DOMAIN scopes'
      BY <3>3, <1>4
    <3>8. ScopeNumber(i)' = m
      BY <3>1, <3>2, <1>1 DEF ScopeNumber
    <3>9. m \in 1..i /\ p = u
      BY <3>3, <3>4, <1>1, <2>8
    <3>10. scopes'[m].parent = u /\ (scopes'[m].isDefScope <=> Barrier(i))
      BY <3>1, <3>2, <3>5, <3>6, <3>7, <3>9 DEF SameFrame
    <3> HIDE DEF u
    <3> QED
      BY <2>5, <2>8, <3>1, <3>2, <3>3, <3>7, <3>8, <3>9, <3>10
  <2> QED
    BY <2>1, <2>6, <2>7, <2>8
<1>12. ASSUME NEW s \in DOMAIN scopes'
       PROVE  scopes'[s].usedScopes \in Seq(Modules')
  <2>1. CASE s \in DOMAIN scopes
    <3>1. scopes'[s].usedScopes = scopes[s].usedScopes
      BY <2>1, <1>4 DEF SameFrame
    <3>2. scopes[s].usedScopes \in Seq(Modules)
      BY <2>1, <1>2
    <3> QED
      BY <3>1, <3>2, <1>6
  <2>2. CASE fresh /\ s = i
    <3>1. scopes'[s].usedScopes = << >>
      BY <2>2, <1>4 DEF SameFrame, NewScope
    <3> QED
      BY <3>1
  <2> QED
    BY <2>1, <2>2, <1>5
<1>13. ASSUME NEW s \in DOMAIN scopes', NEW f \in SymbolsIn(scopes', s)
       PROVE  /\ NeedsFrame(f) => s # 0 /\ program[s].op # "module"
              /\ f.type = "MODULE" => f.decl \in Modules' /\ scopes'[f.decl].parent = s
  <2>1. s \in DOMAIN scopes
    BY <1>4, <1>5
  <2>2. CASE f \in SymbolsIn(scopes, s)
    <3>1. /\ NeedsFrame(f) => s # 0 /\ program[s].op # "module"
          /\ f.type = "MODULE" => f.decl \in Modules /\ scopes[f.decl].parent = s
      BY <1>2, <2>1, <2>2
    <3>2. f.decl \in Modules => f.decl \in Modules' /\ scopes'[f.decl].parent = scopes[f.decl].parent
      BY <1>4, <1>6, <1>7 DEF SameFrame
    <3> QED
      BY <3>1, <3>2
  <2>3. CASE f = e /\ s = p
    <3>1. fresh => scopes'[i].parent = p
      BY <1>4 DEF SameFrame, NewScope
    <3> QED
      BY <2>3, <3>1, <1>6
  <2> QED
    BY <1>4, <2>1, <2>2, <2>3
<1>14. \A s : Symbols(s)' = SymbolsIn(scopes', s)
  BY DEF Symbols, SymbolsIn
<1>15. 0 \in DOMAIN scopes'
  BY <1>2, <1>4
<1>16. \A f : NeedsFrame(f)' <=> NeedsFrame(f)
  BY DEF NeedsFrame
<1>17. \A s \in DOMAIN scopes' : s # 0 => s \in Items' /\ program'[s].op \in Opening /\ Met(s)' /\ ScopeNumber(s)' = s
  BY <1>8
<1>18. \A j \in Items' : program'[j].op \in Opening /\ Met(j)' => Placed(j)'
  BY <1>9, <1>11
<1>19. \A s \in DOMAIN scopes' : \A f \in Symbols(s)' :
          /\ NeedsFrame(f)' => s # 0 /\ program'[s].op # "module"
          /\ f.type = "MODULE" => f.decl \in Modules' /\ (pass' = "generate" => scopes'[f.decl].parent = s)
  BY <1>13, <1>14, <1>16
<1> QED
  BY <1>12, <1>15, <1>17, <1>18, <1>19 DEF PlacesInvariant

\* What the shape of a program says of the item around a declaration.
LEMMA Shaped ==
    ASSUME program \in Programs, NEW i \in Items, NEW q, q = Encloser(program, i)
    PROVE  /\ program[i].op = "module" => q = 0 \/ program[q].op = "module"
           /\ program[i].op = "block" => q # 0 /\ program[q].op \in {"def", "block"}
           /\ program[i].op = "var" => q # 0 /\ program[q].op \in {"class", "def", "block"}
           /\ q # 0 => q \in Items /\ program[q].op \in Opening
<1>1. \A j \in 1..Len(program) :
         /\ program[j].op = "module" => Around(program, j) \in {"program", "module"}
         /\ program[j].op = "block" => Around(program, j) \in {"def", "block"}
         /\ program[j].op = "var" => Around(program, j) \in {"class", "def", "block"}
  BY ShapeAssumption
<1>2. EnclosedIn(i, q)
  BY Enclosers
<1>3. q # 0 => q \in Items /\ program[q].op \in Opening /\ program[q].op # "program"
  BY <1>2 DEF EnclosedIn, Opening
<1>4. Around(program, i) = IF q = 0 THEN "program" ELSE program[q].op
  BY DEF Around
<1> QED
  BY <1>1, <1>3, <1>4 DEF Items

\* The scope an item is met in is there; one of its own is not yet.
LEMMA MetScope ==
    ASSUME program \in Programs, TablesInvariant, PlacesInvariant, pass = "generate", at \in Items
    PROVE  /\ ScopeNumber(Encloser(program, at)) \in DOMAIN scopes
           /\ at \notin DOMAIN scopes
<1> DEFINE q == Encloser(program, at)
<1>1. at \in Nat
  BY Bracketed DEF Items
<1>2. EnclosedIn(at, q)
  BY Enclosers
<1>3. q \in Nat /\ q < at /\ (q # 0 => q \in Items /\ program[q].op \in Opening)
  BY <1>1, <1>2 DEF EnclosedIn
<1> HIDE DEF q
<1>4. ScopeNumber(q) \in DOMAIN scopes
  <2>1. CASE q = 0
    BY <2>1 DEF ScopeNumber, PlacesInvariant
  <2>2. CASE q # 0
    BY <2>2, <1>3 DEF PlacesInvariant, Placed, Met
  <2> QED
    BY <2>1, <2>2
<1>5. at \notin DOMAIN scopes
  <2>1. \A s \in DOMAIN scopes : s # 0 => s < at
    BY DEF PlacesInvariant, Met
  <2> QED
    BY <1>1, <2>1 DEF Items
<1> QED
  BY <1>4, <1>5 DEF q

\* What has a scope keeps it when the scope of a module is recorded.
LEMMA ScopesKept ==
    ASSUME program \in Programs, PlacesInvariant, pass = "generate", UNCHANGED program, NEW i \in Items, i = at,
           UNCHANGED scopeOf \/ \E m : scopeOf' = With(scopeOf, i, m)
    PROVE  StaysScoped(i)
<1>1. i \in Nat /\ i >= 1 /\ Items = 1..Len(program) /\ Len(program) \in Nat /\ i <= Len(program)
  BY Bracketed DEF Items
<1>2. \A j \in DOMAIN scopeOf : j \in DOMAIN scopeOf' /\ (j # i => scopeOf'[j] = scopeOf[j])
  BY DEF With
<1>3. ASSUME NEW j \in 0..(i - 1)
      PROVE  ScopeNumber(j)' = ScopeNumber(j)
  <2>1. CASE j = 0 \/ program[j].op # "module"
    BY <2>1 DEF ScopeNumber
  <2>2. CASE j # 0 /\ program[j].op = "module"
    <3>1. j \in Items /\ j < i /\ j # i
      BY <1>1, <2>2
    <3>2. Placed(j)
      BY <2>2, <3>1 DEF PlacesInvariant, Met, Opening
    <3>3. j \in DOMAIN scopeOf
      BY <2>2, <3>2 DEF Placed
    <3>4. scopeOf'[j] = scopeOf[j]
      BY <1>2, <3>1, <3>3
    <3> QED
      BY <2>2, <3>4 DEF ScopeNumber
  <2> QED
    BY <2>1, <2>2
<1> QED
  BY <1>2, <1>3 DEF StaysScoped

\* What ScopeGeneration does when it meets an item, and what may go wrong with it.
LEMMA MeetingKeepsPlaces ==
    ASSUME program \in Programs, TablesInvariant, StackInvariant, PlacesInvariant,
           NEW op, Generating(op), Advance, NEW i, i = at,
           NEW p, p = ScopeNumber(Encloser(program, i)),
           NEW fresh \in BOOLEAN, fresh => op \in Opening, NEW d, NEW e,
           NEW sc, sc = IF fresh THEN Nested(d) ELSE scopes,
           \/ scopes' = sc
           \/ op \in {"module", "class", "alias", "def", "var"} /\ scopes' = AddEntry(sc, curScope, item.name, e),
           UNCHANGED scopeOf \/ \E m : scopeOf' = With(scopeOf, i, m),
           NeedsFrame(e) => p # 0 /\ program[p].op # "module",
           e.type = "MODULE" => fresh /\ e.decl = i /\ op = "module",
           ScopeOpened(i, p, fresh, d)
    PROVE  PlacesInvariant'
<1>1. /\ pass = "generate" /\ UNCHANGED <<program, pass>> /\ i \in Items /\ at' = at + 1
      /\ item.op = op /\ program[i].op = op
  BY DEF Generating, Meets, Advance, item
<1>2. p \in DOMAIN scopes /\ i \notin DOMAIN scopes
  BY <1>1, MetScope
<1>3. op # "end" => curScope = p
  BY <1>1, StackTop
<1> DEFINE S == AllSymbols \cup {e}
<1>4. IsTable(scopes, S) /\ e \in S
  BY Tables, MoreSymbols
<1>5. sc = IF fresh THEN With(scopes, i, NewScope(p, d)) ELSE scopes
  <2>1. fresh => op # "end"
    BY DEF Opening
  <2> QED
    BY <1>3, <2>1 DEF Nested
<1>6. PICK n, new : new = scopes' /\ (new = sc \/ (n \in Name /\ new = AddEntry(sc, p, n, e)))
  <2>1. CASE scopes' = sc
    BY <2>1
  <2>2. CASE op \in {"module", "class", "alias", "def", "var"} /\ scopes' = AddEntry(sc, curScope, item.name, e)
    <3>1. item.name \in Name
      BY <1>1, <2>2, NamesOfItems DEF item
    <3> QED
      BY <2>2, <3>1, <1>3
  <2> QED
    BY <2>1, <2>2
<1> HIDE DEF S
<1>7. Extended(scopes, p, fresh, i, d, e, scopes')
  <2>1. Extended(scopes, p, fresh, i, d, e, new)
    BY <1>2, <1>4, <1>5, <1>6, TablesExtended
  <2> QED
    BY <1>6, <2>1
<1>8. StaysScoped(i)
  BY <1>1, ScopesKept
<1> QED
  BY <1>1, <1>7, <1>8, PlacesGrow

\* ScopeGeneration keeps what is placed, and places what it meets.
LEMMA GenerationKeepsPlaces ==
    ASSUME program \in Programs, TablesInvariant, StackInvariant, PlacesInvariant, Generate
    PROVE  PlacesInvariant'
<1>0. PICK i : i = at
  OBVIOUS
<1> DEFINE q == Encloser(program, i)
           none == Symbol(i, "TPE", 0, FALSE)
<1>1. PICK p : p = ScopeNumber(q)
  OBVIOUS
<1>2. ASSUME NEW op, Generating(op)
      PROVE  /\ i \in Items /\ program[i].op = op /\ (op # "end" => this = ThisOf(q) /\ curScope = p)
             /\ q # 0 => q \in Items
             /\ pass = "generate"
  <2>1. i \in Items /\ program[i].op = op /\ item.op = op /\ pass = "generate"
    BY <1>0, <1>2 DEF Generating, Meets, item
  <2>2. EnclosedIn(i, q)
    BY <2>1, Enclosers
  <2> QED
    BY <1>0, <1>1, <2>1, <2>2, StackTop DEF EnclosedIn
<1>3. \A c \in Classes : c # 0 /\ c \in Items /\ program[c].op = "class"
  BY FinitelyManyClasses DEF Classes, ItemsOf
<1>4. ~ NeedsFrame(none) /\ none.type # "MODULE"
  BY DEF Symbol, NeedsFrame
<1> HIDE DEF none
<1>5. CASE GenerateModule
  <2>1. Generating("module") /\ Advance
    BY <1>5 DEF GenerateModule
  <2>2. i \in Items /\ program[i].op = "module" /\ curScope = p /\ pass = "generate"
    BY <2>1, <1>2
  <2>3. PICK same : /\ same = ModuleIn(scopes, curScope, item.name)
                    /\ \/ same # 0 /\ scopeOf' = With(scopeOf, i, same) /\ UNCHANGED scopes
                       \/ /\ scopeOf' = With(scopeOf, i, i)
                          /\ scopes' = Declared(Nested(FALSE), "MODULE", 0, FALSE)
    BY <1>0, <1>5 DEF GenerateModule
  <2>4. \A m : scopeOf' = With(scopeOf, i, m) => i \in DOMAIN scopeOf' /\ scopeOf'[i] = m
    BY DEF With
  <2>5. CASE same # 0 /\ scopeOf' = With(scopeOf, i, same) /\ UNCHANGED scopes
    <3>1. p \in DOMAIN scopes
      BY <2>2, <1>0, <1>1, MetScope
    <3>2. item.name \in Name
      BY <1>0, <2>2, NamesOfItems DEF item
    <3>3. IsTable(scopes, AllSymbols)
      BY Tables
    <3>4. PICK e \in SymbolsIn(scopes, p) : e.type = "MODULE" /\ e.decl = same
      BY <2>2, <2>3, <2>5, <3>1, <3>2, <3>3, ModuleFound
    <3>5. same \in Modules /\ scopes[same].parent = p
      BY <2>2, <3>1, <3>4 DEF PlacesInvariant, Symbols, SymbolsIn
    <3>6. ScopeOpened(i, p, FALSE, FALSE)
      BY <2>2, <2>4, <2>5, <3>5 DEF ScopeOpened
    <3>7. \E m : scopeOf' = With(scopeOf, i, m)
      BY <2>5
    <3> QED
      BY <1>0, <1>1, <1>4, <2>1, <2>5, <3>6, <3>7, MeetingKeepsPlaces
  <2>6. CASE scopeOf' = With(scopeOf, i, i) /\ scopes' = Declared(Nested(FALSE), "MODULE", 0, FALSE)
    <3> DEFINE e == Symbol(i, "MODULE", 0, FALSE)
               sc == Nested(FALSE)
    <3>1. e.decl = i /\ e.type = "MODULE" /\ ~ NeedsFrame(e)
      BY DEF Symbol, NeedsFrame
    <3>2. ScopeOpened(i, p, TRUE, FALSE)
      <4>1. ~ Barrier(i)
        BY <2>2 DEF Barrier, Classes, ItemsOf
      <4>2. ScopeNumber(i)' = i
        BY <2>1, <2>2, <2>4, <2>6 DEF ScopeNumber, Advance
      <4> QED
        BY <4>1, <4>2, <2>4, <2>6 DEF ScopeOpened
    <3>3. scopes' = AddEntry(sc, curScope, item.name, e)
      BY <1>0, <2>6 DEF Declared
    <3>4. "module" \in Opening /\ \E m : scopeOf' = With(scopeOf, i, m)
      BY <2>6 DEF Opening
    <3> HIDE DEF e, sc
    <3>5. sc = Nested(FALSE)
      BY DEF sc
    <3> QED
      BY <1>0, <1>1, <2>1, <3>1, <3>2, <3>3, <3>4, <3>5, MeetingKeepsPlaces
  <2> QED
    BY <2>3, <2>5, <2>6
<1>6. CASE GenerateClass
  <2> DEFINE e == Symbol(i, "TPE", 0, FALSE)
             d == this # 0
             sc == Nested(d)
  <2>1. /\ Generating("class") /\ Advance /\ UNCHANGED <<program, scopeOf>>
        /\ scopes' = AddEntry(sc, curScope, item.name, e)
    BY <1>0, <1>6 DEF GenerateClass, Declared, Advance
  <2>2. i \in Items /\ program[i].op = "class" /\ this = ThisOf(q)
    BY <2>1, <1>2
  <2>3. i \in Classes /\ (d <=> Barrier(i))
    BY <2>2, <1>3 DEF Barrier, Classes, ItemsOf, ThisOf
  <2>4. ScopeOpened(i, p, TRUE, d)
    BY <2>1, <2>2, <2>3 DEF ScopeOpened, ScopeNumber
  <2>5. ~ NeedsFrame(e) /\ e.type # "MODULE" /\ "class" \in Opening
    BY DEF Symbol, NeedsFrame, Opening
  <2> HIDE DEF e, d, sc
  <2>6. sc = Nested(d)
    BY DEF sc
  <2> QED
    BY <1>0, <1>1, <2>1, <2>4, <2>5, <2>6, MeetingKeepsPlaces
<1>7. CASE GenerateDef
  <2>1. PICK owner : /\ owner = IF item.flag = "static" THEN 0 ELSE this
                     /\ scopes' = Declared(Nested(owner = 0), "DEF", owner, item.flag = "constructor")
    BY <1>7 DEF GenerateDef
  <2>2. Generating("def") /\ Advance /\ UNCHANGED <<program, scopeOf>>
    BY <1>7 DEF GenerateDef, Advance
  <2>3. i \in Items /\ program[i].op = "def" /\ this = ThisOf(q) /\ item = program[i]
    BY <2>2, <1>0, <1>2 DEF item
  <2> DEFINE e == Symbol(i, "DEF", owner, item.flag = "constructor")
             d == owner = 0
             sc == Nested(d)
  <2>4. d <=> ~ Method(i)
    BY <2>1, <2>3, <1>3 DEF Method, ThisOf
  <2>5. ScopeOpened(i, p, TRUE, d)
    <3>1. Barrier(i) <=> ~ Method(i)
      BY <2>3 DEF Barrier, Classes, ItemsOf
    <3> QED
      BY <2>2, <2>3, <2>4, <3>1 DEF ScopeOpened, ScopeNumber
  <2>6. NeedsFrame(e) => p # 0 /\ program[p].op # "module"
    <3> SUFFICES ASSUME NeedsFrame(e) PROVE p # 0 /\ program[p].op # "module"
      OBVIOUS
    <3>1. owner # 0
      BY DEF Symbol, NeedsFrame
    <3>2. q \in Classes
      BY <2>4, <3>1 DEF Method
    <3>3. p = q
      BY <1>1, <1>3, <3>2 DEF ScopeNumber
    <3> QED
      BY <1>3, <3>2, <3>3
  <2>7. e.type # "MODULE" /\ "def" \in Opening
    BY DEF Symbol, Opening
  <2>8. scopes' = AddEntry(sc, curScope, item.name, e)
    BY <1>0, <2>1 DEF Declared
  <2> HIDE DEF e, d, sc
  <2>9. sc = Nested(d)
    BY DEF sc
  <2> QED
    BY <1>0, <1>1, <2>2, <2>5, <2>6, <2>7, <2>8, <2>9, MeetingKeepsPlaces
<1>8. CASE GenerateBlock
  <2> DEFINE sc == Nested(FALSE)
  <2>1. Generating("block") /\ Advance /\ UNCHANGED <<program, scopeOf>> /\ scopes' = sc
    BY <1>8 DEF GenerateBlock, Advance
  <2>2. i \in Items /\ program[i].op = "block"
    BY <2>1, <1>2
  <2>3. ScopeOpened(i, p, TRUE, FALSE) /\ "block" \in Opening
    BY <2>1, <2>2 DEF ScopeOpened, ScopeNumber, Barrier, Classes, ItemsOf, Opening
  <2> HIDE DEF sc
  <2>4. sc = Nested(FALSE)
    BY DEF sc
  <2> QED
    BY <1>0, <1>1, <1>4, <2>1, <2>3, <2>4, MeetingKeepsPlaces
<1>9. CASE GenerateAlias \/ GenerateVar \/ GenerateUse \/ GenerateEnd
  <2>1. PICK op \in {"alias", "var", "use", "end"} :
          /\ Generating(op) /\ Advance /\ UNCHANGED <<program, scopeOf>>
          /\ \/ scopes' = scopes
             \/ op = "alias" /\ scopes' = Declared(scopes, "TPE", 0, FALSE)
             \/ op = "var" /\ scopes' = Declared(scopes, "VAR", 0, FALSE)
    BY <1>9 DEF GenerateAlias, GenerateVar, GenerateUse, GenerateEnd, Advance
  <2>2. i \in Items /\ program[i].op = op
    BY <2>1, <1>2
  <2>3. ScopeOpened(i, p, FALSE, FALSE)
    BY <2>2 DEF ScopeOpened, Opening
  <2>4. PICK e : /\ \/ scopes' = scopes
                    \/ op \in {"alias", "var"} /\ scopes' = AddEntry(scopes, curScope, item.name, e)
                 /\ e.type # "MODULE"
                 /\ NeedsFrame(e) => op = "var"
    <3>1. CASE scopes' = scopes
      BY <3>1, <1>4
    <3>2. CASE op = "alias" /\ scopes' = Declared(scopes, "TPE", 0, FALSE)
      <4>1. scopes' = AddEntry(scopes, curScope, item.name, none)
        BY <1>0, <3>2 DEF Declared, none
      <4> QED
        BY <3>2, <4>1, <1>4
    <3>3. CASE op = "var" /\ scopes' = Declared(scopes, "VAR", 0, FALSE)
      <4> DEFINE e == Symbol(i, "VAR", 0, FALSE)
      <4>1. scopes' = AddEntry(scopes, curScope, item.name, e) /\ e.type # "MODULE"
        BY <1>0, <3>3 DEF Declared, Symbol
      <4> HIDE DEF e
      <4> QED
        BY <3>3, <4>1
    <3> QED
      BY <2>1, <3>1, <3>2, <3>3
  <2>5. NeedsFrame(e) => p # 0 /\ program[p].op # "module"
    <3> SUFFICES ASSUME op = "var" PROVE p # 0 /\ program[p].op # "module"
      BY <2>4
    <3>1. q # 0 /\ program[q].op \in {"class", "def", "block"}
      BY <2>2, Shaped
    <3>2. p = q
      BY <1>1, <3>1 DEF ScopeNumber
    <3> QED
      BY <3>1, <3>2
  <2> QED
    BY <1>0, <1>1, <2>1, <2>3, <2>4, <2>5, MeetingKeepsPlaces
<1>10. CASE GenerationEnds
  <2>1. /\ UNCHANGED <<program, scopes, scopeOf>> /\ pass' # "generate"
        /\ at = Len(program) + 1
    BY <1>10 DEF GenerationEnds
  <2>2. \A j \in Items : Met(j) /\ Met(j)' /\ (Placed(j) => Placed(j)')
    <3>1. \A j \in Items : Met(j) /\ Met(j)'
      BY <2>1, Bracketed DEF Met, Items
    <3>2. \A j : Placed(j) => Placed(j)'
      BY <2>1 DEF Placed, ScopeNumber, Encloser, Enclosing, Barrier, Method, Classes, ItemsOf, Items, Modules
    <3> QED
      BY <3>1, <3>2
  <2>3. \A s : Symbols(s)' = Symbols(s) /\ Modules' = Modules /\ Items' = Items /\ ScopeNumber(s)' = ScopeNumber(s)
    BY <2>1 DEF Symbols, Modules, Items, ScopeNumber
  <2>4. \A e : NeedsFrame(e)' <=> NeedsFrame(e)
    BY DEF NeedsFrame
  <2> QED
    BY <2>1, <2>2, <2>3, <2>4 DEF PlacesInvariant
<1> QED
  BY <1>5, <1>6, <1>7, <1>8, <1>9, <1>10 DEF Generate

\* An item that opens something is around what comes next.
LEMMA OpeningKeepsStack ==
    ASSUME program \in Programs, TablesInvariant, StackInvariant, PlacesInvariant,
           NEW op \in Opening, Generating(op), Advance, NEW i, i = at,
           UNCHANGED scopeOf \/ \E m : scopeOf' = With(scopeOf, i, m),
           NEW s \in Nat, Push(s, this), s = ScopeNumber(i)',
           NEW q, q = Encloser(program, i), this = ThisOf(q) => this' = ThisOf(i)
    PROVE  StackInvariant'
<1>1. /\ pass = "generate" /\ UNCHANGED <<program, pass>> /\ i \in Items /\ at' = at + 1
      /\ item.op = op /\ program[i].op = op /\ op # "end"
  BY DEF Generating, Meets, Advance, item, Opening
<1>2. this = ThisOf(q)
  BY <1>1, StackTop
<1>3. this \in Nat
  BY <1>2, FinitelyManyClasses DEF ThisOf
<1>4. \A j \in 0..(i - 1) : ScopeNumber(j)' = ScopeNumber(j)
  BY <1>1, ScopesKept DEF StaysScoped
<1> HIDE DEF Push, Opening
<1> QED
  BY <1>1, <1>2, <1>3, <1>4, StackGrows

LEMMA GenerationKeepsStack ==
    ASSUME program \in Programs, TablesInvariant, StackInvariant, PlacesInvariant, Generate
    PROVE  StackInvariant'
<1>0. PICK i, q : i = at /\ q = Encloser(program, i)
  OBVIOUS
<1>1. ASSUME NEW op, Generating(op)
      PROVE  i \in Items /\ program[i].op = op /\ i \in Nat /\ item.op = op /\ pass = "generate"
  BY <1>0, <1>1, Bracketed DEF Generating, Meets, item, Items
<1>2. \A j : program[j].op # "class" => ThisOf(j) = 0
  BY DEF ThisOf, Classes, ItemsOf
<1>3. ThisOf(0) = 0
  BY DEF ThisOf
<1>4. CASE GenerateModule
  <2>1. Generating("module") /\ Advance /\ UNCHANGED this /\ UNCHANGED program /\ "module" \in Opening
    BY <1>4 DEF GenerateModule, Advance, Opening
  <2>2. PICK s \in {ModuleIn(scopes, curScope, item.name), i} :
          /\ scopeOf' = With(scopeOf, i, s) /\ Push(s, this)
          /\ s # i => s # 0
    BY <1>0, <1>4 DEF GenerateModule
  <2>3. curScope = ScopeNumber(q) /\ curScope \in DOMAIN scopes
    BY <1>0, <1>1, <2>1, StackTop, MetScope
  <2>4. s \in Nat
    <3>1. IsTable(scopes, AllSymbols) /\ item.name \in Name
      BY <1>0, <1>1, <2>1, Tables, NamesOfItems DEF item
    <3>2. \/ ModuleIn(scopes, curScope, item.name) = 0
          \/ \E e \in SymbolsIn(scopes, curScope) : e.type = "MODULE" /\ e.decl = ModuleIn(scopes, curScope, item.name)
      BY <2>3, <3>1, ModuleFound
    <3>3. \A e \in SymbolsIn(scopes, curScope) : e.decl \in Nat
      BY <2>3, Tables, Bracketed DEF AllIn, Items
    <3> QED
      BY <1>1, <2>1, <2>2, <3>2, <3>3
  <2>5. s = ScopeNumber(i)'
    <3>1. scopeOf'[i] = s /\ i # 0 /\ program'[i].op = "module"
      BY <1>1, <2>1, <2>2 DEF With, Items
    <3> QED
      BY <3>1 DEF ScopeNumber
  <2>6. ThisOf(q) = 0 /\ ThisOf(i) = 0
    <3>1. q = 0 \/ program[q].op = "module"
      BY <1>0, <1>1, <2>1, Shaped
    <3> QED
      BY <1>1, <1>2, <1>3, <2>1, <3>1
  <2>7. \E m : scopeOf' = With(scopeOf, i, m)
    BY <2>2
  <2> HIDE DEF Push
  <2> QED
    BY <1>0, <2>1, <2>2, <2>4, <2>5, <2>6, <2>7, OpeningKeepsStack
<1>5. CASE GenerateClass \/ GenerateDef \/ GenerateBlock
  <2>1. PICK op \in {"class", "def", "block"} :
          /\ Generating(op) /\ Advance /\ UNCHANGED <<program, scopeOf>> /\ Push(i, this)
          /\ op = "class" => this' = i
          /\ op = "def" => this' = 0
          /\ op = "block" => UNCHANGED this
    BY <1>0, <1>5 DEF GenerateClass, GenerateDef, GenerateBlock, Advance, generationVars
  <2>2. i \in Items /\ program[i].op = op /\ i \in Nat
    BY <1>1, <2>1
  <2>3. i = ScopeNumber(i)' /\ op \in Opening
    BY <2>1, <2>2 DEF ScopeNumber, Opening
  <2>4. this = ThisOf(q) => this' = ThisOf(i)
    <3>1. op = "class" => ThisOf(i) = i
      BY <2>2 DEF ThisOf, Classes, ItemsOf
    <3>2. op = "block" => q # 0 /\ program[q].op \in {"def", "block"}
      BY <1>0, <2>2, Shaped
    <3> QED
      BY <1>2, <2>1, <2>2, <3>1, <3>2
  <2> HIDE DEF Push
  <2> QED
    BY <1>0, <2>1, <2>2, <2>3, <2>4, OpeningKeepsStack
<1>6. CASE GenerateAlias \/ GenerateVar \/ GenerateUse
  <2>1. PICK op \in {"alias", "var", "use"} :
          Generating(op) /\ at' = at + 1 /\ UNCHANGED <<program, pass, open, scopeOf, this>>
    BY <1>6 DEF GenerateAlias, GenerateVar, GenerateUse, Advance, generationVars
  <2>2. at \in Items /\ program[at].op \notin Opening \cup {"end"}
    BY <1>0, <1>1, <2>1 DEF Opening
  <2>3. Pending(at + 1) = Pending(at) /\ at' \in 1..(Len(program) + 1)
    BY <2>1, <2>2, PendingStays, Bracketed DEF Items
  <2> QED
    BY <1>1, <2>1, <2>3, StackStays
<1>7. CASE GenerateEnd
  <2>1. Generating("end") /\ Pop /\ this' = Last(open).this /\ Advance /\ UNCHANGED scopeOf
    BY <1>7 DEF GenerateEnd
  <2>2. at \in Items /\ item.op = "end" /\ at' = at + 1 /\ UNCHANGED <<program, pass>>
    BY <1>0, <1>1, <2>1 DEF Advance
  <2> QED
    BY <2>1, <2>2, StackShrinks
<1>8. CASE GenerationEnds
  <2>1. UNCHANGED <<program, open, scopeOf>> /\ at = Len(program) + 1 /\ at' = 1 /\ pass' # "generate"
    BY <1>8 DEF GenerationEnds
  <2>2. Pending(1) = {}
    BY DEF Pending
  <2>3. Pending(at) = {}
    <3>1. Len(program) \in Nat
      BY Bracketed
    <3>2. ASSUME NEW j \in Pending(at) PROVE FALSE
      <4>1. j \in Items /\ program[j].op \in Opening /\ at <= End(program, j)
        BY <2>1, <3>1 DEF Pending, Items
      <4>2. End(program, j) \in 1..Len(program)
        BY <4>1, OpeningEnds DEF Items
      <4> QED
        BY <2>1, <3>1, <4>1, <4>2
    <3> QED
      BY <3>2
  <2>4. at' \in 1..(Len(program) + 1)
    BY <2>1, Bracketed
  <2> QED
    BY <2>1, <2>2, <2>3, <2>4, StackStays
<1> QED
  BY <1>4, <1>5, <1>6, <1>7, <1>8 DEF Generate

\* How the tables go on when the declarations are all met: scopes use modules, and
\* classes inherit.
GoesOn(new) ==
    /\ DOMAIN new = DOMAIN scopes
    /\ \A s \in DOMAIN scopes :
          /\ new[s].parent = scopes[s].parent /\ new[s].isDefScope = scopes[s].isDefScope
          /\ new[s].usedScopes \in Seq(Modules)
          /\ SymbolsIn(scopes, s) \subseteq SymbolsIn(new, s)
          /\ \A e \in SymbolsIn(new, s) : e \in SymbolsIn(scopes, s) \/ (s \in Classes /\ e \in AllSymbols)

LEMMA SameGoesOn ==
    ASSUME PlacesInvariant
    PROVE  GoesOn(scopes)
BY DEF PlacesInvariant, GoesOn

LEMMA UseGoesOn ==
    ASSUME program \in Programs, TablesInvariant, PlacesInvariant, pass # "generate", UNCHANGED <<program, pass>>,
           at \in Items, NEW s \in DOMAIN scopes, item.op \in {"module", "block"}, Use(s)
    PROVE  GoesOn(scopes')
<1>1. IsTable(scopes, AllSymbols) /\ Len(program) \in Nat /\ Rooted(scopes, Len(program))
  BY Tables, Places
<1>2. NamesModules(scopes, Modules) /\ 0 \notin Modules
  BY DEF NamesModules, Modules, PlacesInvariant, Symbols, SymbolsIn
<1>3. item.uses \in Seq(Path \ {<< >>})
  <2>1. program \in Seq(Item)
    BY ProgramsAssumption
  <2>2. item \in Item
    BY <2>1 DEF item, Items
  <2> QED
    BY <2>2 DEF Item
<1>4. \A t \in DOMAIN scopes : scopes[t].usedScopes \in Seq(Modules)
  BY DEF PlacesInvariant
<1>5. PICK used \in Seq(Modules) : scopes' = [scopes EXCEPT ![s].usedScopes = used]
  <2>1. PICK used \in Seq(Modules) : BuildUsings(scopes, s, item.uses).scopes = [scopes EXCEPT ![s].usedScopes = used]
    <3>1. UsesModules(scopes, s, item.uses, Modules)
      BY <1>1, <1>2, <1>3, <1>4, UsingsNamed
    <3> QED
      BY <3>1 DEF UsesModules
  <2>2. scopes' = BuildUsings(scopes, s, item.uses).scopes
    BY DEF Use
  <2> QED
    BY <2>1, <2>2
<1>6. \A t \in DOMAIN scopes : SymbolsIn(scopes', t) = SymbolsIn(scopes, t)
  BY <1>1, UseKeepsTables
<1>7. ASSUME NEW t \in DOMAIN scopes
      PROVE  /\ scopes'[t].parent = scopes[t].parent /\ scopes'[t].isDefScope = scopes[t].isDefScope
             /\ scopes'[t].usedScopes \in Seq(Modules)
  <2>1. scopes[t] \in Scopes(scopes[t], AllSymbols)
    BY <1>1 DEF IsTable
  <2>2. scopes'[t] = IF t = s THEN [scopes[t] EXCEPT !.usedScopes = used] ELSE scopes[t]
    BY <1>5
  <2> QED
    BY <1>4, <2>1, <2>2 DEF Scopes
<1>8. DOMAIN scopes' = DOMAIN scopes
  BY <1>5
<1> QED
  BY <1>6, <1>7, <1>8 DEF GoesOn

LEMMA InheritGoesOn ==
    ASSUME program \in Programs, CallsInvariant, TablesInvariant, PlacesInvariant, InheritFrom
    PROVE  GoesOn(scopes')
<1>1. visiting # << >> /\ pass # "generate" /\ UNCHANGED <<program, pass>>
  BY DEF InheritFrom, TablesInvariant
<1> DEFINE from == call.parent
           to == call.class
           copy == CopySymbolsFrom(scopes, from, to)
<1>2. from \in DOMAIN scopes /\ to \in DOMAIN scopes /\ to \in Classes
  <2>1. from \in visited /\ from \in Classes
    BY DEF InheritFrom, CallsInvariant
  <2>2. to \in Classes
    <3>1. Finish(call.parent) /\ call.parent \in visited \cup {0}
      BY <2>1 DEF InheritFrom
    <3> QED
      BY <1>1, <3>1, FinishKeepsCalls
  <2> QED
    BY <1>1, <2>1, <2>2 DEF TablesInvariant
<1>3. scopes' = copy.scopes
  BY DEF InheritFrom
<1>4. IsTable(scopes, AllSymbols)
  BY Tables
<1>5. SymbolsAreCopied(AllSymbols, scopes, from, to, copy)
  BY <1>2, Tables, SymbolsCopied
<1> HIDE DEF copy, from, to
<1>6. /\ DOMAIN scopes' = DOMAIN scopes /\ \A t \in DOMAIN scopes : t # to => scopes'[t] = scopes[t]
      /\ scopes'[to] \in Scopes(scopes[to], AllSymbols)
      /\ SymbolsIn(scopes, to) \subseteq SymbolsIn(scopes', to)
      /\ IsTable(scopes', AllSymbols)
  BY <1>3, <1>5 DEF SymbolsAreCopied
<1>7. AllIn(scopes') \subseteq AllSymbols
  BY <1>6, TableOfItsSymbols
<1>8. ASSUME NEW t \in DOMAIN scopes
      PROVE  /\ scopes'[t].parent = scopes[t].parent /\ scopes'[t].isDefScope = scopes[t].isDefScope
             /\ scopes'[t].usedScopes = scopes[t].usedScopes
             /\ SymbolsIn(scopes, t) \subseteq SymbolsIn(scopes', t)
             /\ \A e \in SymbolsIn(scopes', t) : e \in SymbolsIn(scopes, t) \/ (t \in Classes /\ e \in AllSymbols)
  <2>1. CASE t # to
    BY <1>6, <2>1 DEF SymbolsIn
  <2>2. CASE t = to
    <3>1. scopes'[t] \in Scopes(scopes[t], AllSymbols)
      BY <1>6, <2>2
    <3>2. \A e \in SymbolsIn(scopes', t) : e \in AllSymbols
      BY <1>6, <1>7 DEF AllIn
    <3> QED
      BY <1>2, <1>6, <2>2, <3>1, <3>2 DEF Scopes
  <2> QED
    BY <2>1, <2>2
<1>9. \A t \in DOMAIN scopes : scopes[t].usedScopes \in Seq(Modules)
  BY DEF PlacesInvariant
<1> QED
  BY <1>6, <1>8, <1>9 DEF GoesOn

LEMMA AssignGoesOn ==
    ASSUME program \in Programs, CallsInvariant, TablesInvariant, PlacesInvariant, Assign
    PROVE  GoesOn(scopes') /\ UNCHANGED <<program, scopeOf>> /\ pass # "generate" /\ pass' # "generate"
<1>1. CASE AssignModule \/ AssignBlock
  <2>1. PICK op \in {"module", "block"} :
          /\ Assigning(op) /\ Use(IF op = "module" THEN scopeOf[at] ELSE at) /\ Continue
    BY <1>1 DEF AssignModule, AssignBlock
  <2>2. pass = "assign" /\ at \in Items /\ item.op = op /\ UNCHANGED <<program, pass, scopeOf>> /\ op \in Opening
    BY <2>1 DEF Assigning, Meets, Continue, Opening
  <2>3. Placed(at)
    BY <2>2 DEF PlacesInvariant, Met, item
  <2>4. (IF op = "module" THEN scopeOf[at] ELSE at) \in DOMAIN scopes
    <3>1. op = "module" => scopeOf[at] \in DOMAIN scopes
      BY <2>2, <2>3 DEF Placed, Modules, item
    <3>2. op = "block" => ScopeNumber(at) = at
      BY <2>2, Bracketed DEF ScopeNumber, item, Items
    <3> QED
      BY <2>1, <2>3, <3>1, <3>2 DEF Placed
  <2>5. GoesOn(scopes')
    <3> HIDE DEF Use
    <3> QED
      BY <2>1, <2>2, <2>4, UseGoesOn
  <2> QED
    BY <2>2, <2>5
<1>2. CASE AssignDef \/ AssignVar \/ AssignName \/ AssignClass \/ VisitParent \/ AssignEnd \/ AnalysisEnds
  <2>1. UNCHANGED <<program, scopeOf, scopes>> /\ pass # "generate" /\ pass' # "generate"
    BY <1>2 DEF AssignDef, AssignVar, AssignName, AssignClass, VisitParent, AssignEnd, AnalysisEnds, Assigning,
                Continue
  <2> QED
    BY <2>1, SameGoesOn
<1>3. CASE ResolveParent
  <2>1. UNCHANGED <<program, pass, scopeOf, scopes>> /\ pass # "generate"
    BY <1>3 DEF ResolveParent, Resolved, ParentRead, TablesInvariant
  <2> QED
    BY <2>1, SameGoesOn
<1>4. CASE InheritFrom
  <2>1. UNCHANGED <<program, pass, scopeOf>> /\ pass # "generate"
    BY <1>4 DEF InheritFrom, TablesInvariant
  <2> QED
    BY <1>4, <2>1, InheritGoesOn
<1> QED
  BY <1>1, <1>2, <1>3, <1>4 DEF Assign

\* What is placed stays there.
LEMMA PlacesStay ==
    ASSUME program \in Programs, PlacesInvariant, UNCHANGED <<program, scopeOf>>,
           pass # "generate", pass' # "generate", NEW new, new = scopes', GoesOn(new)
    PROVE  PlacesInvariant'
<1>1. /\ Items' = Items /\ Modules' = Modules
      /\ \A j : ScopeNumber(j)' = ScopeNumber(j) /\ (Barrier(j)' <=> Barrier(j)) /\ Met(j) /\ Met(j)'
      /\ \A j : Encloser(program', j) = Encloser(program, j)
      /\ \A s : Symbols(s) = SymbolsIn(scopes, s) /\ Symbols(s)' = SymbolsIn(new, s)
  <2>1. DOMAIN new = DOMAIN scopes
    BY DEF GoesOn
  <2> QED
    BY <2>1 DEF Items, Modules, ScopeNumber, Barrier, Method, Classes, ItemsOf, Met, Symbols, SymbolsIn
<1>2. \A e : NeedsFrame(e)' <=> NeedsFrame(e)
  BY DEF NeedsFrame
<1>3. /\ DOMAIN new = DOMAIN scopes
      /\ \A s \in DOMAIN scopes :
            /\ new[s].parent = scopes[s].parent /\ new[s].isDefScope = scopes[s].isDefScope
            /\ new[s].usedScopes \in Seq(Modules)
            /\ \A e \in SymbolsIn(new, s) : e \in SymbolsIn(scopes, s) \/ (s \in Classes /\ e \in AllSymbols)
  BY DEF GoesOn
<1>4. /\ 0 \in DOMAIN scopes
      /\ \A s \in DOMAIN scopes : s # 0 => s \in Items /\ program[s].op \in Opening /\ ScopeNumber(s) = s
      /\ \A j \in Items : program[j].op \in Opening => Placed(j)
      /\ \A s \in DOMAIN scopes : \A e \in SymbolsIn(scopes, s) :
            (NeedsFrame(e) => s # 0 /\ program[s].op # "module") /\ (e.type = "MODULE" => e.decl \in Modules)
  BY <1>1 DEF PlacesInvariant
<1>5. ASSUME NEW j \in Items, program[j].op \in Opening
      PROVE  Placed(j)'
  <2>1. PICK t : t = ScopeNumber(j)
    OBVIOUS
  <2>2. /\ t \in DOMAIN scopes /\ t \in 1..j /\ scopes[t].parent = ScopeNumber(Encloser(program, j))
        /\ scopes[t].isDefScope <=> Barrier(j)
        /\ program[j].op = "module" => j \in DOMAIN scopeOf /\ scopeOf[j] \in Modules
    BY <1>4, <1>5, <2>1 DEF Placed
  <2>3. ScopeNumber(Encloser(program, j))' = ScopeNumber(Encloser(program, j))
    BY DEF ScopeNumber
  <2>4. new[t].parent = scopes[t].parent /\ (new[t].isDefScope <=> Barrier(j))
    BY <1>3, <2>2
  <2> QED
    BY <1>1, <1>3, <2>1, <2>2, <2>3, <2>4 DEF Placed
<1>6. ASSUME NEW s \in DOMAIN scopes, NEW e \in SymbolsIn(new, s)
      PROVE  (NeedsFrame(e) => s # 0 /\ program[s].op # "module") /\ (e.type = "MODULE" => e.decl \in Modules)
  <2>1. CASE e \in SymbolsIn(scopes, s)
    BY <1>4, <2>1
  <2>2. CASE s \in Classes /\ e \in AllSymbols
    <3>1. s # 0 /\ program[s].op # "module"
      BY <2>2, FinitelyManyClasses DEF Classes, ItemsOf
    <3>2. \E t \in DOMAIN scopes : e \in SymbolsIn(scopes, t)
      BY <1>1, <2>2 DEF AllSymbols
    <3> QED
      BY <1>4, <3>1, <3>2
  <2> QED
    BY <1>3, <2>1, <2>2
<1>7. \A s \in DOMAIN scopes' : s # 0 => s \in Items' /\ program'[s].op \in Opening /\ Met(s)' /\ ScopeNumber(s)' = s
  BY <1>1, <1>3, <1>4
<1>8. \A j \in Items' : program'[j].op \in Opening /\ Met(j)' => Placed(j)'
  BY <1>1, <1>5
<1>9. \A s \in DOMAIN scopes' : \A e \in Symbols(s)' :
         /\ NeedsFrame(e)' => s # 0 /\ program'[s].op # "module"
         /\ e.type = "MODULE" => e.decl \in Modules' /\ (pass' = "generate" => scopes'[e.decl].parent = s)
  BY <1>1, <1>2, <1>3, <1>6
<1>10. 0 \in DOMAIN scopes' /\ \A s \in DOMAIN scopes' : scopes'[s].usedScopes \in Seq(Modules')
  BY <1>1, <1>3, <1>4
<1> QED
  BY <1>7, <1>8, <1>9, <1>10 DEF PlacesInvariant

\* What can be reached can be reached from then on.
LEMMA ReachGoesOn ==
    ASSUME UNCHANGED <<program, scopeOf>>, NEW new, new = scopes', GoesOn(new), NEW i, NEW e, Reachable(i, e)
    PROVE  Reachable(i, e)'
<1>1. \A j : ScopeNumber(j)' = ScopeNumber(j) /\ (Barrier(j)' <=> Barrier(j))
  BY DEF ScopeNumber, Barrier, Method, Classes, ItemsOf, Items
<1>2. \A s \in DOMAIN scopes : s \in DOMAIN new /\ (e \in Symbols(s) => e \in Symbols(s)')
  <2>1. \A s : Symbols(s) = SymbolsIn(scopes, s) /\ Symbols(s)' = SymbolsIn(new, s)
    BY DEF Symbols, SymbolsIn
  <2> QED
    BY <2>1 DEF GoesOn
<1>3. PICK s \in Enclosing(program, i) \cup {i} :
         /\ ScopeNumber(s) \in {t \in DOMAIN scopes : e \in Symbols(t)}
         /\ \A t \in Enclosing(program, i) \cup {i} : t > s => ~ Barrier(t)
  BY DEF Reachable
<1>4. ScopeNumber(s)' \in {t \in DOMAIN scopes' : e \in Symbols(t)'}
  <2>1. PICK t : t = ScopeNumber(s)
    OBVIOUS
  <2>2. t \in DOMAIN scopes' /\ e \in Symbols(t)'
    BY <1>2, <1>3, <2>1
  <2>3. ScopeNumber(s)' = t
    BY <1>1, <2>1
  <2> QED
    BY <2>2, <2>3
<1> QED
  BY <1>1, <1>3, <1>4 DEF Reachable

LEMMA AssignKeepsStack ==
    ASSUME program \in Programs, TablesInvariant, StackInvariant, PlacesInvariant, Assign,
           UNCHANGED <<program, scopeOf>>, pass # "generate", pass' # "generate"
    PROVE  StackInvariant'
<1>1. \A j : ScopeNumber(j)' = ScopeNumber(j)
  BY DEF ScopeNumber
<1>2. ASSUME NEW op \in {"module", "block", "def", "class"}, Assigning(op), at' = at + 1, UNCHANGED pass,
             Push(IF op = "module" THEN scopeOf[at] ELSE at, 0)
      PROVE  StackInvariant'
  <2>1. PICK i \in Items : i = at /\ item.op = op /\ program[i].op = op /\ op \in Opening
    BY <1>2 DEF Assigning, Meets, item, Opening
  <2>2. PICK s : s = IF op = "module" THEN scopeOf[i] ELSE i
    OBVIOUS
  <2>3. s = ScopeNumber(i)
    BY <2>1, <2>2, Bracketed DEF ScopeNumber, Items
  <2>4. s \in Nat
    BY <2>1, <2>3 DEF PlacesInvariant, Placed, Met
  <2>5. Push(s, 0)
    BY <1>2, <2>1, <2>2
  <2> HIDE DEF Push, Opening
  <2> QED
    BY <1>1, <1>2, <2>1, <2>3, <2>4, <2>5, StackGrows
<1>3. CASE AssignModule \/ AssignBlock \/ AssignDef \/ AssignClass
  <2>1. PICK op \in {"module", "block", "def", "class"} :
          Assigning(op) /\ Continue /\ Push(IF op = "module" THEN scopeOf[at] ELSE at, 0)
    BY <1>3 DEF AssignModule, AssignBlock, AssignDef, AssignClass, Use
  <2>2. at' = at + 1 /\ UNCHANGED pass
    BY <2>1 DEF Continue
  <2> QED
    BY <1>2, <2>1, <2>2
<1>4. CASE AssignVar \/ AssignName
  <2>1. PICK op \in {"var", "use", "alias"} : Assigning(op) /\ Continue /\ UNCHANGED open
    BY <1>4 DEF AssignVar, AssignName
  <2>2. at \in Items /\ program[at].op \notin Opening \cup {"end"} /\ at' = at + 1
    BY <2>1 DEF Assigning, Meets, item, Opening, Continue
  <2>3. Pending(at + 1) = Pending(at) /\ at' \in 1..(Len(program) + 1)
    BY <2>2, PendingStays, Bracketed DEF Items
  <2> QED
    BY <2>1, <2>2, <2>3, StackStays
<1>5. CASE AssignEnd
  <2>1. at \in Items /\ item.op = "end" /\ at' = at + 1 /\ UNCHANGED pass /\ Pop
    BY <1>5 DEF AssignEnd, Assigning, Meets, Continue
  <2> QED
    BY <2>1, StackShrinks
<1>6. CASE VisitParent \/ ResolveParent \/ InheritFrom \/ AnalysisEnds
  <2>1. UNCHANGED <<at, open>>
    BY <1>6 DEF VisitParent, ResolveParent, Resolved, InheritFrom, AnalysisEnds
  <2>2. at' \in 1..(Len(program) + 1)
    BY <2>1 DEF StackInvariant
  <2> QED
    BY <2>1, <2>2, StackStays
<1> QED
  BY <1>3, <1>4, <1>5, <1>6 DEF Assign

----------------------------------------------------------------------------
(* What names mean *)

\* What the first name of a path of one name means.
LEMMA FirstAssigned ==
    ASSUME NEW sc, NEW s, NEW i, NEW found, NEW known, Len(program[i].path) = 1
    PROVE  AssignPath(sc, s, i, found, known).symbols[1] = AssignSymbolic(sc, s, program[i].path[1])
<1> DEFINE n == Len(program[i].path)
           none == [symbols |-> [j \in 1..n |-> << >>], known |-> known, errors |-> {}]
           result[k \in 0..n] ==
               IF k = 0 THEN [symbols |-> [j \in 1..n |-> << >>], known |-> known, errors |-> {}]
               ELSE AssignNext(sc, s, i, found, result[k - 1], k)
           g == [k \in 0..n |-> IF k = 0 THEN none ELSE AssignNext(sc, s, i, found, none, k)]
<1>1. AssignPath(sc, s, i, found, known) = result[n]
  BY DEF AssignPath
<1>2. g = [k \in 0..n |-> IF k = 0 THEN [symbols |-> [j \in 1..n |-> << >>], known |-> known, errors |-> {}]
                          ELSE AssignNext(sc, s, i, found, g[k - 1], k)]
  <2> HIDE DEF none
  <2>1. g[0] = none /\ \A k \in 0..n : k # 0 => k = 1
    OBVIOUS
  <2> HIDE DEF g
  <2>2. \A k \in 0..n : k # 0 => g[k - 1] = none
    BY <2>1
  <2>3. [k \in 0..n |-> IF k = 0 THEN none ELSE AssignNext(sc, s, i, found, none, k)]
          = [k \in 0..n |-> IF k = 0 THEN none ELSE AssignNext(sc, s, i, found, g[k - 1], k)]
    BY <2>2
  <2> QED
    BY <2>3 DEF g, none
<1> HIDE DEF g
<1>3. result = [k \in 0..n |-> IF k = 0 THEN [symbols |-> [j \in 1..n |-> << >>], known |-> known, errors |-> {}]
                               ELSE AssignNext(sc, s, i, found, result[k - 1], k)]
  BY <1>2
<1> HIDE DEF result
<1>4. result[0] = none
  BY <1>3
<1>5. result[1] = AssignNext(sc, s, i, found, none, 1)
  <2> HIDE DEF none
  <2>1. 1 \in 0..n /\ 1 # 0 /\ 1 - 1 = 0
    OBVIOUS
  <2>2. result[1] = AssignNext(sc, s, i, found, result[1 - 1], 1)
    BY <1>3, <2>1
  <2> QED
    BY <1>4, <2>1, <2>2
<1>6. n = 1 /\ 1 \in DOMAIN none.symbols
  OBVIOUS
<1>7. AssignNext(sc, s, i, found, none, 1) = Put(none, i, 1, AssignSymbolic(sc, s, program[i].path[1]))
  BY DEF AssignNext
<1>8. Put(none, i, 1, AssignSymbolic(sc, s, program[i].path[1])).symbols[1] = AssignSymbolic(sc, s, program[i].path[1])
  BY DEF Put
<1> QED
  BY <1>1, <1>5, <1>6, <1>7, <1>8

\* What a name that is resolved now means can be reached.
LEMMA FoundNow ==
    ASSUME program \in Programs, TablesInvariant, PlacesInvariant, pass # "generate",
           NEW i \in Items, program[i].op \in {"use", "alias", "class"}, Len(program[i].path) = 1,
           NEW s, s = IF program[i].op = "class" THEN i ELSE ScopeNumber(Encloser(program, i)),
           NEW e \in ToSet(AssignSymbolic(scopes, s, program[i].path[1])), NeedsFrame(e)
    PROVE  Reachable(i, e)
<1>1. program[i].path[1] \in Name
  <2>1. program[i] \in Item
    BY ProgramsAssumption DEF Items
  <2>2. program[i].path \in Path
    BY <2>1 DEF Item
  <2> QED
    BY <2>2 DEF Path
<1>2. i \in Nat /\ i # 0 /\ Met(i)
  BY Bracketed DEF Items, Met
<1>3. CASE program[i].op = "class"
  <2>1. Scoped(i) /\ ScopeNumber(i) = s
    BY <1>2, <1>3 DEF Scoped, ScopeNumber, Opening
  <2> QED
    BY <1>1, <1>2, <2>1, FoundIsReachable
<1>4. CASE program[i].op # "class"
  <2> DEFINE q == Encloser(program, i)
  <2>1. EnclosedIn(i, q)
    BY Enclosers
  <2>2. q \in Nat /\ Scoped(q) /\ s = ScopeNumber(q)
    <3>1. Met(q)
      BY DEF Met
    <3> QED
      BY <1>2, <1>4, <2>1, <3>1 DEF EnclosedIn, Scoped
  <2> HIDE DEF q
  <2>3. q # 0 /\ Reachable(q, e)
    BY <1>1, <2>2, FoundIsReachable
  <2>4. ~ Barrier(i)
    BY <1>4 DEF Barrier, Classes, ItemsOf
  <2> QED
    BY <2>3, <2>4, ReachesInside DEF q
<1> QED
  BY <1>3, <1>4

\* A name that means now what can be reached.
LEMMA FoundGoesOn ==
    ASSUME FoundInvariant, UNCHANGED <<program, scopeOf>>, pass' # "generate", GoesOn(scopes'),
           \/ UNCHANGED assigned
           \/ \E i, symbols : /\ assigned' = With(assigned, i, symbols)
                              /\ Len(program[i].path) = 1 =>
                                    \A e \in ToSet(symbols[1]) : NeedsFrame(e) => Reachable(i, e)
    PROVE  FoundInvariant'
<1>1. ASSUME NEW i \in DOMAIN assigned', Len(program[i].path) = 1,
             NEW e \in ToSet(assigned'[i][1]), NeedsFrame(e)
      PROVE  Reachable(i, e)'
  <2>1. Reachable(i, e)
    <3>1. CASE i \in DOMAIN assigned /\ assigned'[i] = assigned[i]
      BY <1>1, <3>1 DEF FoundInvariant, Single
    <3>2. CASE ~ (i \in DOMAIN assigned /\ assigned'[i] = assigned[i])
      <4>1. PICK j, symbols : /\ assigned' = With(assigned, j, symbols)
                              /\ Len(program[j].path) = 1 =>
                                    \A f \in ToSet(symbols[1]) : NeedsFrame(f) => Reachable(j, f)
        BY <1>1, <3>2
      <4>2. i = j /\ assigned'[i] = symbols
        BY <1>1, <3>2, <4>1 DEF With
      <4> QED
        BY <1>1, <4>1, <4>2
    <3> QED
      BY <3>1, <3>2
  <2>2. PICK new : new = scopes'
    OBVIOUS
  <2> QED
    BY <2>1, <2>2, ReachGoesOn
<1>2. \A e : NeedsFrame(e)' <=> NeedsFrame(e)
  BY DEF NeedsFrame
<1> QED
  BY <1>1, <1>2 DEF FoundInvariant, Single

LEMMA AssignKeepsFound ==
    ASSUME program \in Programs, CallsInvariant, TablesInvariant, StackInvariant, PlacesInvariant, FoundInvariant, Assign,
           UNCHANGED <<program, scopeOf>>, pass # "generate", pass' # "generate", GoesOn(scopes')
    PROVE  FoundInvariant'
<1>1. ASSUME NEW i \in Items, program[i].op \in {"use", "alias", "class"},
             NEW s, s = IF program[i].op = "class" THEN i ELSE ScopeNumber(Encloser(program, i)),
             assigned' = With(assigned, i, AssignPath(scopes, s, i, assigned, typeOf).symbols)
      PROVE  FoundInvariant'
  <2>1. PICK symbols : symbols = AssignPath(scopes, s, i, assigned, typeOf).symbols
    OBVIOUS
  <2>2. ASSUME Len(program[i].path) = 1, NEW e \in ToSet(symbols[1]), NeedsFrame(e)
        PROVE  Reachable(i, e)
    <3>1. symbols[1] = AssignSymbolic(scopes, s, program[i].path[1])
      BY <2>1, <2>2, FirstAssigned
    <3> QED
      BY <1>1, <2>2, <3>1, FoundNow
  <2>3. assigned' = With(assigned, i, symbols)
    BY <1>1, <2>1
  <2> QED
    BY <2>2, <2>3, FoundGoesOn
<1>2. CASE AssignName
  <2>1. /\ at \in Items /\ item = program[at] /\ item.op \in {"use", "alias"}
        /\ assigned' = With(assigned, at, AssignPath(scopes, curScope, at, assigned, typeOf).symbols)
    BY <1>2 DEF AssignName, Assigning, Meets, item
  <2>2. curScope = ScopeNumber(Encloser(program, at))
    BY <2>1, StackTop
  <2> QED
    BY <1>1, <2>1, <2>2
<1>3. CASE ResolveParent
  <2>1. PICK c : c = call.class
    OBVIOUS
  <2>2. assigned' = Super(scopes, c, assigned, typeOf).found
    BY <1>3, <2>1 DEF ResolveParent, Resolved
  <2>3. c \in Items /\ program[c].op = "class"
    <3>1. visiting \in Seq([class : Classes, parent : Classes \cup {0}]) /\ visiting # << >>
      BY <1>3 DEF ResolveParent, ParentRead, CallsInvariant
    <3>2. c \in Classes
      <4>1. Len(visiting) \in 1..Len(visiting) /\ c = visiting[Len(visiting)].class
        BY <2>1, <3>1 DEF call, Last
      <4>2. visiting[Len(visiting)] \in [class : Classes, parent : Classes \cup {0}]
        BY <3>1, <4>1, ElementOfSeq
      <4> QED
        BY <4>1, <4>2
    <3> QED
      BY <3>2 DEF Classes, ItemsOf
  <2>4. CASE program[c].path = << >>
    <3>1. assigned' = assigned
      BY <2>2, <2>4 DEF Super
    <3> QED
      BY <3>1, FoundGoesOn
  <2>5. CASE program[c].path # << >>
    <3>1. assigned' = With(assigned, c, AssignPath(scopes, c, c, assigned, typeOf).symbols)
      BY <2>2, <2>5 DEF Super, SuperNamed
    <3> QED
      BY <1>1, <2>3, <3>1
  <2> QED
    BY <2>4, <2>5
<1>4. CASE ~ AssignName /\ ~ ResolveParent
  <2>1. UNCHANGED assigned
    BY <1>4 DEF Assign, AssignModule, AssignBlock, AssignDef, AssignVar, AssignClass, VisitParent, InheritFrom,
                AssignEnd, AnalysisEnds, assignationVars
  <2> QED
    BY <2>1, FoundGoesOn
<1> QED
  BY <1>2, <1>3, <1>4

----------------------------------------------------------------------------
(* What is out of reach is never found *)

\* Before anything is met, the scope of the program is open and empty.
LEMMA ReachStarts ==
    ASSUME Init
    PROVE  ReachInvariant
<1>1. InheritanceInvariant /\ AllSymbols = {} /\ program \in Programs
  BY InheritanceStarts DEF Init
<1>2. /\ at = 1 /\ pass = "generate" /\ this = 0 /\ open = <<[scope |-> 0, this |-> 0]>>
      /\ scopes = [s \in {0} |-> NewScope(0, FALSE)] /\ DOMAIN assigned = {}
  BY DEF Init
<1>3. StackInvariant
  <2>1. Pending(1) = {} /\ at \in 1..(Len(program) + 1)
    BY <1>1, <1>2, Bracketed DEF Pending
  <2>2. PICK q \in [1..1 -> {} \cup {0}] : q[1] = 0
    <3> DEFINE z == [k \in 1..1 |-> 0]
    <3>1. z \in [1..1 -> {} \cup {0}] /\ z[1] = 0
      OBVIOUS
    <3> HIDE DEF z
    <3> QED
      BY <3>1
  <2>3. Chain({}, q, 1)
    BY <2>2 DEF Chain
  <2>4. Len(open) = 1 /\ open[1] = [scope |-> 0, this |-> 0] /\ open \in Seq([scope : Nat, this : Nat])
    BY <1>2
  <2>5. ScopeNumber(0) = 0 /\ ThisOf(0) = 0
    BY DEF ScopeNumber, ThisOf
  <2>6. OpenOn(q)
    <3>1. \A k \in 1..1 : open[k].scope = ScopeNumber(q[k])
      BY <2>2, <2>4, <2>5
    <3>2. this = ThisOf(q[1])
      BY <1>2, <2>2, <2>5
    <3>3. Pending(at) = {} /\ ~ (\E k \in 2..1 : TRUE)
      BY <1>2, <2>1
    <3> QED
      BY <1>2, <2>3, <2>4, <3>1, <3>2, <3>3 DEF OpenOn
  <2> QED
    BY <1>2, <2>1, <2>4, <2>6 DEF StackInvariant
<1>4. PlacesInvariant
  <2>1. DOMAIN scopes = {0} /\ scopes[0] = NewScope(0, FALSE)
    BY <1>2
  <2>2. scopes[0].usedScopes = << >> /\ Symbols(0) = {}
    BY <2>1 DEF NewScope, Symbols, ToSet
  <2>3. \A i \in Items : ~ Met(i)
    BY <1>1, <1>2, Bracketed DEF Items, Met
  <2> QED
    BY <2>1, <2>2, <2>3 DEF PlacesInvariant
<1>5. FoundInvariant
  BY <1>2 DEF FoundInvariant, Single
<1> QED
  BY <1>1, <1>3, <1>4, <1>5 DEF ReachInvariant

LEMMA ReachKept ==
    ASSUME ReachInvariant, [Next]_vars
    PROVE  ReachInvariant'
<1>1. /\ program \in Programs /\ CallsInvariant /\ TablesInvariant
      /\ StackInvariant /\ PlacesInvariant /\ FoundInvariant
  BY DEF ReachInvariant, InheritanceInvariant, SupersInvariant
<1>2. InheritanceInvariant'
  BY InheritanceKept DEF ReachInvariant
<1>3. CASE Generate
  <2>1. StackInvariant' /\ PlacesInvariant'
    BY <1>1, <1>3, GenerationKeepsStack, GenerationKeepsPlaces
  <2>2. pass = "generate" /\ UNCHANGED assigned
    BY <1>3 DEF Generate, GenerateModule, GenerateClass, GenerateAlias, GenerateDef, GenerateBlock, GenerateVar,
                GenerateUse, GenerateEnd, GenerationEnds, Generating, Advance, assignationVars
  <2>3. FoundInvariant'
    BY <1>1, <2>2 DEF FoundInvariant, Single
  <2> QED
    BY <1>2, <2>1, <2>3 DEF ReachInvariant
<1>4. CASE Assign
  <2>1. GoesOn(scopes') /\ UNCHANGED <<program, scopeOf>> /\ pass # "generate" /\ pass' # "generate"
    BY <1>1, <1>4, AssignGoesOn
  <2>2. StackInvariant' /\ FoundInvariant'
    BY <1>1, <1>4, <2>1, AssignKeepsStack, AssignKeepsFound
  <2>3. PlacesInvariant'
    BY <1>1, <2>1, PlacesStay
  <2> QED
    BY <1>2, <2>2, <2>3 DEF ReachInvariant
<1>5. CASE Terminated \/ UNCHANGED vars
  <2>1. UNCHANGED <<program, pass, at, scopes, open, scopeOf, this, assigned>>
    BY <1>5 DEF Terminated, vars, generationVars, assignationVars
  <2>2. StackInvariant'
    <3>1. at' \in 1..(Len(program) + 1)
      BY <1>1, <2>1 DEF StackInvariant
    <3> QED
      BY <1>1, <2>1, <3>1, StackStays
  <2>3. /\ \A s : Symbols(s)' = Symbols(s) /\ ScopeNumber(s)' = ScopeNumber(s)
        /\ \A j : (Met(j)' <=> Met(j)) /\ (Barrier(j)' <=> Barrier(j)) /\ (Placed(j) <=> Placed(j)')
        /\ \A e : NeedsFrame(e)' <=> NeedsFrame(e)
        /\ Items' = Items /\ Modules' = Modules /\ Single' = Single
    BY <2>1 DEF Symbols, ScopeNumber, Met, Barrier, Method, Classes, ItemsOf, Placed, NeedsFrame, Items, Modules, Single
  <2>4. PlacesInvariant'
    BY <1>1, <2>1, <2>3 DEF PlacesInvariant
  <2>5. \A i, e : Reachable(i, e)' <=> Reachable(i, e)
    BY <2>1, <2>3 DEF Reachable
  <2>6. FoundInvariant'
    BY <1>1, <2>1, <2>3, <2>5 DEF FoundInvariant
  <2> QED
    BY <1>2, <2>2, <2>4, <2>6 DEF ReachInvariant
<1> QED
  BY <1>3, <1>4, <1>5 DEF Next

\* For every program, no name is ever given a variable or a method whose frame or
\* instance is out of reach where the name is used: between the use and the scope
\* in which assignSymbolic found it there is no definition that is no method, and
\* no class right inside a class; and what the modules used declare needs none.
THEOREM NamesReach == Spec => []ThisReaches
<1>1. Init => ReachInvariant
  BY ReachStarts
<1>2. ReachInvariant /\ [Next]_vars => ReachInvariant'
  BY ReachKept
<1>3. ReachInvariant => ThisReaches
  BY DEF ReachInvariant, FoundInvariant, ThisReaches
<1> QED
  BY <1>1, <1>2, <1>3, PTL DEF Spec

----------------------------------------------------------------------------
(* Symbols are under their names *)

\* A step of the generation keeps symbols under their names.
LEMMA DeclaredWellNamed ==
    ASSUME TablesInvariant, WellNamed(scopes), UNCHANGED program,
           NEW i, NEW sc, sc = scopes \/ \E p, d : sc = With(scopes, i, NewScope(p, d)), NEW s, NEW n, NEW e,
           scopes' = sc \/ (n \in Name /\ program[e.decl].name = n /\ scopes' = AddEntry(sc, s, n, e))
    PROVE  WellNamed(scopes)'
<1> DEFINE S == AllSymbols \cup {e}
<1>1. IsTable(scopes, S)
  BY Tables, MoreSymbols
<1>2. IsTable(sc, S)
  <2>1. CASE sc = scopes
    BY <1>1, <2>1
  <2>2. CASE \E p, d : sc = With(scopes, i, NewScope(p, d))
    <3>1. PICK p, d : sc = With(scopes, i, NewScope(p, d))
      BY <2>2
    <3>2. Grown(S, scopes, e, sc)
      <4> HIDE DEF S
      <4> QED
        BY <1>1, <3>1, NestedIsTable
    <3> QED
      BY <3>2 DEF Grown
  <2> QED
    BY <2>1, <2>2
<1>3. WellNamed(sc)
  <2>1. CASE sc = scopes
    BY <2>1
  <2>2. CASE \E p, d : sc = With(scopes, i, NewScope(p, d))
    <3>1. PICK p, d : sc = With(scopes, i, NewScope(p, d))
      BY <2>2
    <3> SUFFICES ASSUME NEW t \in DOMAIN sc, NEW m \in Name, NEW x \in ToSet(sc[t].symbols[m])
                 PROVE  program[x.decl].name = m
      BY DEF WellNamed
    <3>2. CASE t = i
      <4>1. sc[t].symbols[m] = << >>
        BY <3>1, <3>2 DEF With, NewScope
      <4> QED
        BY <4>1 DEF ToSet
    <3>3. CASE t # i
      <4>1. t \in DOMAIN scopes /\ sc[t] = scopes[t]
        BY <3>1, <3>3 DEF With
      <4> QED
        BY <4>1 DEF WellNamed
    <3> QED
      BY <3>2, <3>3
  <2> QED
    BY <2>1, <2>2
<1>4. WellNamed(scopes')
  <2>1. CASE scopes' = sc
    BY <1>3, <2>1
  <2>2. CASE n \in Name /\ program[e.decl].name = n /\ scopes' = AddEntry(sc, s, n, e)
    <3> DEFINE new == AddEntry(sc, s, n, e)
    <3>1. WellNamed(new)
      <4>1. e \in S /\ n \in Name /\ program[e.decl].name = n
        BY <2>2
      <4> HIDE DEF S
      <4> QED
        BY <1>2, <1>3, <4>1, AddedKeepsNames
    <3> QED
      BY <2>2, <3>1
  <2> QED
    BY <2>1, <2>2
<1> QED
  BY <1>4 DEF WellNamed

LEMMA GenerationKeepsNamed ==
    ASSUME TablesInvariant, program \in Programs, WellNamed(scopes), Generate
    PROVE  WellNamed(scopes)'
<1>1. ASSUME UNCHANGED <<program, scopes>> PROVE WellNamed(scopes)'
  BY <1>1 DEF WellNamed
<1>2. ASSUME NEW op \in {"module", "class", "alias", "def", "block", "var"}, Generating(op), Advance,
             NEW type, NEW owner, NEW constructor,
             NEW sc, sc = scopes \/ \E isDefScope : sc = Nested(isDefScope),
             scopes' = sc \/ (op # "block" /\ scopes' = Declared(sc, type, owner, constructor))
      PROVE  WellNamed(scopes)'
  <2> DEFINE e == Symbol(at, type, owner, constructor)
  <2>1. at \in Items /\ program[at].op = op /\ UNCHANGED program
    BY <1>2 DEF Generating, Meets, item, Advance
  <2>2. e.decl = at
    BY DEF Symbol
  <2>3. scopes' = sc \/ (item.name \in Name /\ program[e.decl].name = item.name
                         /\ scopes' = AddEntry(sc, curScope, item.name, e))
    BY <1>2, <2>1, <2>2, NamesOfItems DEF Declared, item
  <2>4. sc = scopes \/ \E p, d : sc = With(scopes, at, NewScope(p, d))
    BY <1>2 DEF Nested
  <2> HIDE DEF e
  <2> QED
    BY <2>1, <2>3, <2>4, DeclaredWellNamed
<1>3. CASE GenerateModule
  <2>1. Generating("module") /\ Advance /\ (UNCHANGED scopes \/ scopes' = Declared(Nested(FALSE), "MODULE", 0, FALSE))
    BY <1>3 DEF GenerateModule
  <2>2. UNCHANGED program
    BY <2>1 DEF Advance
  <2> QED
    BY <1>1, <1>2, <2>1, <2>2
<1>4. CASE GenerateClass
  <2>1. Generating("class") /\ Advance /\ scopes' = Declared(Nested(this # 0), "TPE", 0, FALSE)
    BY <1>4 DEF GenerateClass
  <2> QED
    BY <1>2, <2>1
<1>5. CASE GenerateAlias
  <2>1. Generating("alias") /\ Advance /\ scopes' = Declared(scopes, "TPE", 0, FALSE)
    BY <1>5 DEF GenerateAlias
  <2> QED
    BY <1>2, <2>1
<1>6. CASE GenerateDef
  <2>1. PICK owner \in {IF item.flag = "static" THEN 0 ELSE this} :
          scopes' = Declared(Nested(owner = 0), "DEF", owner, item.flag = "constructor")
    BY <1>6 DEF GenerateDef
  <2>2. Generating("def") /\ Advance
    BY <1>6 DEF GenerateDef
  <2> QED
    BY <1>2, <2>1, <2>2
<1>7. CASE GenerateBlock
  <2>1. Generating("block") /\ Advance /\ scopes' = Nested(FALSE)
    BY <1>7 DEF GenerateBlock
  <2> QED
    BY <1>2, <2>1
<1>8. CASE GenerateVar
  <2>1. Generating("var") /\ Advance /\ scopes' = Declared(scopes, "VAR", 0, FALSE)
    BY <1>8 DEF GenerateVar
  <2> QED
    BY <1>2, <2>1
<1>9. CASE GenerateUse \/ GenerateEnd \/ GenerationEnds
  <2>1. UNCHANGED <<program, scopes>>
    BY <1>9 DEF GenerateUse, GenerateEnd, GenerationEnds, Advance
  <2> QED
    BY <1>1, <2>1
<1> QED
  BY <1>3, <1>4, <1>5, <1>6, <1>7, <1>8, <1>9 DEF Generate

----------------------------------------------------------------------------
(* What is found is the closest *)

\* What can be found in a scope is.
LEMMA SomeInScope ==
    ASSUME NEW S, NEW sc, IsTable(sc, S), NEW s \in DOMAIN sc, NEW n \in Name, NEW crossed \in BOOLEAN,
           NEW e \in ToSet(sc[s].symbols[n]), Accessible(e, crossed)
    PROVE  InScope(sc, s, n, crossed) # << >>
<1> DEFINE found == sc[s].symbols[n]
           q == [k \in 1..Len(found) |-> One(found[k], Accessible(found[k], crossed))]
<1>1. found \in Seq(S) /\ Len(found) \in Nat
  BY DEF IsTable, Scopes
<1>2. PICK k \in 1..Len(found) : found[k] = e
  BY <1>1 DEF ToSet
<1>3. \A j \in 1..Len(found) : q[j] \in Seq(S)
  <2>1. ASSUME NEW j \in 1..Len(found) PROVE q[j] \in Seq(S)
    <3>1. found[j] \in S /\ Accessible(found[j], crossed) \in BOOLEAN
      BY <1>1, ElementOfSeq DEF Accessible
    <3> HIDE DEF found
    <3> QED
      BY <3>1, OneCounts
  <2> HIDE DEF q
  <2> QED
    BY <2>1
<1>4. q[k] = <<e>> /\ Len(q) = Len(found)
  BY <1>1, <1>2 DEF One
<1>5. Len(q) = 0 => q = << >>
  BY <1>1, <1>2, <1>4
<1>6. InScope(sc, s, n, crossed) = FlattenSeq(q)
  BY DEF InScope
<1> HIDE DEF q, found
<1>7. FlattenSeq(q) \in Seq(S) /\ \E m \in 1..Len(FlattenSeq(q)) : FlattenSeq(q)[m] = q[k][1]
  <2>1. k \in 1..Len(q) /\ 1 \in 1..Len(q[k]) /\ Len(q) \in Nat
    BY <1>1, <1>2, <1>4
  <2>2. \A j \in 1..Len(q) : q[j] \in Seq(S)
    BY <1>3, <1>4
  <2>3. /\ FlattenSeq(q) \in Seq(S)
        /\ \A i \in 1..Len(q) : \A j \in 1..Len(q[i]) :
              \E m \in 1..Len(FlattenSeq(q)) : FlattenSeq(q)[m] = q[i][j]
    BY <1>5, <2>1, <2>2, FlattenedHasAll
  <2> QED
    BY <2>1, <2>3
<1> QED
  BY <1>6, <1>7

LEMMA SomeInUsings ==
    ASSUME NEW S, NEW sc, IsTable(sc, S), NEW s \in DOMAIN sc, NEW n \in Name, NEW crossed \in BOOLEAN,
           sc[s].usedScopes \in Seq(DOMAIN sc), NEW u \in ToSet(sc[s].usedScopes),
           InScope(sc, u, n, crossed) # << >>
    PROVE  InUsings(sc, s, n, crossed) # << >>
<1> DEFINE used == sc[s].usedScopes
           q == [k \in 1..Len(used) |-> InScope(sc, used[k], n, crossed)]
<1>1. Len(used) \in Nat /\ \A k \in 1..Len(used) : used[k] \in DOMAIN sc
  BY ElementOfSeq
<1>2. PICK k \in 1..Len(used) : used[k] = u
  BY <1>1 DEF ToSet
<1>3. \A j \in 1..Len(used) : q[j] \in Seq(S)
  <2>1. ASSUME NEW j \in 1..Len(used) PROVE q[j] \in Seq(S)
    <3>1. InScope(sc, used[j], n, crossed) \in Seq(Findable(sc, used[j], crossed))
      <4>1. PICK t \in DOMAIN sc : t = used[j]
        BY <1>1
      <4> HIDE DEF used
      <4> QED
        BY <4>1, FoundInScope
    <3>2. Findable(sc, used[j], crossed) \subseteq S
      <4>1. PICK t \in DOMAIN sc : t = used[j]
        BY <1>1
      <4>2. SymbolsIn(sc, t) \subseteq S
        <5>1. sc[t].symbols \in [Name -> Seq(S)]
          BY DEF IsTable, Scopes
        <5> QED
          BY <5>1 DEF SymbolsIn, ToSet
      <4> QED
        BY <4>1, <4>2 DEF Findable
    <3> HIDE DEF used
    <3> QED
      BY <3>1, <3>2
  <2> HIDE DEF q
  <2> QED
    BY <2>1
<1>4. q[k] = InScope(sc, u, n, crossed) /\ Len(q) = Len(used)
  BY <1>1, <1>2
<1>5. InUsings(sc, s, n, crossed) = FlattenSeq(q)
  BY DEF InUsings
<1> HIDE DEF q, used
<1>6. FlattenSeq(q) \in Seq(S) /\ \E m \in 1..Len(FlattenSeq(q)) : FlattenSeq(q)[m] = q[k][1]
  <2>1. q[k] \in Seq(S) /\ q[k] # << >>
    BY <1>3, <1>4
  <2>2. k \in 1..Len(q) /\ 1 \in 1..Len(q[k]) /\ Len(q) \in Nat
    BY <1>1, <1>4, <2>1
  <2>3. Len(q) # 0
    BY <2>2
  <2>4. \A j \in 1..Len(q) : q[j] \in Seq(S)
    BY <1>3, <1>4
  <2>5. /\ FlattenSeq(q) \in Seq(S)
        /\ \A i \in 1..Len(q) : \A j \in 1..Len(q[i]) :
              \E m \in 1..Len(FlattenSeq(q)) : FlattenSeq(q)[m] = q[i][j]
    BY <2>2, <2>3, <2>4, FlattenedHasAll
  <2> QED
    BY <2>2, <2>5
<1> QED
  BY <1>5, <1>6

\* The scopes on the way from the scope of an item up to that of the program, of
\* which every one comes after those above it.
WayFrom(j) == {ScopeNumber(s) : s \in Enclosing(program, j) \cup {j, 0}}
WayBelow(j) == \A w \in WayFrom(j) : w \in DOMAIN scopes /\ w <= ScopeNumber(j)

LEMMA WayUp ==
    ASSUME program \in Programs, NEW i \in Items, NEW p, p = Encloser(program, i)
    PROVE  WayTo(i) = WayFrom(p) /\ WayFrom(i) = WayFrom(p) \cup {ScopeNumber(i)}
<1>1. EnclosedIn(i, p)
  BY Enclosers
<1>2. Enclosing(program, i) \cup {0} = Enclosing(program, p) \cup {p, 0}
  <2>1. CASE p = 0
    <3>1. Enclosing(program, 0) = {}
      BY DEF Enclosing
    <3> QED
      BY <1>1, <2>1, <3>1 DEF EnclosedIn
  <2>2. CASE p # 0
    BY <1>1, <2>2 DEF EnclosedIn
  <2> QED
    BY <2>1, <2>2
<1>3. WayTo(i) = WayFrom(p)
  BY <1>2 DEF WayTo, WayFrom
<1>4. WayFrom(i) = WayTo(i) \cup {ScopeNumber(i)}
  BY DEF WayTo, WayFrom
<1> QED
  BY <1>3, <1>4

\* Where the scope of an item is, and that of the item around it.
Inside(j, p) ==
    /\ p \in 0..(j - 1) /\ Scoped(p)
    /\ ScopeNumber(j) \in DOMAIN scopes /\ ScopeNumber(j) # 0 /\ scopes[ScopeNumber(j)].parent = ScopeNumber(p)
    /\ ScopeNumber(p) \in Nat /\ ScopeNumber(j) \in Nat /\ ScopeNumber(p) < ScopeNumber(j)
LEMMA ScopedInside ==
    ASSUME program \in Programs, TablesInvariant, PlacesInvariant, NEW j \in Nat, Scoped(j), j # 0
    PROVE  Inside(j, Encloser(program, j))
<1>1. j \in Items /\ program[j].op \in Opening /\ Met(j)
  BY DEF Scoped
<1>2. PICK p : p = Encloser(program, j)
  OBVIOUS
<1>3. EnclosedIn(j, p)
  BY <1>1, <1>2, Enclosers
<1>4. p \in 0..(j - 1) /\ Met(p) /\ Scoped(p)
  BY <1>1, <1>2, <1>3, Places DEF EnclosedIn, Scoped
<1>5. /\ ScopeNumber(j) \in DOMAIN scopes /\ ScopeNumber(j) \in 1..j
      /\ scopes[ScopeNumber(j)].parent = ScopeNumber(p)
  BY <1>1, <1>2 DEF PlacesInvariant, Placed
<1>6. ScopeNumber(p) \in DOMAIN scopes /\ ScopeNumber(p) < ScopeNumber(j) /\ ScopeNumber(p) \in Nat
  <2>1. Rooted(scopes, Len(program)) /\ Len(program) \in Nat
    BY Places
  <2> QED
    BY <1>5, <2>1 DEF Rooted
<1> QED
  BY <1>2, <1>4, <1>5, <1>6 DEF Inside

LEMMA WaysOrdered ==
    ASSUME program \in Programs, TablesInvariant, PlacesInvariant, NEW j \in Nat, Scoped(j)
    PROVE  WayBelow(j)
<1> DEFINE T == {k \in Nat : \A i \in 0..(k - 1) : Scoped(i) => WayBelow(i)}
<1>1. ASSUME NEW k \in Nat, k \in T, Scoped(k)
      PROVE  WayBelow(k)
  <2>1. CASE k = 0
    <3>1. Enclosing(program, 0) = {} /\ ScopeNumber(0) = 0
      BY DEF Enclosing, ScopeNumber
    <3>2. WayFrom(0) = {0} /\ 0 \in DOMAIN scopes
      BY <3>1 DEF WayFrom, PlacesInvariant
    <3> QED
      BY <2>1, <3>1, <3>2 DEF WayBelow
  <2>2. CASE k # 0
    <3>1. PICK p : p = Encloser(program, k)
      OBVIOUS
    <3>2. Inside(k, p) /\ k \in Items
      BY <1>1, <2>2, <3>1, ScopedInside DEF Scoped
    <3>3. WayFrom(k) = WayFrom(p) \cup {ScopeNumber(k)}
      BY <3>1, <3>2, WayUp
    <3>4. WayBelow(p)
      BY <1>1, <3>2 DEF Inside
    <3>5. ASSUME NEW w \in WayFrom(p)
          PROVE  w \in DOMAIN scopes /\ w <= ScopeNumber(k)
      <4>1. w \in DOMAIN scopes /\ w <= ScopeNumber(p)
        BY <3>4 DEF WayBelow
      <4>2. w \in Nat
        BY <4>1, Places DEF Rooted
      <4> QED
        BY <3>2, <4>1, <4>2 DEF Inside
    <3> QED
      BY <3>2, <3>3, <3>5 DEF WayBelow, Inside
  <2> QED
    BY <2>1, <2>2
<1>2. 0 \in T
  OBVIOUS
<1>3. ASSUME NEW k \in Nat, k \in T
      PROVE  k + 1 \in T
  <2>1. Scoped(k) => WayBelow(k)
    BY <1>1, <1>3
  <2>2. \A i \in 0..(k + 1 - 1) : i \in 0..(k - 1) \/ i = k
    OBVIOUS
  <2> QED
    BY <1>3, <2>1, <2>2
<1> HIDE DEF T
<1>4. j \in T
  BY <1>2, <1>3, NumberInduction
<1> QED
  BY <1>1, <1>4

\* Nothing of a name is in a scope that has none under it, nor in the modules
\* it uses, if nothing is found there.
LEMMA NoneUnder ==
    ASSUME NEW t \in DOMAIN scopes, NEW n \in Name, WellNamed(scopes), scopes[t].symbols[n] = << >>
    PROVE  Named(Symbols(t), n) = {}
<1> SUFFICES ASSUME NEW e \in Symbols(t), program[e.decl].name = n
             PROVE  FALSE
  BY DEF Named
<1>1. PICK m \in Name : e \in ToSet(scopes[t].symbols[m])
  BY DEF Symbols
<1>2. m = n
  BY <1>1 DEF WellNamed
<1> QED
  BY <1>1, <1>2 DEF ToSet

LEMMA NoneUsed ==
    ASSUME program \in Programs, TablesInvariant, PlacesInvariant, WellNamed(scopes),
           NEW t \in DOMAIN scopes, NEW n \in Name, NEW crossed \in BOOLEAN,
           InUsings(scopes, t, n, crossed) = << >>
    PROVE  Named(Used(t), n) = {}
<1> SUFFICES ASSUME NEW u \in ToSet(scopes[t].usedScopes), NEW e \in Symbols(u), program[e.decl].name = n
             PROVE  FALSE
  BY DEF Named, Used
<1>1. IsTable(scopes, AllSymbols)
  BY Tables
<1>2. scopes[t].usedScopes \in Seq(Modules) /\ Modules \subseteq DOMAIN scopes
  BY DEF PlacesInvariant, Modules
<1>3. u \in Modules /\ scopes[t].usedScopes \in Seq(DOMAIN scopes)
  BY <1>2, InSeq
<1>4. u \in DOMAIN scopes /\ program[u].op = "module"
  BY <1>3 DEF Modules
<1>5. PICK m \in Name : e \in ToSet(scopes[u].symbols[m])
  BY DEF Symbols
<1>6. m = n
  BY <1>4, <1>5 DEF WellNamed
<1>7. ~ NeedsFrame(e)
  BY <1>4 DEF PlacesInvariant
<1>8. Accessible(e, crossed)
  BY <1>7 DEF Accessible, NeedsFrame
<1>9. InScope(scopes, u, n, crossed) # << >>
  BY <1>1, <1>4, <1>5, <1>6, <1>8, SomeInScope
<1> QED
  BY <1>1, <1>3, <1>9, SomeInUsings

\* What a lookup finds from the scope of an item on is the closest on the way.
ClosestFrom(g, n, j) == \A crossed \in BOOLEAN : \A e \in ToSet(g[ScopeNumber(j)][crossed]) : Closest(WayFrom(j), n, e)
LEMMA LookupIsClosest ==
    ASSUME program \in Programs, TablesInvariant, PlacesInvariant, WellNamed(scopes),
           NEW n \in Name, NEW g, LooksUp(scopes, n, g),
           NEW j \in Nat, Scoped(j), \A i \in 0..(j - 1) : Scoped(i) => ClosestFrom(g, n, i)
    PROVE  ClosestFrom(g, n, j)
<1> SUFFICES ASSUME NEW crossed \in BOOLEAN, NEW e \in ToSet(g[ScopeNumber(j)][crossed])
             PROVE  Closest(WayFrom(j), n, e)
  BY DEF ClosestFrom
<1>1. PICK t : t = ScopeNumber(j)
  OBVIOUS
<1>2. t \in DOMAIN scopes /\ (t = 0 <=> j = 0)
  BY <1>1 DEF Scoped, PlacesInvariant, Placed, ScopeNumber
<1>3. IsTable(scopes, AllSymbols) /\ \A s : Symbols(s) = SymbolsIn(scopes, s)
  BY Tables DEF Symbols, SymbolsIn
<1>4. g[t][crossed] = StepUp(scopes, n, t, crossed, g[scopes[t].parent])
  BY <1>2 DEF LooksUp
<1>5. t \in WayFrom(j) /\ WayBelow(j)
  BY <1>1, WaysOrdered DEF WayFrom
<1>6. \A w \in WayFrom(j) : ~ (w > t)
  <2>1. \A w \in WayFrom(j) : w \in Nat /\ w <= t /\ t \in Nat
    BY <1>1, <1>2, <1>5, Places DEF WayBelow, Rooted
  <2> QED
    BY <2>1
<1>7. CASE scopes[t].symbols[n] # << >>
  <2>1. e \in ToSet(InScope(scopes, t, n, crossed))
    BY <1>1, <1>4, <1>7 DEF StepUp
  <2>2. InScope(scopes, t, n, crossed) \in Seq(Findable(scopes, t, crossed))
    BY <1>2, <1>3, FoundInScope
  <2>3. e \in Symbols(t)
    BY <1>3, <2>1, <2>2, InSeq DEF Findable
  <2> QED
    BY <1>5, <1>6, <2>3 DEF Closest, Found
<1>8. CASE scopes[t].symbols[n] = << >> /\ InUsings(scopes, t, n, crossed) # << >>
  <2>1. e \in ToSet(InUsings(scopes, t, n, crossed))
    BY <1>1, <1>4, <1>8 DEF StepUp
  <2>2. InUsings(scopes, t, n, crossed) \in Seq(Used(t))
    <3> DEFINE M == ToSet(scopes[t].usedScopes)
    <3>1. scopes[t].usedScopes \in Seq(DOMAIN scopes)
      BY <1>2, Places
    <3>2. scopes[t].usedScopes \in Seq(M) /\ M \subseteq DOMAIN scopes
      BY <3>1 DEF ToSet
    <3>3. \A m \in M : Findable(scopes, m, crossed) \subseteq Used(t)
      BY <1>3 DEF Findable, Used
    <3> HIDE DEF M
    <3> QED
      BY <1>2, <1>3, <3>2, <3>3, FoundInUsings
  <2>3. e \in Used(t)
    BY <2>1, <2>2, InSeq
  <2>4. Named(Symbols(t), n) = {}
    BY <1>2, <1>8, NoneUnder
  <2> QED
    BY <1>5, <1>6, <2>3, <2>4 DEF Closest, Found
<1>9. CASE scopes[t].symbols[n] = << >> /\ InUsings(scopes, t, n, crossed) = << >>
  <2>1. t # 0 /\ e \in ToSet(g[scopes[t].parent][crossed \/ scopes[t].isDefScope])
    <3>1. ToSet(<< >>) = {}
      BY DEF ToSet
    <3> QED
      BY <1>1, <1>4, <1>9, <3>1 DEF StepUp
  <2>2. PICK p : p = Encloser(program, j)
    OBVIOUS
  <2>3. j \in Items /\ Inside(j, p)
    BY <1>2, <2>1, <2>2, ScopedInside DEF Scoped
  <2>4. ClosestFrom(g, n, p) /\ scopes[t].parent = ScopeNumber(p) /\ (crossed \/ scopes[t].isDefScope) \in BOOLEAN
    BY <1>1, <2>3 DEF Inside
  <2>5. Closest(WayFrom(p), n, e)
    BY <2>1, <2>4 DEF ClosestFrom
  <2>6. WayFrom(j) = WayFrom(p) \cup {t}
    BY <1>1, <2>2, <2>3, WayUp
  <2>7. Named(Symbols(t) \cup Used(t), n) = {}
    <3>1. Named(Symbols(t), n) = {} /\ Named(Used(t), n) = {}
      BY <1>2, <1>9, NoneUnder, NoneUsed
    <3> QED
      BY <3>1 DEF Named
  <2> QED
    BY <2>5, <2>6, <2>7 DEF Closest
<1> QED
  BY <1>7, <1>8, <1>9

LEMMA FoundIsClosest ==
    ASSUME program \in Programs, TablesInvariant, PlacesInvariant, WellNamed(scopes),
           NEW n \in Name, NEW j \in Nat, Scoped(j),
           NEW e \in ToSet(AssignSymbolic(scopes, ScopeNumber(j), n))
    PROVE  Closest(WayFrom(j), n, e)
<1>1. PICK g : Finds(scopes, n, g)
  <2>1. PICK m, S : /\ m \in Nat /\ IsTable(scopes, S) /\ Rooted(scopes, m)
                    /\ \A s \in DOMAIN scopes : scopes[s].usedScopes \in Seq(DOMAIN scopes)
    BY Tables, Places
  <2>2. \E g : Finds(scopes, n, g)
    BY <2>1, AssignSymbolicLooksUp
  <2> QED
    BY <2>2
<1> DEFINE T == {k \in Nat : \A i \in 0..(k - 1) : Scoped(i) => ClosestFrom(g, n, i)}
<1>6. LooksUp(scopes, n, g) /\ \A s : AssignSymbolic(scopes, s, n) = g[s][FALSE]
  BY <1>1 DEF Finds
<1>2. 0 \in T
  OBVIOUS
<1>3. ASSUME NEW k \in Nat, k \in T
      PROVE  k + 1 \in T
  <2>1. Scoped(k) => ClosestFrom(g, n, k)
    BY <1>6, <1>3, LookupIsClosest
  <2>2. \A i \in 0..(k + 1 - 1) : i \in 0..(k - 1) \/ i = k
    OBVIOUS
  <2> QED
    BY <1>3, <2>1, <2>2
<1> HIDE DEF T
<1>4. j \in T
  BY <1>2, <1>3, NumberInduction
<1>5. ClosestFrom(g, n, j)
  BY <1>6, <1>4, LookupIsClosest DEF T
<1> QED
  BY <1>5, <1>6 DEF ClosestFrom

----------------------------------------------------------------------------
(* It stays the closest *)

\* What is closest stays so if nothing on the way changes, and nothing in modules.
StaysOn(way, new) ==
    \A s \in way \cup Modules :
        /\ SymbolsIn(new, s) = SymbolsIn(scopes, s)
        /\ s \in way => new[s].usedScopes = scopes[s].usedScopes
LEMMA ClosestStays ==
    ASSUME PlacesInvariant, UNCHANGED <<program, scopeOf>>, NEW new, new = scopes',
           NEW i, WayTo(i) \subseteq DOMAIN scopes, StaysOn(WayTo(i), new), NEW n, NEW e, Closest(WayTo(i), n, e)
    PROVE  Closest(WayTo(i), n, e)'
<1>1. PICK way : way = WayTo(i)
  OBVIOUS
<1>2. WayTo(i)' = way
  BY <1>1 DEF WayTo, ScopeNumber
<1>3. \A s \in way : Symbols(s)' = Symbols(s) /\ Used(s)' = Used(s)
  <2>1. \A s \in way \cup Modules : Symbols(s)' = Symbols(s)
    BY <1>1 DEF StaysOn, Symbols, SymbolsIn
  <2>2. ASSUME NEW s \in way
        PROVE  Used(s)' = Used(s)
    <3>1. scopes'[s].usedScopes = scopes[s].usedScopes
      BY <1>1 DEF StaysOn
    <3>2. scopes[s].usedScopes \in Seq(Modules)
      BY <1>1 DEF PlacesInvariant
    <3>3. \A u \in ToSet(scopes[s].usedScopes) : Symbols(u)' = Symbols(u)
      BY <2>1, <3>2, InSeq
    <3> QED
      BY <3>1, <3>3 DEF Used
  <2> QED
    BY <2>1, <2>2
<1>4. \A S : Named(S, n)' = Named(S, n)
  BY DEF Named
<1>5. PICK s \in way : /\ Found(s, n, e)
                      /\ \A t \in way : t > s => Named(Symbols(t) \cup Used(t), n) = {}
  BY <1>1 DEF Closest
<1>6. Found(s, n, e)'
  BY <1>3, <1>5 DEF Found, Named
<1>7. \A t \in way : t > s => (Named(Symbols(t) \cup Used(t), n) = {})'
  BY <1>3, <1>5 DEF Named
<1> QED
  BY <1>2, <1>6, <1>7 DEF Closest

\* The scopes around an item, once every declaration was met.
LEMMA WayScopes ==
    ASSUME program \in Programs, PlacesInvariant, pass # "generate", NEW i \in Items
    PROVE  /\ WayTo(i) \subseteq DOMAIN scopes
           /\ \A s \in WayTo(i) \ {0} :
                 \E x \in Enclosing(program, i) : /\ s = ScopeNumber(x) /\ x \in Items /\ x < i /\ Placed(x)
                                                  /\ (program[x].op = "module" <=> s \in Modules)
<1>1. ASSUME NEW x \in Enclosing(program, i)
      PROVE  /\ x \in Items /\ x < i /\ Placed(x) /\ ScopeNumber(x) \in DOMAIN scopes
             /\ program[x].op = "module" <=> ScopeNumber(x) \in Modules
  <2>1. Len(program) \in Nat /\ i \in 1..Len(program) /\ x \in 1..(i - 1) /\ program[x].op \in Opening
    BY Bracketed DEF Items, Enclosing
  <2>2. x \in Items /\ x < i /\ x # 0
    BY <2>1 DEF Items
  <2>3. Placed(x)
    BY <2>1, <2>2 DEF PlacesInvariant, Met
  <2>4. CASE program[x].op = "module"
    BY <2>2, <2>3, <2>4 DEF Placed, ScopeNumber
  <2>5. CASE program[x].op # "module"
    BY <2>2, <2>3, <2>5 DEF ScopeNumber, Modules, Placed
  <2> QED
    BY <2>2, <2>3, <2>4, <2>5 DEF Placed
<1>2. ScopeNumber(0) = 0 /\ 0 \in DOMAIN scopes
  BY DEF ScopeNumber, PlacesInvariant
<1>3. ASSUME NEW s \in WayTo(i)
      PROVE  s = 0 \/ \E x \in Enclosing(program, i) : s = ScopeNumber(x)
  BY <1>2 DEF WayTo
<1> QED
  BY <1>1, <1>2, <1>3

\* A scope that uses nothing more stays as it is.
LEMMA NothingUsed ==
    ASSUME NEW sc, NEW s \in DOMAIN sc, NEW M, sc[s].usedScopes \in Seq(M), NEW S, sc[s] \in Scopes(sc[s], S)
    PROVE  BuildUsings(sc, s, << >>).scopes[s].usedScopes = sc[s].usedScopes
<1> DEFINE heads == {k \in 1..Len(<< >>) : ModuleAbove(sc, s, Head(<< >>[k])) = 0}
           read == IF heads = {} THEN << >> ELSE SubSeq(<< >>, 1, Min(heads) - 1)
           used == [k \in 1..Len(read) |-> ModuleOf(sc, s, read[k])]
           parts == [k \in 1..Len(read) |-> One(used[k], used[k] # 0)]
           old == sc[s].usedScopes
<1>1. BuildUsings(sc, s, << >>).scopes = [sc EXCEPT ![s].usedScopes = @ \o FlattenSeq(parts)]
  BY DEF BuildUsings
<1>2. heads = {}
  OBVIOUS
<1>3. read = << >> /\ Len(read) = 0
  BY <1>2
<1> HIDE DEF read, heads
<1>4. Len(parts) = 0 /\ parts \in Seq(Seq(M))
  BY <1>3
<1>5. parts = << >>
  <2> HIDE DEF parts
  <2> QED
    BY <1>4
<1> HIDE DEF parts
<1>6. FlattenSeq(parts) = << >>
  BY <1>5 DEF FlattenSeq
<1>7. old \o FlattenSeq(parts) = old
  <2> HIDE DEF old
  <2> QED
    BY <1>6 DEF old
<1>8. BuildUsings(sc, s, << >>).scopes[s] = [sc[s] EXCEPT !.usedScopes = old]
  BY <1>1, <1>7
<1> QED
  BY <1>8 DEF Scopes

\* What is used from an item on is used by no scope around an item before it, but
\* for the modules that are continued.
LEMMA UseStays ==
    ASSUME program \in Programs, TablesInvariant, PlacesInvariant, pass # "generate", UNCHANGED <<program, pass>>,
           at \in Items, item.op \in {"module", "block"}, NEW s, s = ScopeNumber(at), Use(s),
           NEW i \in Lasting, i \in Items, i < at
    PROVE  StaysOn(WayTo(i), scopes')
<1>1. Len(program) \in Nat /\ at \in 1..Len(program) /\ i \in Nat /\ at \in Nat
  BY Bracketed DEF Items
<1>2. WayTo(i) \subseteq DOMAIN scopes /\ Modules \subseteq DOMAIN scopes
  BY WayScopes DEF Modules
<1>3. \A t \in DOMAIN scopes : SymbolsIn(scopes', t) = SymbolsIn(scopes, t)
  BY <1>1, UseKeepsTables
<1>4. /\ Placed(at) /\ s \in DOMAIN scopes /\ s \in 1..at
      /\ item.op = "module" => s = scopeOf[at] /\ s \in Modules
      /\ item.op = "block" => s = at
  <2>1. Placed(at)
    BY DEF PlacesInvariant, Met, item, Opening
  <2> QED
    BY <1>1, <2>1 DEF Placed, ScopeNumber, item
<1>5. scopes' = BuildUsings(scopes, s, item.uses).scopes
  BY DEF Use
<1>6. ASSUME NEW t \in WayTo(i)
      PROVE  scopes'[t].usedScopes = scopes[t].usedScopes
  <2>1. CASE t # s
    <3>1. PICK used : scopes' = [scopes EXCEPT ![s].usedScopes = used]
      BY <1>5 DEF BuildUsings
    <3> QED
      BY <1>2, <2>1, <3>1
  <2>2. CASE t = s
    <3>1. PICK x \in Enclosing(program, i) : /\ s = ScopeNumber(x) /\ x \in Items /\ x < i /\ Placed(x)
                                              /\ (program[x].op = "module" <=> s \in Modules)
      <4>1. s \in WayTo(i) \ {0}
        BY <1>4, <2>2
      <4> QED
        BY <4>1, WayScopes
    <3>2. s \in 1..x /\ x \in Nat
      BY <1>1, <3>1 DEF Placed, Items
    <3>3. item.op = "module"
      BY <1>1, <1>4, <3>1, <3>2
    <3>4. program[x].op = "module" /\ scopeOf[at] = scopeOf[x] /\ at > x
      <4>1. program[x].op = "module"
        BY <1>4, <3>1, <3>3
      <4>2. s = scopeOf[x]
        BY <3>1, <3>2, <4>1 DEF ScopeNumber
      <4> QED
        BY <1>1, <1>4, <3>1, <3>2, <3>3, <4>1, <4>2
    <3>5. ~ Continued(x)
      BY <3>4 DEF Lasting
    <3>6. item.uses = << >>
      BY <3>3, <3>4, <3>5 DEF Continued, ItemsOf, item
    <3>7. scopes[s].usedScopes \in Seq(Modules) /\ scopes[s] \in Scopes(scopes[s], AllSymbols)
      BY <1>4 DEF PlacesInvariant, TablesInvariant
    <3> QED
      BY <1>4, <1>5, <2>2, <3>6, <3>7, NothingUsed
  <2> QED
    BY <2>1, <2>2
<1> QED
  BY <1>2, <1>3, <1>6 DEF StaysOn

\* A class inherits before it is visited, so that nothing in it was resolved.
LEMMA InheritChanges ==
    ASSUME program \in Programs, CallsInvariant, TablesInvariant, InheritFrom
    PROVE  /\ call.class \in Classes \ visited /\ pass # "generate"
           /\ \A t \in DOMAIN scopes : t # call.class => scopes'[t] = scopes[t]
           /\ WellNamed(scopes) => WellNamed(scopes')
<1>1. visiting # << >> /\ pass # "generate" /\ UNCHANGED <<program, pass>>
  BY DEF InheritFrom, TablesInvariant
<1> DEFINE from == call.parent
           to == call.class
           copy == CopySymbolsFrom(scopes, from, to)
<1>2. from \in DOMAIN scopes /\ to \in DOMAIN scopes /\ to \in Classes \ visited
  <2>1. from \in visited /\ from \in Classes
    BY DEF InheritFrom, CallsInvariant
  <2>2. to \in Classes \ visited
    <3>1. Finish(call.parent) /\ call.parent \in visited \cup {0}
      BY <2>1 DEF InheritFrom
    <3> QED
      BY <1>1, <3>1, FinishKeepsCalls
  <2> QED
    BY <1>1, <2>1, <2>2 DEF TablesInvariant
<1>3. scopes' = copy.scopes
  BY DEF InheritFrom
<1>4. IsTable(scopes, AllSymbols)
  BY Tables
<1>5. SymbolsAreCopied(AllSymbols, scopes, from, to, copy)
  BY <1>2, Tables, SymbolsCopied
<1> HIDE DEF copy, from
<1> QED
  BY <1>1, <1>2, <1>3, <1>5 DEF SymbolsAreCopied

LEMMA InheritStays ==
    ASSUME program \in Programs, CallsInvariant, TablesInvariant, PlacesInvariant, OrderInvariant, InheritFrom,
           NEW i \in Lasting, i \in Items
    PROVE  StaysOn(WayTo(i), scopes')
<1>1. PICK c : c = call.class
  OBVIOUS
<1>2. /\ c \in Classes \ visited /\ \A t \in DOMAIN scopes : t # c => scopes'[t] = scopes[t]
      /\ pass = "assign" /\ at \in Items
  <2>1. visiting # << >>
    BY DEF InheritFrom
  <2> QED
    BY <1>1, <2>1, InheritChanges DEF OrderInvariant
<1>3. i < at /\ i \in Nat /\ at \in Nat
  BY <1>2, Bracketed DEF OrderInvariant, Lasting, Single, Items
<1>4. c # 0 /\ c \notin Modules
  BY <1>2, FinitelyManyClasses DEF Classes, ItemsOf, Modules
<1>5. c \notin WayTo(i)
  <2> SUFFICES ASSUME c \in WayTo(i)
               PROVE  FALSE
    OBVIOUS
  <2>1. PICK x \in Enclosing(program, i) : /\ c = ScopeNumber(x) /\ x \in Items /\ x < i /\ Placed(x)
                                           /\ (program[x].op = "module" <=> c \in Modules)
    BY <1>2, <1>4, WayScopes
  <2>2. c = x
    BY <1>4, <2>1 DEF ScopeNumber
  <2>3. c < at
    BY <1>3, <2>1, <2>2, Bracketed DEF Items
  <2> QED
    BY <1>2, <2>3 DEF OrderInvariant
<1>6. WayTo(i) \cup Modules \subseteq DOMAIN scopes
  BY <1>2, WayScopes DEF Modules
<1> QED
  BY <1>2, <1>4, <1>5, <1>6 DEF StaysOn, SymbolsIn

\* The expression of an item is given what it means, in the tables as they are.
ClosestNow(j, symbols) ==
    /\ j \in Items /\ UNCHANGED scopes
    /\ Len(program[j].path) = 1 => \A e \in ToSet(symbols[1]) : Closest(WayTo(j), program[j].path[1], e)

\* The call that runs resolves the parent expression of its class only.
LEMMA SuperAssigned ==
    ASSUME CallsInvariant, ResolveParent
    PROVE  UNCHANGED assigned \/ \E j, symbols : j \in Classes /\ assigned' = With(assigned, j, symbols)
<1>1. PICK c : c = call.class
  OBVIOUS
<1>2. assigned' = Super(scopes, c, assigned, typeOf).found
  BY <1>1 DEF ResolveParent, Resolved
<1>3. c \in Classes
  <2>1. visiting \in Seq([class : Classes, parent : Classes \cup {0}]) /\ visiting # << >>
    BY DEF ResolveParent, ParentRead, CallsInvariant
  <2>2. Len(visiting) \in 1..Len(visiting) /\ c = visiting[Len(visiting)].class
    BY <1>1, <2>1 DEF call, Last
  <2>3. visiting[Len(visiting)] \in [class : Classes, parent : Classes \cup {0}]
    BY <2>1, <2>2, ElementOfSeq
  <2> QED
    BY <2>2, <2>3
<1>4. CASE program[c].path = << >>
  BY <1>2, <1>4 DEF Super
<1>5. CASE program[c].path # << >>
  <2>1. assigned' = With(assigned, c, AssignPath(scopes, c, c, assigned, typeOf).symbols)
    BY <1>2, <1>5 DEF Super, SuperNamed
  <2> QED
    BY <1>3, <2>1
<1> QED
  BY <1>4, <1>5

\* What is resolved from now on is the closest, and what was resolved stays so.
LEMMA ClosestGoesOn ==
    ASSUME program \in Programs, PlacesInvariant, OrderInvariant, ClosestInvariant,
           UNCHANGED <<program, scopeOf>>, pass # "generate",
           \A i \in Lasting : StaysOn(WayTo(i), scopes'),
           \/ UNCHANGED assigned
           \/ \E j, symbols : /\ assigned' = With(assigned, j, symbols)
                              /\ j \in Classes \/ ClosestNow(j, symbols)
    PROVE  ClosestInvariant'
<1>1. \A i : WayTo(i)' = WayTo(i)
  BY DEF WayTo, ScopeNumber
<1>2. Classes' = Classes /\ \A m : Continued(m)' <=> Continued(m)
  BY DEF Classes, ItemsOf, Items, Continued
<1>3. PICK new : new = scopes'
  OBVIOUS
<1>4. ASSUME NEW i \in Lasting, NEW e, Closest(WayTo(i), program[i].path[1], e)
      PROVE  Closest(WayTo(i), program[i].path[1], e)'
  <2>1. i \in Items
    BY DEF Lasting, Single, OrderInvariant
  <2>2. WayTo(i) \subseteq DOMAIN scopes /\ StaysOn(WayTo(i), new)
    BY <1>3, <2>1, WayScopes
  <2>3. PICK n : n = program[i].path[1]
    OBVIOUS
  <2>4. Closest(WayTo(i), n, e)'
    BY <1>3, <1>4, <2>2, <2>3, ClosestStays
  <2> QED
    BY <2>3, <2>4
<1>5. ASSUME NEW j, j \notin Classes, NEW symbols, assigned' = With(assigned, j, symbols), ClosestNow(j, symbols),
             Len(program[j].path) = 1, NEW e \in ToSet(symbols[1])
      PROVE  Closest(WayTo(j), program[j].path[1], e)'
  <2>1. j \in Items /\ UNCHANGED scopes /\ Closest(WayTo(j), program[j].path[1], e)
    BY <1>5 DEF ClosestNow
  <2>2. WayTo(j) \subseteq DOMAIN scopes
    BY <2>1, WayScopes
  <2>3. StaysOn(WayTo(j), new)
    BY <1>3, <2>1 DEF StaysOn
  <2>4. PICK n : n = program[j].path[1]
    OBVIOUS
  <2>5. Closest(WayTo(j), n, e)'
    BY <1>3, <2>1, <2>2, <2>3, <2>4, ClosestStays
  <2> QED
    BY <2>4, <2>5
<1>6. ASSUME NEW i \in DOMAIN assigned', Len(program[i].path) = 1, i \notin Classes,
             \A m \in Enclosing(program, i) : program[m].op = "module" => ~ Continued(m),
             NEW e \in ToSet(assigned'[i][1])
      PROVE  Closest(WayTo(i), program[i].path[1], e)'
  <2>1. CASE i \in DOMAIN assigned /\ assigned'[i] = assigned[i]
    <3>1. i \in Lasting
      BY <1>6, <2>1 DEF Lasting, Single
    <3> QED
      BY <1>4, <1>6, <2>1, <3>1 DEF ClosestInvariant
  <2>2. CASE ~ (i \in DOMAIN assigned /\ assigned'[i] = assigned[i])
    <3>1. PICK j, symbols : assigned' = With(assigned, j, symbols) /\ (j \in Classes \/ ClosestNow(j, symbols))
      BY <1>6, <2>2
    <3>2. i = j /\ assigned'[i] = symbols
      BY <1>6, <2>2, <3>1 DEF With
    <3> QED
      BY <1>5, <1>6, <3>1, <3>2
  <2> QED
    BY <2>1, <2>2
<1>7. \A i \in Lasting' : /\ i \in DOMAIN assigned' /\ Len(program[i].path) = 1 /\ i \notin Classes
                         /\ \A m \in Enclosing(program, i) : program[m].op = "module" => ~ Continued(m)
  BY <1>2 DEF Lasting, Single
<1> QED
  BY <1>6, <1>7 DEF ClosestInvariant

LEMMA NameIsClosest ==
    ASSUME program \in Programs, TablesInvariant, StackInvariant, PlacesInvariant, WellNamed(scopes), pass # "generate",
           AssignName
    PROVE  \E symbols : assigned' = With(assigned, at, symbols) /\ ClosestNow(at, symbols)
<1>1. PICK i : i = at
  OBVIOUS
<1>2. /\ i \in Items /\ item = program[i] /\ item.op \in {"use", "alias"} /\ UNCHANGED scopes
      /\ assigned' = With(assigned, i, AssignPath(scopes, curScope, i, assigned, typeOf).symbols)
  BY <1>1 DEF AssignName, Assigning, Meets, item
<1>3. PICK symbols : symbols = AssignPath(scopes, curScope, i, assigned, typeOf).symbols
  OBVIOUS
<1>4. PICK p : p = Encloser(program, i)
  OBVIOUS
<1>5. curScope = ScopeNumber(p)
  BY <1>1, <1>2, <1>4, StackTop
<1>6. EnclosedIn(i, p) /\ WayTo(i) = WayFrom(p)
  BY <1>2, <1>4, Enclosers, WayUp
<1>7. p \in Nat /\ Scoped(p)
  <2>1. i \in Nat
    BY <1>2, Bracketed DEF Items
  <2> QED
    BY <1>6, <2>1 DEF EnclosedIn, Scoped, Met
<1>8. ASSUME Len(program[i].path) = 1, NEW e \in ToSet(symbols[1])
      PROVE  Closest(WayTo(i), program[i].path[1], e)
  <2>1. PICK n : n = program[i].path[1]
    OBVIOUS
  <2>2. n \in Name
    <3>1. program[i] \in Item
      BY <1>2, ProgramsAssumption DEF Items
    <3>2. program[i].path \in Path
      BY <1>2, <3>1 DEF Item
    <3> QED
      BY <1>8, <2>1, <3>2 DEF Path
  <2>3. symbols[1] = AssignSymbolic(scopes, ScopeNumber(p), n)
    BY <1>3, <1>5, <1>8, <2>1, FirstAssigned
  <2>4. Closest(WayFrom(p), n, e)
    BY <1>7, <1>8, <2>2, <2>3, FoundIsClosest
  <2> QED
    BY <1>6, <2>1, <2>4
<1>9. ClosestNow(i, symbols)
  BY <1>2, <1>8 DEF ClosestNow
<1> QED
  BY <1>1, <1>2, <1>3, <1>9

LEMMA AssignKeepsClosest ==
    ASSUME program \in Programs, CallsInvariant, TablesInvariant, StackInvariant, PlacesInvariant, WellNamed(scopes),
           OrderInvariant, ClosestInvariant, Assign, UNCHANGED <<program, scopeOf>>, pass # "generate"
    PROVE  ClosestInvariant' /\ WellNamed(scopes)'
<1>1. \A i \in Lasting : i \in Items
  BY DEF Lasting, Single, OrderInvariant
<1>2. ASSUME UNCHANGED scopes
      PROVE  (\A i \in Lasting : StaysOn(WayTo(i), scopes')) /\ WellNamed(scopes)'
  BY <1>2 DEF StaysOn, WellNamed
<1>3. CASE AssignModule \/ AssignBlock
  <2>1. PICK op \in {"module", "block"} :
          /\ Assigning(op) /\ Use(IF op = "module" THEN scopeOf[at] ELSE at) /\ Continue /\ UNCHANGED assigned
    BY <1>3 DEF AssignModule, AssignBlock, assignationVars
  <2>2. pass = "assign" /\ at \in Items /\ item.op = op /\ UNCHANGED <<program, pass>>
    BY <2>1 DEF Assigning, Meets, Continue
  <2>3. PICK s : s = ScopeNumber(at)
    OBVIOUS
  <2>4. s = (IF op = "module" THEN scopeOf[at] ELSE at)
    BY <2>2, <2>3, Bracketed DEF ScopeNumber, item, Items
  <2>5. Use(s) /\ Len(program) \in Nat
    <3> HIDE DEF Use
    <3> QED
      BY <2>1, <2>4, Bracketed
  <2>6. ASSUME NEW i \in Lasting
        PROVE  StaysOn(WayTo(i), scopes')
    <3>1. i \in Items /\ i < at
      BY <1>1, <2>2 DEF OrderInvariant, Lasting, Single
    <3> HIDE DEF Use
    <3> QED
      BY <2>1, <2>2, <2>3, <2>5, <3>1, UseStays
  <2>7. WellNamed(scopes)'
    <3>1. PICK used : scopes' = [scopes EXCEPT ![s].usedScopes = used]
      BY <2>5 DEF Use, BuildUsings
    <3>2. \A t \in DOMAIN scopes : scopes[t] \in Scopes(scopes[t], AllSymbols)
      BY DEF TablesInvariant
    <3>3. \A t \in DOMAIN scopes' : t \in DOMAIN scopes /\ scopes'[t].symbols = scopes[t].symbols
      BY <3>1, <3>2 DEF Scopes
    <3> QED
      BY <3>3 DEF WellNamed
  <2> QED
    BY <2>1, <2>6, <2>7, ClosestGoesOn
<1>4. CASE AssignDef \/ AssignVar \/ AssignClass \/ VisitParent \/ AssignEnd \/ AnalysisEnds
  <2>1. UNCHANGED <<scopes, assigned>>
    BY <1>4 DEF AssignDef, AssignVar, AssignClass, VisitParent, AssignEnd, AnalysisEnds, Continue, assignationVars
  <2> QED
    BY <1>2, <2>1, ClosestGoesOn
<1>5. CASE AssignName
  <2>1. UNCHANGED scopes
    BY <1>5 DEF AssignName
  <2>2. \E j, symbols : assigned' = With(assigned, j, symbols) /\ (j \in Classes \/ ClosestNow(j, symbols))
    BY <1>5, NameIsClosest
  <2> QED
    BY <1>2, <2>1, <2>2, ClosestGoesOn
<1>6. CASE ResolveParent
  <2>1. UNCHANGED scopes
    BY <1>6 DEF ResolveParent, Resolved
  <2>2. UNCHANGED assigned \/ \E j, symbols : j \in Classes /\ assigned' = With(assigned, j, symbols)
    BY <1>6, SuperAssigned
  <2> QED
    BY <1>2, <2>1, <2>2, ClosestGoesOn
<1>7. CASE InheritFrom
  <2>1. UNCHANGED assigned
    BY <1>7 DEF InheritFrom
  <2>2. WellNamed(scopes')
    BY <1>7, InheritChanges
  <2>3. \A i \in Lasting : StaysOn(WayTo(i), scopes')
    BY <1>1, <1>7, InheritStays
  <2>4. ClosestInvariant'
    BY <2>1, <2>3, ClosestGoesOn
  <2> QED
    BY <2>2, <2>4 DEF WellNamed
<1> QED
  BY <1>3, <1>4, <1>5, <1>6, <1>7 DEF Assign

\* Parents are visited before a class is entered.
LEMMA AssignKeepsOrder ==
    ASSUME program \in Programs, CallsInvariant, TablesInvariant, StackInvariant, OrderInvariant, Assign,
           UNCHANGED program, pass # "generate"
    PROVE  OrderInvariant'
<1>1. Len(program) \in Nat /\ Items = 1..Len(program) /\ at \in Nat /\ Items' = Items /\ Classes' = Classes
      /\ Classes \subseteq Items
  BY Bracketed DEF Items, StackInvariant, Classes, ItemsOf
<1>2. ASSUME pass = "assign", visiting = << >>, at \in Items, at' = at + 1, UNCHANGED <<pass, visiting, visited>>,
             at \in Classes => at \in visited,
             UNCHANGED assigned \/ \E symbols : at \notin Classes /\ assigned' = With(assigned, at, symbols)
      PROVE  OrderInvariant'
  <2>1. \A c \in Classes : c < at + 1 => c \in visited
    <3>1. \A c \in Classes : c < at + 1 => c < at \/ c = at
      BY <1>1
    <3> QED
      BY <1>2, <3>1 DEF OrderInvariant
  <2>2. \A i \in DOMAIN assigned' : i \in DOMAIN assigned \/ i = at
    BY <1>2 DEF With
  <2>3. \A i \in DOMAIN assigned' : i \in Items /\ (i \notin Classes => i < at + 1)
    <3>1. \A i \in DOMAIN assigned : i \in Items /\ (i \notin Classes => i < at)
      BY <1>2 DEF OrderInvariant
    <3> QED
      BY <1>1, <1>2, <2>2, <3>1
  <2> QED
    BY <1>1, <1>2, <2>1, <2>3 DEF OrderInvariant
<1>3. CASE AssignModule \/ AssignBlock \/ AssignDef \/ AssignVar \/ AssignEnd \/ AssignClass
  <2>1. PICK op \in {"module", "block", "def", "var", "end", "class"} :
          Assigning(op) /\ Continue /\ UNCHANGED assignationVars /\ (op = "class" => at \in visited)
    BY <1>3 DEF AssignModule, AssignBlock, AssignDef, AssignVar, AssignEnd, AssignClass
  <2>2. at \in Classes => op = "class"
    BY <2>1 DEF Assigning, Meets, item, Classes, ItemsOf
  <2> QED
    BY <1>2, <2>1, <2>2 DEF Assigning, Meets, Continue, assignationVars
<1>4. CASE AssignName
  <2>1. PICK op \in {"use", "alias"} : Assigning(op) /\ Continue /\ UNCHANGED <<visiting, visited>>
    BY <1>4 DEF AssignName
  <2>2. at \notin Classes
    BY <2>1 DEF Assigning, Meets, item, Classes, ItemsOf
  <2>3. \E symbols : assigned' = With(assigned, at, symbols)
    BY <1>4 DEF AssignName
  <2> QED
    BY <1>2, <2>1, <2>2, <2>3 DEF Assigning, Meets, Continue
<1>5. CASE VisitParent
  <2>1. pass = "assign" /\ at \in Items /\ UNCHANGED <<pass, at, visited, assigned>>
    BY <1>5 DEF VisitParent, Assigning, Meets
  <2> QED
    BY <1>1, <2>1 DEF OrderInvariant
<1>6. CASE ResolveParent
  <2>1. visiting # << >> /\ UNCHANGED <<pass, at>>
    BY <1>6 DEF ResolveParent, ParentRead, Resolved
  <2>2. visited \subseteq visited'
    BY <1>6 DEF ResolveParent, Enter, Finish
  <2>3. UNCHANGED assigned \/ \E j, symbols : j \in Classes /\ assigned' = With(assigned, j, symbols)
    BY <1>6, SuperAssigned
  <2>4. \A i \in DOMAIN assigned' : i \in DOMAIN assigned \/ i \in Classes
    BY <2>3 DEF With
  <2>5. pass = "assign" /\ at \in Items
    BY <2>1 DEF OrderInvariant
  <2> QED
    BY <1>1, <2>1, <2>2, <2>4, <2>5 DEF OrderInvariant
<1>7. CASE InheritFrom
  <2>1. visiting # << >> /\ UNCHANGED <<pass, at, assigned>> /\ visited \subseteq visited'
    BY <1>7 DEF InheritFrom, Finish
  <2>2. pass = "assign" /\ at \in Items
    BY <2>1 DEF OrderInvariant
  <2> QED
    BY <1>1, <2>1, <2>2 DEF OrderInvariant
<1>8. CASE AnalysisEnds
  <2>1. at \notin Items /\ pass' = "done" /\ UNCHANGED <<visiting, assigned>>
    BY <1>1, <1>8 DEF AnalysisEnds, assignationVars
  <2>2. visiting = << >>
    BY <2>1 DEF OrderInvariant
  <2> QED
    BY <1>1, <2>1, <2>2 DEF OrderInvariant
<1> QED
  BY <1>3, <1>4, <1>5, <1>6, <1>7, <1>8 DEF Assign

LEMMA InnerStarts ==
    ASSUME Init
    PROVE  InnerInvariant
<1>1. ReachInvariant /\ program \in Programs
  BY ReachStarts DEF Init
<1>2. pass = "generate" /\ visiting = << >> /\ DOMAIN assigned = {}
  BY DEF Init
<1>3. WellNamed(scopes)
  BY DEF Init, NewScope, WellNamed, ToSet
<1> QED
  BY <1>1, <1>2, <1>3 DEF InnerInvariant, OrderInvariant, ClosestInvariant, Lasting, Single

LEMMA InnerKept ==
    ASSUME InnerInvariant, [Next]_vars
    PROVE  InnerInvariant'
<1>1. /\ program \in Programs /\ CallsInvariant /\ TablesInvariant
      /\ StackInvariant /\ PlacesInvariant /\ FoundInvariant /\ ReachInvariant
      /\ WellNamed(scopes) /\ OrderInvariant /\ ClosestInvariant
  BY DEF InnerInvariant, ReachInvariant, InheritanceInvariant, SupersInvariant
<1>2. ReachInvariant'
  BY <1>1, ReachKept
<1>3. CASE Generate
  <2>1. WellNamed(scopes)'
    BY <1>1, <1>3, GenerationKeepsNamed
  <2>2. pass = "generate" /\ UNCHANGED <<assigned, visiting>>
    BY <1>3 DEF Generate, GenerateModule, GenerateClass, GenerateAlias, GenerateDef, GenerateBlock, GenerateVar,
                GenerateUse, GenerateEnd, GenerationEnds, Generating, Advance, assignationVars
  <2>3. DOMAIN assigned' = {} /\ visiting' = << >>
    BY <1>1, <2>2 DEF FoundInvariant, TablesInvariant
  <2>4. pass' = "assign" => at' = 1 /\ program' = program
    BY <1>3, <2>2 DEF Generate, GenerateModule, GenerateClass, GenerateAlias, GenerateDef, GenerateBlock, GenerateVar,
                      GenerateUse, GenerateEnd, GenerationEnds, Generating, Advance
  <2>5. pass' = "assign" => \A c \in Classes' : ~ (c < at')
    BY <1>1, <2>4, Bracketed DEF Classes, ItemsOf, Items
  <2>6. OrderInvariant'
    BY <2>3, <2>5 DEF OrderInvariant
  <2>7. ClosestInvariant'
    BY <2>3 DEF ClosestInvariant, Lasting, Single
  <2> QED
    BY <1>2, <2>1, <2>6, <2>7 DEF InnerInvariant
<1>4. CASE Assign
  <2>1. UNCHANGED <<program, scopeOf>> /\ pass # "generate"
    BY <1>1, <1>4, AssignGoesOn
  <2>2. ClosestInvariant' /\ WellNamed(scopes)'
    BY <1>1, <1>4, <2>1, AssignKeepsClosest
  <2>3. OrderInvariant'
    BY <1>1, <1>4, <2>1, AssignKeepsOrder
  <2> QED
    BY <1>2, <2>2, <2>3 DEF InnerInvariant
<1>5. CASE Terminated \/ UNCHANGED vars
  <2>1. UNCHANGED <<program, pass, at, scopes, scopeOf, assigned, visiting, visited>>
    BY <1>5 DEF Terminated, vars, assignationVars
  <2>2. WellNamed(scopes)' /\ OrderInvariant'
    BY <1>1, <2>1 DEF WellNamed, OrderInvariant, Classes, ItemsOf, Items
  <2>3. ClosestInvariant'
    <3>1. /\ \A s : Symbols(s)' = Symbols(s) /\ Used(s)' = Used(s)
          /\ Lasting' = Lasting /\ \A i : WayTo(i)' = WayTo(i)
      BY <2>1 DEF Symbols, Used, Lasting, Single, Classes, ItemsOf, Items, Continued, WayTo, ScopeNumber
    <3>2. \A way, n, e : Closest(way, n, e)' <=> Closest(way, n, e)
      BY <2>1, <3>1 DEF Closest, Found, Named
    <3> QED
      BY <1>1, <2>1, <3>1, <3>2 DEF ClosestInvariant
  <2> QED
    BY <1>2, <2>2, <2>3 DEF InnerInvariant
<1> QED
  BY <1>3, <1>4, <1>5 DEF Next

\* For every program, what a name in a body means is declared closest to it: in the
\* innermost scope around it that declares or uses anything of that name; what a
\* scope uses counts only if the scope declares nothing of that name.  It
\* stays so while the rest of the program is resolved, but for the modules around the
\* name that another part continues with usings of its own.
THEOREM ClosestFound == Spec => []InnermostWins
<1>1. Init => InnerInvariant
  BY InnerStarts
<1>2. InnerInvariant /\ [Next]_vars => InnerInvariant'
  BY InnerKept
<1>3. InnerInvariant => InnermostWins
  BY DEF InnerInvariant, ClosestInvariant, InnermostWins
<1> QED
  BY <1>1, <1>2, <1>3, PTL DEF Spec
=============================================================================
