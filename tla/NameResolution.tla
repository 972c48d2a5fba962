--------------------------- MODULE NameResolution ---------------------------
(***************************************************************************)
(* What the name analysis should come to, stated on the program as it is   *)
(* written and on the tables as they are in the end.                       *)
(***************************************************************************)
EXTENDS NameAnalysis

----------------------------------------------------------------------------
(* The program as it is written. *)

\* What no definition encloses.
Global(i) == \A d \in Enclosing(program, i) : program[d].op # "def"

Classes == ItemsOf("class")
Method(d) == program[d].op = "def" /\ program[d].flag # "static" /\ Encloser(program, d) \in Classes

\* Where the variables and `this' of what encloses item i are out of reach:
\* a definition that is no method, and a class right inside another one.
Barrier(i) ==
    \/ program[i].op = "def" /\ ~ Method(i)
    \/ i \in Classes /\ Encloser(program, i) \in Classes

Symbols(s) == UNION {ToSet(scopes[s].symbols[n]) : n \in Name}

ScopeNumber(i) == IF i = 0 THEN 0 ELSE IF program[i].op = "module" THEN scopeOf[i] ELSE i

\* The scope in which the expression of item i is resolved.
ScopeOfUse(i) == IF i \in Classes THEN i ELSE ScopeNumber(Encloser(program, i))

\* A module that a later item continues, with usings of its own.
Continued(m) == \E j \in ItemsOf("module") : j > m /\ scopeOf[j] = scopeOf[m] /\ program[j].uses # << >>

\* The names that are a whole expression.
Single == {i \in DOMAIN assigned : Len(program[i].path) = 1}

----------------------------------------------------------------------------

\* Following the super classes recorded by visitParent never comes back to
\* a class, whatever cycles the program wrote, directly, through aliases or
\* through types inherited from a class of the cycle.
Above(c) ==
    LET up[k \in 0..Cardinality(Classes)] ==
            IF k = 0 THEN {c}
            ELSE up[k - 1] \cup ({parent[d] : d \in up[k - 1] \cap visited} \ {0})
    IN  up[Cardinality(Classes)]
SupersAcyclic == \A c \in visited : parent[c] # 0 => c \notin Above(parent[c])

\* Once a class is entered, and for good, it has what it should have: every
\* symbol of its super class but the constructors, which has inherited its
\* own before (copySymbolsFrom), unless a conflict was reported; and a name
\* that means several symbols is overloaded by definitions only.
InheritsAll ==
    \A c \in DOMAIN parent :
        /\ (parent[c] # 0 /\ \A e \in errors : e.kind # "inherited") =>
             {e \in Symbols(parent[c]) : ~ e.constructor} \subseteq Symbols(c)
        /\ \A n \in Name : Len(scopes[c].symbols[n]) > 1 =>
             \A e \in ToSet(scopes[c].symbols[n]) : e.type = "DEF"

\* A name is never resolved to a variable or a method that is out of reach
\* where it is used: between the use and the scope in which it was found
\* there is no definition of another frame and no class in a class, whose
\* instances know no outer `this' (_isDefScope, Scope.cpp:130-140).
Reachable(i, e) ==
    LET holds == {s \in DOMAIN scopes : e \in Symbols(s)}
        way   == Enclosing(program, i) \cup {i}
    IN  \E s \in way : /\ ScopeNumber(s) \in holds
                       /\ \A t \in way : t > s => ~ Barrier(t)
NeedsFrame(e) == e.type = "VAR" \/ (e.type = "DEF" /\ e.owner # 0)
ThisReaches ==
    Done => \A i \in Single : \A e \in ToSet(assigned[i][1]) : NeedsFrame(e) => Reachable(i, e)

\* The declarations that have an absolute name are those that no definition
\* encloses, also after the analysis left definitions inside definitions
\* (pushPathPart, popPathPart).
AbsoluteIffGlobal ==
    Done => \A s \in DOMAIN scopes : \A e \in Symbols(s) :
        e.type # "VAR" =>
            (e.decl \in absolute <=> Global(e.decl))

\* A name means in the end what it meant when it was resolved: the symbols it
\* was given, or the error it was given, are those the final tables give it.
Settled(i) ==
    LET now == AssignSymbolic(scopes, ScopeOfUse(i), program[i].path[1])
    IN  /\ assigned[i][1] = now
        /\ [kind |-> "undefined", at |-> i] \in errors <=> now = << >>

\* The names in bodies, and those types stand for, are settled, unless a
\* module they are in goes on and uses other modules.
Lasting == {i \in Single \ Classes :
               \A m \in Enclosing(program, i) : program[m].op = "module" => ~ Continued(m)}
BodiesSettled == Done => \A i \in Lasting : Settled(i)

\* What a scope has and uses; where a name is found on a way of scopes: in one
\* that has it or uses it, and none further in does.
Used(s) == UNION {Symbols(u) : u \in ToSet(scopes[s].usedScopes)}
Named(symbols, n) == {e \in symbols : program[e.decl].name = n}
Found(s, n, e) == e \in Symbols(s) \/ (e \in Used(s) /\ Named(Symbols(s), n) = {})
Closest(way, n, e) ==
    \E s \in way : /\ Found(s, n, e)
                  /\ \A t \in way : t > s => Named(Symbols(t) \cup Used(t), n) = {}
\* The scopes around item i.
WayTo(i) == {ScopeNumber(s) : s \in Enclosing(program, i) \cup {0}}

\* What is declared closer hides what is further away, and the modules a scope
\* uses are closer than what is around that scope
\* (src/tests/sfsl/NameAnalysis/MustCompile/Priority_of_using_over_parent_scopes.sfsl).
InnermostWins ==
    Done => \A i \in Lasting : \A e \in ToSet(assigned[i][1]) : Closest(WayTo(i), program[i].path[1], e)

----------------------------------------------------------------------------
(* What holds all along, which the proofs are about. *)

\* The calls of visitParent that run are for different classes, which have no
\* super class yet; what has one was visited, and so was its super class.
CallsInvariant ==
    /\ visiting \in Seq([class : Classes, parent : Classes \cup {0}])
    /\ \A k \in 1..Len(visiting) : visiting[k].class \notin visited
    /\ \A j, k \in 1..Len(visiting) : visiting[j].class = visiting[k].class => j = k
    /\ visited \subseteq Classes
    /\ DOMAIN parent = visited
    /\ \A c \in visited : parent[c] \in visited \cup {0}

\* The tables: a scope for every class that was met; a list of symbols for every
\* name, of which several are definitions; one symbol for a declaration.
AllSymbols == UNION {Symbols(s) : s \in DOMAIN scopes}
Scopes(scope, symbols) ==
    [parent : {scope.parent}, isDefScope : {scope.isDefScope}, usedScopes : {scope.usedScopes},
     symbols : [Name -> Seq(symbols)]]
Overloaded(scope) ==
    \A n \in Name : Len(scope.symbols[n]) > 1 => \A e \in ToSet(scope.symbols[n]) : e.type = "DEF"
TablesInvariant ==
    /\ scopes = [s \in DOMAIN scopes |-> scopes[s]]
    /\ \A s \in DOMAIN scopes : scopes[s] \in Scopes(scopes[s], AllSymbols) /\ Overloaded(scopes[s])
    /\ \A c \in Classes : (pass = "generate" => c < at) => c \in DOMAIN scopes
    /\ \A e \in AllSymbols : e.decl \in Items /\ (pass = "generate" => e.decl < at)
    /\ \A e, f \in AllSymbols : e.decl = f.decl => e = f
    /\ pass = "generate" => visited = {} /\ visiting = << >> /\ at \in Nat

\* The items whose end comes at item i or later; of those, what _symbolPath is
\* made of, and the definitions.
Pending(i) == {j \in 1..(i - 1) : program[j].op \in Opening /\ i <= End(program, j)}
OnPath(pending) == {j \in pending : program[j].op # "block"}
Definitions(pending) == {j \in pending : program[j].op = "def"}
Measured(pending, length, from) ==
    /\ length = Cardinality(OnPath(pending))
    /\ \/ Definitions(pending) = {} /\ from = Len(program) + 1
       \/ \E d \in Definitions(pending) :
             /\ \A e \in Definitions(pending) : d <= e
             /\ from = Cardinality({j \in OnPath(pending) : j <= d})
DepthInvariant == at \in 1..(Len(program) + 1) /\ Measured(Pending(at), depth, invalidFrom)

\* The declarations met so far that have a symbol have an absolute name if no
\* definition is around them.
NamesInvariant ==
    /\ pass = "generate" => DepthInvariant /\ absolute \subseteq 1..(at - 1)
    /\ \A e \in AllSymbols : e.type # "VAR" => (e.decl \in absolute <=> Global(e.decl))

\* The scopes that are open are those of the items around the next one, and in
\* the generation every one saved the class whose `this' was known there.
ThisOf(i) == IF i \in Classes THEN i ELSE 0
Chain(pending, q, n) ==
    /\ n \in Nat \ {0} /\ q[1] = 0
    /\ \A j, k \in 1..n : j < k => q[j] < q[k]
    /\ \A k \in 2..n : q[k] \in pending
    /\ \A p \in pending : \E k \in 2..n : q[k] = p
OpenOn(q) ==
    /\ Chain(Pending(at), q, Len(open))
    /\ \A k \in 1..Len(open) : open[k].scope = ScopeNumber(q[k])
    /\ pass = "generate" => /\ this = ThisOf(q[Len(open)])
                           /\ \A k \in 2..Len(open) : open[k].this = ThisOf(q[k - 1])
StackInvariant ==
    /\ at \in 1..(Len(program) + 1)
    /\ open \in Seq([scope : Nat, this : Nat])
    /\ \E q \in [1..Len(open) -> Pending(at) \cup {0}] : OpenOn(q)

\* Every item that opens something, once met, has a scope, under the scope of what
\* is around it, and one that hides `this' where it should; only modules are used,
\* and what belongs to a frame is declared in one.
Met(i) == pass = "generate" => i < at
Modules == {m \in DOMAIN scopes : m # 0 /\ program[m].op = "module"}
Placed(i) ==
    /\ ScopeNumber(i) \in DOMAIN scopes /\ ScopeNumber(i) \in 1..i
    /\ scopes[ScopeNumber(i)].parent = ScopeNumber(Encloser(program, i))
    /\ scopes[ScopeNumber(i)].isDefScope <=> Barrier(i)
    /\ program[i].op = "module" => i \in DOMAIN scopeOf /\ scopeOf[i] \in Modules
PlacesInvariant ==
    /\ 0 \in DOMAIN scopes
    /\ \A s \in DOMAIN scopes :
          s # 0 => s \in Items /\ program[s].op \in Opening /\ Met(s) /\ ScopeNumber(s) = s
    /\ \A i \in Items : program[i].op \in Opening /\ Met(i) => Placed(i)
    /\ \A s \in DOMAIN scopes : scopes[s].usedScopes \in Seq(Modules)
    /\ \A s \in DOMAIN scopes : \A e \in Symbols(s) :
          /\ NeedsFrame(e) => s # 0 /\ program[s].op # "module"
          /\ e.type = "MODULE" => e.decl \in Modules /\ (pass = "generate" => scopes[e.decl].parent = s)

\* No name is resolved before every declaration is met, and none then means what
\* is out of reach.
FoundInvariant ==
    /\ pass = "generate" => DOMAIN assigned = {}
    /\ \A i \in Single : \A e \in ToSet(assigned[i][1]) : NeedsFrame(e) => Reachable(i, e)

\* A symbol is under the name of its declaration; the parents of a class are visited
\* before it is entered, when nothing further on in the program was resolved; and
\* what names mean is the closest.
WellNamed(sc) ==
    \A s \in DOMAIN sc : \A n \in Name : \A e \in ToSet(sc[s].symbols[n]) : program[e.decl].name = n
OrderInvariant ==
    /\ visiting # << >> => pass = "assign" /\ at \in Items
    /\ pass = "assign" => /\ \A c \in Classes : c < at => c \in visited
                         /\ \A i \in DOMAIN assigned \ Classes : i < at
    /\ DOMAIN assigned \subseteq Items
ClosestInvariant ==
    \A i \in Lasting : \A e \in ToSet(assigned[i][1]) : Closest(WayTo(i), program[i].path[1], e)

SupersInvariant == program \in Programs /\ CallsInvariant /\ SupersAcyclic
InheritanceInvariant == SupersInvariant /\ TablesInvariant /\ InheritsAll
AbsoluteInvariant == InheritanceInvariant /\ NamesInvariant
ReachInvariant == InheritanceInvariant /\ StackInvariant /\ PlacesInvariant /\ FoundInvariant
InnerInvariant == ReachInvariant /\ WellNamed(scopes) /\ OrderInvariant /\ ClosestInvariant
=============================================================================
