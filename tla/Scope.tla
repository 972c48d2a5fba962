-------------------------------- MODULE Scope --------------------------------
(***************************************************************************)
(* Scopes and the lookup of names in them:                                 *)
(* src/Compiler/Frontend/Symbols/Scope.cpp.                                *)
(*                                                                         *)
(* A table of scopes is a function from scopes (numbers; 0 is the scope of *)
(* the program, and a scope has a larger number than its parent) to        *)
(* records: the parent, whether it is a definition scope, the scopes of    *)
(* the modules it uses, and its symbols by name.  The symbols of one name  *)
(* are in the order of the multimap, which puts an overload in front of    *)
(* those it already has.                                                   *)
(*                                                                         *)
(* A symbol is the declaration it stands for, its type, the class whose    *)
(* `this' it needs (0: none), and whether it is a constructor.             *)
(***************************************************************************)
EXTENDS Naturals, Sequences, SequencesExt

CONSTANT Names    \* the names in a program, in the order std::map keeps them

ASSUME NamesAssumption == Names \in Seq(ToSet(Names))

Name == ToSet(Names)

\* The function f, with y for x.
With(f, x, y) == [z \in {x} \cup DOMAIN f |-> IF z = x THEN y ELSE f[z]]

Symbol(decl, type, owner, constructor) ==
    [decl |-> decl, type |-> type, owner |-> owner, constructor |-> constructor]

NewScope(parent, isDefScope) ==
    [parent |-> parent, isDefScope |-> isDefScope, usedScopes |-> << >>,
     symbols |-> [n \in Name |-> << >>]]

----------------------------------------------------------------------------
(* Adding symbols *)

\* addEntry: the entry is added unless there is one it cannot overload.
Overloadable(old, new) == old.type = "DEF" /\ new.type = "DEF"
TakesEntry(scopes, s, n, symbol) ==
    scopes[s].symbols[n] = << >> \/ Overloadable(Head(scopes[s].symbols[n]), symbol)
AddEntry(scopes, s, n, symbol) ==
    IF TakesEntry(scopes, s, n, symbol)
    THEN [scopes EXCEPT ![s].symbols[n] = <<symbol>> \o @]
    ELSE scopes

\* getAllSymbols: the entries of a scope, in the order of the multimap.
Entries(scopes, s) ==
    LET under(n) == scopes[s].symbols[n]
    IN  FlattenSeq([k \in 1..Len(Names) |->
            [j \in 1..Len(under(Names[k])) |-> [name |-> Names[k], symbol |-> under(Names[k])[j]]]])

\* copySymbolsFrom, without the constructors: stops at the first entry that
\* conflicts with one the scope has.
CopyEntry(scopes, s, entry) ==
    LET taken == TakesEntry(scopes, s, entry.name, entry.symbol)
        first == Head(scopes[s].symbols[entry.name]).decl
    IN  IF entry.symbol.constructor THEN [scopes |-> scopes, conflict |-> 0]
        ELSE [scopes |-> AddEntry(scopes, s, entry.name, entry.symbol),
              conflict |-> IF taken \/ first = entry.symbol.decl THEN 0 ELSE first]
CopySymbolsFrom(scopes, from, to) ==
    LET entries == Entries(scopes, from)
        done[k \in 0..Len(entries)] ==
            IF k = 0 THEN [scopes |-> scopes, conflict |-> 0]
            ELSE IF done[k - 1].conflict # 0 THEN done[k - 1]
            ELSE CopyEntry(done[k - 1].scopes, to, entries[k])
    IN  done[Len(entries)]

----------------------------------------------------------------------------
(* Looking names up *)

\* The element e, if it counts.
One(e, counts) == IF counts THEN <<e>> ELSE << >>

\* What a scope has of that name, variables and methods left out once the
\* search has left a definition scope.
Accessible(symbol, traversedDefScope) ==
    traversedDefScope => symbol.type # "VAR" /\ (symbol.type = "DEF" => symbol.owner = 0)
InScope(scopes, s, n, traversedDefScope) ==
    LET found == scopes[s].symbols[n]
    IN  FlattenSeq([k \in 1..Len(found) |-> One(found[k], Accessible(found[k], traversedDefScope))])
InUsings(scopes, s, n, traversedDefScope) ==
    FlattenSeq([k \in 1..Len(scopes[s].usedScopes) |->
                   InScope(scopes, scopes[s].usedScopes[k], n, traversedDefScope)])

\* assignSymbolic: the symbols a name means in scope s; << >> if it has none
\* that is reachable.  Every module used is searched before the parent.
AssignSymbolicParentFirst(scopes, s, n) ==  \* mutant: usings after the parents
    LET from[t \in DOMAIN scopes] == [crossed \in BOOLEAN |->
            LET used == InUsings(scopes, t, n, crossed)
                up   == IF t = 0 THEN << >>
                        ELSE from[scopes[t].parent][crossed \/ scopes[t].isDefScope]
            IN  IF scopes[t].symbols[n] # << >> THEN InScope(scopes, t, n, crossed)
                ELSE IF up # << >> THEN up ELSE used]
    IN  from[s][FALSE]
AssignSymbolic(scopes, s, n) ==
    LET from[t \in DOMAIN scopes] == [crossed \in BOOLEAN |->
            LET used == InUsings(scopes, t, n, crossed)
            IN  IF scopes[t].symbols[n] # << >> THEN InScope(scopes, t, n, crossed)
                ELSE IF used # << >> THEN used
                ELSE IF t = 0 THEN << >>
                ELSE from[scopes[t].parent][crossed \/ scopes[t].isDefScope]]
    IN  from[s][FALSE]

\* getSymbol<ModuleSymbol>: the module of that name in scope s, or from there
\* on upwards; 0 if there is none.
IsModule(scopes, s, n) ==
    scopes[s].symbols[n] # << >> /\ Head(scopes[s].symbols[n]).type = "MODULE"
ModuleIn(scopes, s, n) ==
    IF IsModule(scopes, s, n) THEN Head(scopes[s].symbols[n]).decl ELSE 0
ModuleAbove(scopes, s, n) ==
    LET from[t \in DOMAIN scopes] ==
            IF IsModule(scopes, t, n) \/ t = 0 THEN ModuleIn(scopes, t, n)
            ELSE from[scopes[t].parent]
    IN  from[s]

\* buildUsingsFromPaths: the scope of a module is named like the module.
\* A path whose first name is no module ends the list.
ModuleOf(scopes, s, path) ==
    LET to[k \in 1..Len(path)] ==
            IF k = 1 THEN ModuleAbove(scopes, s, path[1])
            ELSE IF to[k - 1] = 0 THEN 0
            ELSE ModuleIn(scopes, to[k - 1], path[k])
    IN  to[Len(path)]
BuildUsings(scopes, s, paths) ==
    LET heads == {k \in 1..Len(paths) : ModuleAbove(scopes, s, Head(paths[k])) = 0}
        read  == IF heads = {} THEN paths ELSE SubSeq(paths, 1, Min(heads) - 1)
        used  == [k \in 1..Len(read) |-> ModuleOf(scopes, s, read[k])]
        added == FlattenSeq([k \in 1..Len(read) |-> One(used[k], used[k] # 0)])
    IN  [scopes |-> [scopes EXCEPT ![s].usedScopes = @ \o added],
         failed |-> heads # {} \/ \E k \in 1..Len(used) : used[k] = 0]
=============================================================================
