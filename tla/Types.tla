-------------------------------- MODULE Types --------------------------------
(***************************************************************************)
(* The types of src/Compiler/Frontend/Types/Types.cpp, the environments    *)
(* they carry (Environment.cpp), how they are created from the type        *)
(* expressions of a program (AST/Visitors/ASTTypeCreator.cpp), and the     *)
(* table of the super types of each class (CanSubtype.h).                  *)
(*                                                                         *)
(* A type expression is [name, args]: a class, a type parameter, an alias  *)
(* or a type constructor by its name, applied to args unless these are     *)
(* empty.  The names of type parameters are all different, and so a name   *)
(* stands for the address that the code compares.  A program has           *)
(*   - classes: the type parameters in scope of each, and its parent, a    *)
(*     sequence of one expression at most;                                 *)
(*   - constructors: the parameters of each, those around it, its body,    *)
(*     which may be a class, under a name of its own;                      *)
(*   - aliases: the expression each stands for;                            *)
(*   - params: the variance and the kind of each type parameter, which is  *)
(*     proper, with a lower and an upper bound (sequences of one expression*)
(*     at most), or that of a constructor, with its parameters and the     *)
(*     class made for what it returns.                                     *)
(* Function types, type members of classes and the cycles that are         *)
(* reported while types are created are left out.                          *)
(***************************************************************************)
EXTENDS Naturals, Sequences, FiniteSets, SequencesExt

CONSTANT Frames    \* how many substitutions inside one another the stack holds

ASSUME FramesAssumption == Frames \in Nat

VARIABLE program

Classes == DOMAIN program.classes
Params  == DOMAIN program.params

NoEnv == [p \in {} |-> p]

Proper(c, env)       == [is |-> "proper", name |-> c, env |-> env]
Constructor(k, env)  == [is |-> "constructor", name |-> k, env |-> env]
Call(callee, args)   == [is |-> "call", callee |-> callee, args |-> args]
Method(targs, args, ret, env) ==
    [is |-> "method", targs |-> targs, args |-> args, ret |-> ret, env |-> env]
NotYetDefined == [is |-> "undefined"]
Endless       == [is |-> "endless"]    \* the recursion that never comes back

\* The type of a parameter: that of the class or constructor made for it.
ParamType(p) == IF program.params[p].kind.is = "proper" THEN Proper(p, NoEnv) ELSE Constructor(p, NoEnv)

ParamsOf(c) == IF c \in Classes THEN program.classes[c].params ELSE << >>
\* The class that stands for a parameter extends its upper bound.
ParentOf(c) == IF c \in Classes THEN program.classes[c].parent ELSE program.params[c].kind.upper

-----------------------------------------------------------------------------
(* Environments *)

buildEnvironmentFromTypeParametrizable(params) == [p \in ToSet(params) |-> ParamType(p)]

buildEnvironmentFromTypeParameterInstantiation(params, args) ==
    IF Len(params) # Len(args) THEN NoEnv
    ELSE [p \in ToSet(params) |-> args[CHOOSE i \in DOMAIN params : params[i] = p]]

\* insert of all of by: what is inserted under a key that is there is found first.
insertAll(env, by) ==
    [p \in DOMAIN env \cup DOMAIN by |-> IF p \in DOMAIN by THEN by[p] ELSE env[p]]

findSubstOrReturnMe(env, t) ==
    IF t.is \in {"proper", "constructor"} /\ t.name \in DOMAIN env THEN env[t.name] ELSE t

substituteAll(env, by) == [p \in DOMAIN env |-> findSubstOrReturnMe(by, env[p])]

-----------------------------------------------------------------------------
(* Substitution *)

RebuildCall(callee, args) ==
    IF callee = Endless \/ Endless \in ToSet(args) THEN Endless ELSE Call(callee, args)

\* What a parameter stands for is substituted in its turn when it is the
\* application of a constructor, and not looked into otherwise.
RECURSIVE SubstituteIn(_, _, _)
SubstituteIn(t, env, frames) ==
    LET found  == findSubstOrReturnMe(env, t)
        Sub(u) == SubstituteIn(u, env, frames - 1)
    IN  CASE frames = 0 -> Endless
          [] found.is \in {"proper", "constructor"} ->
                 [found EXCEPT !.env = substituteAll(@, env)]
          [] found.is = "call" /\ DOMAIN env # {} ->
                 RebuildCall(Sub(found.callee), [i \in DOMAIN found.args |-> Sub(found.args[i])])
          [] OTHER -> found

substitute(t, env) == SubstituteIn(t, env, Frames)

substituteValueConstructor(m, env) ==
    Method(m.targs, [i \in DOMAIN m.args |-> substitute(m.args[i], env)],
           substitute(m.ret, env), substituteAll(m.env, env))

-----------------------------------------------------------------------------
(* Creation and application *)

\* createType of a name that stands for no alias.
SymbolType(n) ==
    CASE n \in Params -> ParamType(n)
      [] n \in DOMAIN program.constructors ->
             Constructor(n, buildEnvironmentFromTypeParametrizable(program.constructors[n].outer))
      [] OTHER -> Proper(n, buildEnvironmentFromTypeParametrizable(ParamsOf(n)))

RECURSIVE createType(_)
createType(e) ==
    CASE e.args # << >> ->
             Call(createType([e EXCEPT !.args = << >>]), [i \in DOMAIN e.args |-> createType(e.args[i])])
      [] e.name \in DOMAIN program.aliases -> createType(program.aliases[e.name])
      [] OTHER -> SymbolType(e.name)

\* The constructor made for a parameter has a body of its own.
ConstructorOf(k) ==
    IF k \in DOMAIN program.constructors THEN program.constructors[k]
    ELSE LET kind == program.params[k].kind
         IN  [params |-> kind.params, outer |-> << >>, body |-> [name |-> kind.ret, args |-> << >>]]

\* The arguments are substituted first, then what is around the constructor.
evalTypeConstructor(ctr, args) ==
    LET k    == ConstructorOf(ctr.name)
        subs == buildEnvironmentFromTypeParameterInstantiation(k.params, args)
    IN  IF ctr.is # "constructor" THEN NotYetDefined
        ELSE IF Len(k.params) # Len(args) THEN NotYetDefined
        ELSE substitute(substitute(createType(k.body), subs), ctr.env)

RECURSIVE apply(_)
apply(t) == IF t.is = "call" THEN apply(evalTypeConstructor(apply(t.callee), t.args)) ELSE t

----------------------------------------------------------------------------
(* The table of super types that name analysis builds, class after class:  *)
(* SymbolAssignation::visitParent and the bounds of type parameters, of    *)
(* src/Compiler/Frontend/Analyser/NameAnalysis.cpp, over CanSubtype of     *)
(* src/Compiler/Frontend/Types/CanSubtype.h.                               *)
(*                                                                         *)
(* supers[c][t] are the instances of t that c extends: environments over   *)
(* the parameters of t.  subTypes[t] are the classes that t was told of as *)
(* its immediate sub types, with the environment they extend it with.      *)
(* Cycles of inheritance, which are reported here, are left to             *)
(* NameAnalysis.tla.                                                       *)
VARIABLES agenda,      \* the classes and parameters name analysis has yet to visit, in order
          supers, subTypes,
          visited      \* _visitedTypes

table == [supers |-> supers, subTypes |-> subTypes, visited |-> visited]

Instances(tab, c, t) == IF t \in DOMAIN tab.supers[c] THEN tab.supers[c][t] ELSE << >>

addSpecialSuperType(tab, c, t, env) ==
    [tab EXCEPT !.supers[c] =
        [s \in DOMAIN @ \cup {t} |-> Instances(tab, c, s) \o (IF s = t THEN <<env>> ELSE << >>)]]

addImmediateSubType(tab, t, c, env) == [tab EXCEPT !.subTypes[t] = Append(@, <<c, env>>)]

\* mutant: c gets the super types of t as t has them
InheritUnchanged(tab, c, t, env) ==
    [tab EXCEPT !.supers[c] =
        [s \in DOMAIN @ \cup DOMAIN tab.supers[t] |-> Instances(tab, c, s) \o Instances(tab, t, s)]]

\* c gets the super types of t as env instantiates them ...
InheritFrom(tab, c, t, env) ==
    LET new(s) == [i \in DOMAIN Instances(tab, t, s) |-> substituteAll(Instances(tab, t, s)[i], env)]
    IN  [tab EXCEPT !.supers[c] =
            [s \in DOMAIN @ \cup DOMAIN tab.supers[t] |-> Instances(tab, c, s) \o new(s)]]

\* ... and so does everything that already extends c.
RECURSIVE recursivelyAddSuperType(_, _, _, _)
recursivelyAddSuperType(tab, c, t, env) ==
    FoldLeft(LAMBDA acc, sub : recursivelyAddSuperType(acc, sub[1], t, substituteAll(env, sub[2])),
             InheritFrom(tab, c, t, env), tab.subTypes[c])

addSuperType(tab, c, t, env) ==
    recursivelyAddSuperType(addImmediateSubType(tab, t, c, env), c, t, env)

\* For a lower bound: t alone, not the super types of t, and each class once.
RECURSIVE AddDownward(_, _, _, _)
AddDownward(acc, c, t, env) ==
    IF c \in acc.seen THEN acc
    ELSE FoldLeft(LAMBDA a, sub : AddDownward(a, sub[1], t, substituteAll(env, sub[2])),
                  [tab |-> addSpecialSuperType(acc.tab, c, t, env), seen |-> acc.seen \cup {c}],
                  acc.tab.subTypes[c])

carefullyAddSuperTypeDownward(tab, c, t, env) ==
    AddDownward([tab |-> addImmediateSubType(tab, t, c, env), seen |-> {}], c, t, env).tab

-----------------------------------------------------------------------------

\* The type a class extends, or nothing when it is no class.
ParentType(c) ==
    IF ParentOf(c) = << >> THEN NotYetDefined ELSE apply(createType(ParentOf(c)[1]))

\* The parents are visited before a class learns what it inherits.
RECURSIVE visitParent(_, _)
visitParent(tab, c) ==
    LET self   == addSpecialSuperType(tab, c, c, buildEnvironmentFromTypeParametrizable(ParamsOf(c)))
        parent == ParentType(c)
        done   == IF parent.is # "proper" THEN self
                  ELSE addSuperType(visitParent(self, parent.name), c, parent.name, parent.env)
    IN  IF c \in tab.visited THEN tab ELSE [done EXCEPT !.visited = @ \cup {c}]

\* A lower bound that is the application of a constructor is passed over.
visitLowerBound(tab, p) ==
    LET lower == IF program.params[p].kind.lower = << >> THEN NotYetDefined
                 ELSE createType(program.params[p].kind.lower[1])
    IN  IF lower.is # "proper" THEN tab
        ELSE carefullyAddSuperTypeDownward(visitParent(tab, lower.name), lower.name, p, NoEnv)

\* A parameter of a constructor's kind has no class.
VisitDeclaration(c) ==
    IF c \in Classes THEN visitParent(table, c)
    ELSE IF program.params[c].kind.is = "proper" THEN visitLowerBound(visitParent(table, c), c)
    ELSE table

AssignSymbols ==
    /\ agenda # << >>
    /\ LET next == VisitDeclaration(Head(agenda))
       IN  supers' = next.supers /\ subTypes' = next.subTypes /\ visited' = next.visited
    /\ agenda' = Tail(agenda)
    /\ UNCHANGED program

SuperTypesInit ==
    /\ supers = [c \in Classes \cup Params |-> NoEnv]
    /\ subTypes = [c \in Classes \cup Params |-> << >>]
    /\ visited = {}

-----------------------------------------------------------------------------
(***************************************************************************)
(* What is asked of types once name analysis is done:                      *)
(*   - which type is a sub type of which (Types/Types.cpp);                *)
(*   - kinds (Kinds/Kinds.cpp), those of type expressions and whether the  *)
(*     arguments of a constructor are in its bounds                        *)
(*     (Analyser/KindChecking.cpp, AST/Visitors/ASTKindCreator.cpp);       *)
(*   - the type of a method once its type parameters are given or inferred *)
(*     (evalFunctionConstructor of AST/Visitors/ASTTypeCreator.cpp);       *)
(*   - what a redefinition overrides (Analyser/TypeChecking.cpp).          *)
(***************************************************************************)

VARIABLE generic    \* DefaultGenericTypeHolder: the parameter whose type is cached, if any

-----------------------------------------------------------------------------
(* Sub types *)

\* isSubTypeOf and equals, on types that are applied.  Of the ways a class
\* extends another, the first is looked at.
RECURSIVE Related(_, _, _)
Related(how, a, b) ==
    LET Matches(p, mine, other) ==
            CASE how = "equals" \/ program.params[p].variance = "none" -> Related("equals", mine, other)
              [] program.params[p].variance = "in"  -> Related("sub", other, mine)
              [] program.params[p].variance = "out" -> Related("sub", mine, other)
        Match(env) == \A p \in DOMAIN env : Matches(p, apply(env[p]), apply(b.env[p]))
        instances  == Instances(table, a.name, b.name)
    IN  CASE a.is # b.is -> FALSE
          [] a.is = "constructor" /\ how = "sub" -> Related("equals", a, b)
          [] a.is = "proper" /\ how = "sub" ->
                 instances # << >> /\ Match(substituteAll(instances[1], a.env))
          [] a.is \in {"proper", "constructor"} -> a.name = b.name /\ Match(a.env)
          [] OTHER -> FALSE

isSubTypeOf(a, b) == Related("sub", a, b)
equals(a, b)      == Related("equals", a, b)

-----------------------------------------------------------------------------
(* Kinds *)

ProperKind(lower, upper) == [is |-> "proper", lower |-> lower, upper |-> upper]
TypeConstructorKind(params, ret) == [is |-> "constructor", params |-> params, ret |-> ret]

\* computeBoundType; << >> is no bound.
BoundType(bound) == IF bound = << >> THEN << >> ELSE <<createType(bound[1])>>

RECURSIVE KindOfParam(_)
KindOfParam(p) ==
    LET kind == program.params[p].kind
    IN  IF kind.is = "proper" THEN ProperKind(BoundType(kind.lower), BoundType(kind.upper))
        ELSE TypeConstructorKind([i \in DOMAIN kind.params |->
                                     [variance |-> program.params[kind.params[i]].variance,
                                      kind |-> KindOfParam(kind.params[i])]],
                                 ProperKind(<< >>, << >>))

\* The kind of a class, a parameter's included: it is its own lower and upper bound.
KindOfClass(c) ==
    LET self == Proper(c, buildEnvironmentFromTypeParametrizable(ParamsOf(c)))
    IN  ProperKind(<<self>>, <<self>>)

KindOfConstructor(k, ret) ==
    TypeConstructorKind([i \in DOMAIN ConstructorOf(k).params |->
                            [variance |-> program.params[ConstructorOf(k).params[i]].variance,
                             kind |-> KindOfParam(ConstructorOf(k).params[i])]], ret)

\* The kind of an expression; a call has the kind its callee returns.
RECURSIVE KindOf(_)
KindOf(e) ==
    CASE e.args # << >> -> KindOf([e EXCEPT !.args = << >>]).ret
      [] e.name \in DOMAIN program.aliases -> KindOf(program.aliases[e.name])
      [] SymbolType(e.name).is = "constructor" ->
             KindOfConstructor(e.name, KindOf(ConstructorOf(e.name).body))
      [] OTHER -> KindOfClass(e.name)

\* substitute, then apply, of a kind.
RECURSIVE SubstitutedKind(_, _)
SubstitutedKind(k, env) ==
    LET Bound(b) == [i \in DOMAIN b |-> apply(substitute(b[i], env))]
    IN  IF k.is = "proper" THEN ProperKind(Bound(k.lower), Bound(k.upper))
        ELSE TypeConstructorKind([i \in DOMAIN k.params |->
                                     [k.params[i] EXCEPT !.kind = SubstitutedKind(@, env)]],
                                 SubstitutedKind(k.ret, env))

isVarianceSubKind(a, b) == a = b \/ b = "none"

RECURSIVE isSubKindOf(_, _, _)
isSubKindOf(a, b, checkBounds) ==
    CASE a.is # b.is -> FALSE
      [] a.is = "proper" ->
             checkBounds =>
                 /\ b.lower = << >> \/ (a.lower # << >> /\ isSubTypeOf(b.lower[1], a.lower[1]))
                 /\ b.upper = << >> \/ (a.upper # << >> /\ isSubTypeOf(a.upper[1], b.upper[1]))
      [] OTHER ->
             /\ Len(a.params) = Len(b.params)
             /\ \A i \in DOMAIN a.params :
                    /\ isSubKindOf(a.params[i].kind, b.params[i].kind, checkBounds)
                    /\ isVarianceSubKind(a.params[i].variance, b.params[i].variance)
             /\ isSubKindOf(a.ret, b.ret, checkBounds)

\* mutant: the bounds of the parameters are taken as they are declared
kindCheckWithBoundsAsDeclared(paramKinds, argKinds, argTypes, env) ==
    /\ Len(argKinds) = Len(paramKinds)
    /\ \A i \in DOMAIN argKinds :
           isSubKindOf(SubstitutedKind(argKinds[i], apply(argTypes[i]).env), paramKinds[i], TRUE)

kindCheckWithBoundsArgumentSubstitution(paramKinds, argKinds, argTypes, env) ==
    /\ Len(argKinds) = Len(paramKinds)
    /\ \A i \in DOMAIN argKinds :
           isSubKindOf(SubstitutedKind(argKinds[i], apply(argTypes[i]).env),
                       SubstitutedKind(paramKinds[i], env), TRUE)

\* Whether kind checking has nothing to say of an expression.
RECURSIVE KindChecks(_)
KindChecks(e) ==
    LET callee == [e EXCEPT !.args = << >>]
        ctr    == apply(createType(callee))
        params == ConstructorOf(ctr.name).params
        args   == [i \in DOMAIN e.args |-> createType(e.args[i])]
        env    == insertAll(ctr.env, buildEnvironmentFromTypeParameterInstantiation(params, args))
    IN  e.args # << >> =>
            /\ \A i \in DOMAIN e.args : KindChecks(e.args[i])
            /\ KindOf(callee).is = "constructor"
            /\ ctr.is = "constructor"
            /\ kindCheckWithBoundsArgumentSubstitution(
                   [i \in DOMAIN params |-> KindOfParam(params[i])],
                   [i \in DOMAIN e.args |-> KindOf(e.args[i])], args, env)

-----------------------------------------------------------------------------
(* Methods *)

\* What is cached once the type of m is applied: the first parameter's type serves
\* for every kind it is a sub kind of, bounds aside.
CachedBy(m, cached) == IF cached = << >> /\ m.targs # << >> THEN <<m.targs[1]>> ELSE cached
DefaultGenericType(m, cached) == ParamType(CachedBy(m, cached)[1])

\* apply of a method: default types for its parameters, then apply of what is left.
applyValueConstructor(m, cached) ==
    LET defaults == [i \in DOMAIN m.targs |-> DefaultGenericType(m, cached)]
        self     == IF m.targs = << >> THEN m
                    ELSE substituteValueConstructor(m, buildEnvironmentFromTypeParameterInstantiation(m.targs, defaults))
    IN  [self EXCEPT !.args = [i \in DOMAIN @ |-> apply(@[i])], !.ret = apply(@)]

\* mutant: arguments may be narrower
isSubTypeInArguments(a, b) ==
    /\ Len(a.targs) = Len(b.targs)
    /\ Len(a.args) = Len(b.args)
    /\ \A i \in DOMAIN a.args : isSubTypeOf(a.args[i], b.args[i])
    /\ isSubTypeOf(a.ret, b.ret)

isSubTypeOfValueConstructor(a, b) ==
    /\ Len(a.targs) = Len(b.targs)
    /\ Len(a.args) = Len(b.args)
    /\ \A i \in DOMAIN a.targs :
           isSubKindOf(SubstitutedKind(KindOfParam(b.targs[i]), b.env),
                       SubstitutedKind(KindOfParam(a.targs[i]), a.env), TRUE)
    /\ \A i \in DOMAIN a.args : isSubTypeOf(b.args[i], a.args[i])
    /\ isSubTypeOf(a.ret, b.ret)

\* What copySymbolsFrom leaves as the environment of a symbol of owner in c.
RECURSIVE SymbolEnv(_, _)
SymbolEnv(c, owner) ==
    LET parent == ParentType(c)
    IN  IF c = owner THEN NoEnv
        ELSE insertAll(substituteAll(SymbolEnv(parent.name, owner), parent.env), parent.env)

\* findOverridenSymbol, of two methods that are no redefinitions of others.
Overrides(redef, root, c, owner) ==
    LET mine  == applyValueConstructor(redef, generic)
        other == applyValueConstructor(substituteValueConstructor(root, SymbolEnv(c, owner)), CachedBy(redef, generic))
    IN  isSubTypeOfValueConstructor(mine, other)

-----------------------------------------------------------------------------
(* Inference *)

\* The parent of the class a type is of, as the type sees it; << >> without one.
TypeOfParent(class) ==
    IF class.is # "proper" \/ ParentOf(class.name) = << >> THEN << >>
    ELSE <<substitute(createType(ParentOf(class.name)[1]), class.env)>>

\* unify, over what is known of the parameters so far: [ok, args].  What was
\* found before an application failed to unify is kept when its parent is tried.
RECURSIVE unify(_, _, _, _)
unify(ta, tb, params, args) ==
    LET i    == CHOOSE k \in DOMAIN params : ParamType(params[k]) = ta
        Next(acc, k) == IF acc.ok THEN unify(ta.args[k], tb.args[k], params, acc.args) ELSE acc
        same == FoldLeft(Next, unify(ta.callee, tb.callee, params, args), [k \in DOMAIN ta.args |-> k])
        Or(found, parent) ==
            IF found.ok \/ parent = << >> THEN found ELSE unify(ta, parent[1], params, found.args)
    IN  CASE \E k \in DOMAIN params : ParamType(params[k]) = ta ->
                 IF args[i] # NotYetDefined /\ ~ equals(args[i], tb) THEN [ok |-> FALSE, args |-> args]
                 ELSE [ok |-> TRUE, args |-> [args EXCEPT ![i] = tb]]
          [] ta.is = "call" ->
                 Or(IF tb.is = "call" /\ Len(ta.args) = Len(tb.args) THEN same ELSE [ok |-> FALSE, args |-> args],
                    TypeOfParent(apply(tb)))
          [] OTHER -> [ok |-> equals(ta, tb), args |-> args]

AllKnown(args) == NotYetDefined \notin ToSet(args)

\* The arguments are looked at until one does not fit or all is known.
Inferred(m, callArgs) ==
    LET Next(acc, i) == IF acc.stop THEN acc
            ELSE LET u == unify(m.args[i], callArgs[i], m.targs, acc.args)
                 IN  [stop |-> ~ u.ok \/ AllKnown(u.args), args |-> u.args]
    IN  FoldLeft(Next, [stop |-> FALSE, args |-> [i \in DOMAIN m.targs |-> NotYetDefined]],
                 [i \in DOMAIN m.args |-> i]).args

\* The kind of the expression that stands for a type that was inferred.
KindOfType(t) == IF t.is = "proper" THEN KindOfClass(t.name) ELSE KindOf([name |-> t.name, args |-> << >>])

\* The method with all of its parameters given, if their kinds fit.
Instantiated(m, found, kinds) ==
    LET env == buildEnvironmentFromTypeParameterInstantiation(m.targs, found)
    IN  IF kindCheckWithBoundsArgumentSubstitution(
               [i \in DOMAIN m.targs |-> KindOfParam(m.targs[i])], kinds, found, insertAll(m.env, env))
        THEN substituteValueConstructor([m EXCEPT !.targs = << >>], env) ELSE NotYetDefined
\* mutant: parameters that are inferred are not held to their bounds
CompletedAnyhow(m, found) ==
    IF AllKnown(found)
    THEN substituteValueConstructor([m EXCEPT !.targs = << >>],
             buildEnvironmentFromTypeParameterInstantiation(m.targs, found))
    ELSE NotYetDefined
Completed(m, found) ==
    IF AllKnown(found) THEN Instantiated(m, found, [i \in DOMAIN found |-> KindOfType(apply(found[i]))])
    ELSE NotYetDefined

\* args are the expressions given for the type parameters, if any.
evalFunctionConstructor(m, args, callArgs) ==
    CASE m.targs = << >> /\ args = << >> -> m
      [] args # << >> ->
             Instantiated(m, [i \in DOMAIN args |-> createType(args[i])], [i \in DOMAIN args |-> KindOf(args[i])])
      [] Len(callArgs) # Len(m.args) -> NotYetDefined
      [] OTHER -> Completed(m, Inferred(m, callArgs))
=============================================================================
