-------------------------------- MODULE Typing --------------------------------
(***************************************************************************)
(* Types, from the declarations of a program to the bodies of its methods: *)
(* name analysis builds the table of super types, kind and type checking   *)
(* then accept or refuse a method, and at the end redefinitions look for   *)
(* what they override.  What is declared, and what a value may be when the *)
(* program runs, is stated below without any of the machinery of the       *)
(* compiler and compared with its answers.                                 *)
(*                                                                         *)
(* A program also has the order its declarations are visited in, and its   *)
(* redefinitions: each with its class and its key among the members of it, *)
(* and the class and the key of what it may override.                      *)
(***************************************************************************)
EXTENDS Types

-----------------------------------------------------------------------------
(***************************************************************************)
(* Type checking of a method and of the expressions in its body, after     *)
(* src/Compiler/Frontend/Analyser/TypeChecking.cpp.  A program has members:*)
(* for each class, its fields and methods by name; a method has type       *)
(* parameters, the types of its arguments and the one it returns.  Each is *)
(* the only one of its name in the class and its parents (the choice among *)
(* overloads is in Methods.tla).                                           *)
(*                                                                         *)
(* Expressions are those of AST/Nodes/Expressions.h: locals, this,         *)
(* literals, member accesses, calls, instantiations with their call,       *)
(* assignments, conditions and blocks.  An argument of a call is a local,  *)
(* this or a literal, whose type nothing expected of it changes.  Function *)
(* values, and the types inferred for what is declared without one, are    *)
(* left out.                                                               *)
(***************************************************************************)
Unit == Proper("unit", NoEnv)
Bool == Proper("bool", NoEnv)

MethodParams(c, member) == ParamsOf(c) \o member.targs

\* The class or the ancestor of it that has a member of that name.
RECURSIVE OwnerOf(_, _)
OwnerOf(c, n) ==
    IF c \in DOMAIN program.members /\ n \in DOMAIN program.members[c] THEN <<c>>
    ELSE IF n # "new" /\ ParentType(c).is = "proper" THEN OwnerOf(ParentType(c).name, n)
    ELSE << >>

\* The type a member is declared with.
DeclaredType(c, member) ==
    IF member.is = "field" THEN createType(member.type)
    ELSE Method(member.targs, [i \in DOMAIN member.args |-> createType(member.args[i])],
                createType(member.ret),
                buildEnvironmentFromTypeParametrizable(MethodParams(c, member)))

substituteMember(t, env) == IF t.is = "method" THEN substituteValueConstructor(t, env) ELSE substitute(t, env)

\* tryGetFieldInfo: the environment the symbol was inherited with, then that
\* of the object.
MemberType(obj, n) ==
    LET owner == OwnerOf(obj.name, n)[1]
    IN  substituteMember(substituteMember(DeclaredType(owner, program.members[owner][n]),
                                          SymbolEnv(obj.name, owner)), obj.env)

-----------------------------------------------------------------------------
(* What checking an expression comes to: its type, whether it is right and *)
(* the methods that were applied on the way.                               *)

Typed(type, used) == [type |-> type, ok |-> TRUE, used |-> used]
Wrong(used)       == [type |-> NotYetDefined, ok |-> FALSE, used |-> used]

CheckMember(of, n) ==
    LET obj == apply(of.type)
    IN  IF ~ of.ok THEN of
        ELSE IF obj.is # "proper" \/ OwnerOf(obj.name, n) = << >> THEN Wrong(of.used)
        ELSE LET t == MemberType(obj, n)
             IN  Typed(t, IF t.is = "method" THEN Append(of.used, t) ELSE of.used)

CheckAssignment(lhs, rhs) ==
    IF lhs.ok /\ rhs.ok /\ isSubTypeOf(apply(rhs.type), apply(lhs.type))
    THEN Typed(rhs.type, lhs.used \o rhs.used) ELSE Wrong(lhs.used \o rhs.used)

AllUsed(checks) == FlattenSeq([i \in DOMAIN checks |-> checks[i].used])

\* A value that nobody waits for is of type unit, whatever it is.
Dropped(want) == want # NotYetDefined /\ isSubTypeOf(want, Unit)

CheckBlock(stats, drop) ==
    IF \E i \in DOMAIN stats : ~ stats[i].ok THEN Wrong(AllUsed(stats))
    ELSE Typed(IF drop \/ stats = << >> THEN Unit ELSE Last(stats).type, AllUsed(stats))

\* parts: the condition, the then-part and, if there is one, the else-part.
CheckIf(parts, drop) ==
    LET then   == apply(parts[2].type)
        else   == apply(parts[3].type)
        Is(t)  == Typed(t, AllUsed(parts))
    IN  CASE (\E i \in DOMAIN parts : ~ parts[i].ok) \/ ~ isSubTypeOf(apply(parts[1].type), Bool) ->
                 Wrong(AllUsed(parts))
          [] drop -> Is(Unit)
          [] Len(parts) = 2 -> IF isSubTypeOf(then, Unit) THEN Is(Unit) ELSE Wrong(AllUsed(parts))
          [] isSubTypeOf(then, else) -> Is(parts[3].type)
          [] isSubTypeOf(else, then) -> Is(parts[2].type)
          [] OTHER -> Wrong(AllUsed(parts))

\* Whether the arguments of a call fit the method, once it is instantiated; a
\* constructor returns what it makes, any other method what it says.
CheckCall(callee, targs, args, ret) ==
    LET used == callee.used \o AllUsed(args)
        m    == evalFunctionConstructor(callee.type, targs, [i \in DOMAIN args |-> args[i].type])
    IN  IF /\ callee.ok /\ callee.type.is = "method"
           /\ \A i \in DOMAIN args : args[i].ok
           /\ \A i \in DOMAIN targs : KindChecks(targs[i])
           /\ m.is = "method"
           /\ Len(m.args) = Len(args)
           /\ \A i \in DOMAIN args : isSubTypeOf(apply(args[i].type), apply(m.args[i]))
        THEN Typed(IF ret = NotYetDefined THEN m.ret ELSE ret, used) ELSE Wrong(used)

\* Only a class can be instantiated.
NewOf(type) ==
    IF KindChecks(type) /\ apply(createType(type)).is = "proper"
    THEN CheckMember(Typed(createType(type), << >>), "new") ELSE Wrong(<< >>)

\* want is what is expected of the expression that expects concerns; the last
\* statement of a block expects it whether or not the block does.
RECURSIVE Check(_, _, _, _)
Check(item, e, want, expects) ==
    LET Free(f) == Check(item, f, want, FALSE)
        drop    == expects /\ Dropped(want)
        parts   == <<Free(e.cond), Check(item, e.then, want, drop)>>
                       \o [i \in DOMAIN e.else |-> Check(item, e.else[i], want, drop)]
        stats   == [i \in DOMAIN e.stats |->
                       IF i < Len(e.stats) THEN Check(item, e.stats[i], Unit, TRUE)
                       ELSE Check(item, e.stats[i], want, TRUE)]
        lhs     == Free(e.lhs)
        args    == [i \in DOMAIN e.args |-> Free(e.args[i])]
    IN  CASE e.is = "local"   -> Typed(createType(item.locals[e.name]), << >>)
          [] e.is = "literal" -> Typed(Proper(e.name, NoEnv), << >>)
          [] e.is = "this"    ->
                 Typed(Proper(item.owner, buildEnvironmentFromTypeParametrizable(ParamsOf(item.owner))), << >>)
          [] e.is = "member"  -> CheckMember(Free(e.of), e.name)
          [] e.is \in {"call", "new"} ->
                 CheckCall(IF e.is = "new" THEN NewOf(e.type) ELSE CheckMember(Free(e.of), e.name),
                           IF e.is = "new" THEN << >> ELSE e.targs, args,
                           IF e.is = "new" THEN createType(e.type) ELSE NotYetDefined)
          [] e.is = "assign"  -> CheckAssignment(lhs, Check(item, e.rhs, lhs.type, TRUE))
          [] e.is = "if"      -> CheckIf(parts, drop)
          [] e.is = "block"   -> CheckBlock(stats, drop)

\* visit(FunctionCreation), of a method whose result has a type: an item has
\* an owner, locals, the type it returns and a body.
BodyFits(body, ret) ==
    IF body.ok /\ isSubTypeOf(apply(body.type), apply(ret)) THEN body ELSE Wrong(body.used)
CheckMethod(item) ==
    BodyFits(Check(item, item.body, createType(item.ret), TRUE), createType(item.ret))

\* What an item declares is kind checked before.
ItemKindChecks(item) ==
    KindChecks(item.ret) /\ \A n \in DOMAIN item.locals : KindChecks(item.locals[n])

-----------------------------------------------------------------------------
CONSTANTS Programs,
          ItemsOf(_),     \* the methods that may be checked in a program
          Universe(_)     \* the type expressions of a program that are compared

VARIABLES checked,        \* << >> or <<the method that was checked>>
          accepted,       \* whether it was
          pending,        \* _redefs: the redefinitions still to resolve
          overriding      \* those that override something

vars == <<program, agenda, supers, subTypes, visited, generic, checked, accepted, pending, overriding>>

Init ==
    /\ program \in Programs
    /\ agenda = program.order
    /\ SuperTypesInit
    /\ generic = << >>
    /\ checked = << >> /\ accepted = FALSE
    /\ pending = program.redefs /\ overriding = {}

Assign == AssignSymbols /\ UNCHANGED <<generic, checked, accepted, pending, overriding>>

Conclude(method, ok) ==
    /\ accepted' = (ok /\ method.ok)
    /\ generic' = IF ok THEN FoldLeft(LAMBDA cached, m : CachedBy(m, cached), generic, method.used) ELSE generic

CheckItem(item) ==
    /\ agenda = << >> /\ checked = << >> /\ pending = program.redefs
    /\ checked' = <<item>>
    /\ Conclude(CheckMethod(item), ItemKindChecks(item))
    /\ UNCHANGED <<program, agenda, supers, subTypes, visited, pending, overriding>>

ResolveRedef ==
    /\ agenda = << >> /\ pending # << >>
    /\ checked # << >> => accepted
    /\ LET r     == Head(pending)
           redef == DeclaredType(r.class, program.members[r.class][r.redef])
           root  == DeclaredType(r.owner, program.members[r.owner][r.name])
       IN  /\ overriding' = IF Overrides(redef, root, r.class, r.owner) THEN overriding \cup {r} ELSE overriding
           /\ generic' = CachedBy(root, CachedBy(redef, generic))
    /\ pending' = Tail(pending)
    /\ UNCHANGED <<program, agenda, supers, subTypes, visited, checked, accepted>>

Next ==
    \/ Assign
    \/ \E item \in ItemsOf(program) : CheckItem(item)
    \/ ResolveRedef

Spec == Init /\ [][Next]_vars

-----------------------------------------------------------------------------
(* What is declared.  Types are type expressions here, and what a parameter*)
(* stands for is put in its place everywhere, once.                        *)

Name(n) == [name |-> n, args |-> << >>]

RECURSIVE Put(_, _)
Put(e, map) ==
    IF e.args = << >> THEN IF e.name \in DOMAIN map THEN map[e.name] ELSE e
    ELSE [name |-> IF e.name \in DOMAIN map THEN map[e.name].name ELSE e.name,
          args |-> [i \in DOMAIN e.args |-> Put(e.args[i], map)]]

Instance(params, args) == [p \in ToSet(params) |-> args[CHOOSE i \in DOMAIN params : params[i] = p]]

\* A type expression without aliases: constructors that are classes remain.
RECURSIVE Expand(_)
Expand(e) ==
    LET args == [i \in DOMAIN e.args |-> Expand(e.args[i])]
        k    == program.constructors[e.name]
    IN  CASE e.name \in DOMAIN program.aliases -> Expand(program.aliases[e.name])
          [] e.name \in DOMAIN program.constructors /\ args # << >> /\ k.body.name \notin Classes ->
                 Expand(Put(k.body, Instance(k.params, args)))
          [] OTHER -> [e EXCEPT !.args = args]

\* The class an expanded expression is of, what it declares and its parent.
ClassOf(e) ==
    IF e.args # << >> /\ e.name \in DOMAIN program.constructors THEN program.constructors[e.name].body.name
    ELSE e.name
DeclaredParent(e) ==
    LET c == ClassOf(e)
    IN  IF c \in Params THEN program.params[c].kind.upper
        ELSE IF program.classes[c].parent = << >> THEN << >>
        ELSE <<Expand(Put(program.classes[c].parent[1], Instance(ParamsOf(c), e.args)))>>

\* By reflexivity, variance, inheritance and the bounds of parameters.
RECURSIVE Declared(_, _)
Declared(a, b) ==
    \/ a = b
    \/ /\ a.name = b.name /\ Len(a.args) = Len(b.args)
       /\ \A i \in DOMAIN a.args :
              LET variance == program.params[ParamsOf(ClassOf(a))[i]].variance
              IN  /\ variance # "in" => Declared(a.args[i], b.args[i])
                  /\ variance # "out" => Declared(b.args[i], a.args[i])
    \/ DeclaredParent(a) # << >> /\ Declared(DeclaredParent(a)[1], b)
    \/ b.name \in Params /\ program.params[b.name].kind.lower # << >>
           /\ Declared(a, program.params[b.name].kind.lower[1])

RECURSIVE ParamsIn(_)
ParamsIn(e) == ({e.name} \cap Params) \cup UNION {ParamsIn(e.args[i]) : i \in DOMAIN e.args}

Closed(e) == ParamsIn(e) = {}
Ground    == {Expand(e) : e \in {u \in Universe(program) : Closed(u)}}

\* What parameters may stand for: closed types within their bounds.
InBounds(p, map) ==
    LET kind == program.params[p].kind
    IN  IF kind.is # "proper" THEN TRUE
        ELSE /\ kind.lower # << >> => Declared(Expand(Put(kind.lower[1], map)), map[p])
             /\ kind.upper # << >> => Declared(map[p], Expand(Put(kind.upper[1], map)))
Meanings(params, types) == {map \in [params -> types] : \A p \in params : InBounds(p, map)}

-----------------------------------------------------------------------------
(* What may come to pass. *)

\* Whether every constructor is applied to as many arguments as it has
\* parameters, each within the bounds of its parameter.
Fits(arg, p, map) ==
    LET constructor == arg.args = << >> /\ SymbolType(arg.name).is = "constructor"
    IN  IF program.params[p].kind.is = "proper" THEN ~ constructor /\ InBounds(p, map)
        ELSE constructor /\ Len(ConstructorOf(arg.name).params) = Len(program.params[p].kind.params)

RECURSIVE WellFormed(_)
WellFormed(e) ==
    LET params == ConstructorOf(e.name).params
        map    == Instance(params, [i \in DOMAIN e.args |-> Expand(e.args[i])])
    IN  e.args # << >> =>
            /\ SymbolType(e.name).is = "constructor" /\ Len(params) = Len(e.args)
            /\ \A i \in DOMAIN e.args : WellFormed(e.args[i]) /\ Fits(e.args[i], params[i], map)

\* The objects there may be where a closed type is expected.
Objects(type) == {o \in Ground : ClassOf(o) \in Classes /\ Declared(o, type)}

\* A member of an object, from the first of its ancestors that declares it.
RECURSIVE Declarer(_, _)
Declarer(o, n) ==
    IF ClassOf(o) \in DOMAIN program.members /\ n \in DOMAIN program.members[ClassOf(o)] THEN o
    ELSE Declarer(DeclaredParent(o)[1], n)

Member(o, n) == program.members[ClassOf(Declarer(o, n))][n]
\* What o makes of a type that the declaration of its member mentions.
Seen(o, n, type) ==
    LET d == Declarer(o, n) IN Expand(Put(type, Instance(ParamsOf(ClassOf(d)), d.args)))

\* The type expression of a type of the compiler.
RECURSIVE Reify(_)
Reify(t) ==
    LET params == ParamsOf(t.name)
        k      == CHOOSE k \in DOMAIN program.constructors : program.constructors[k].body = Name(t.name)
    IN  CASE t = NotYetDefined -> Name("undefined")
          [] t.is = "call" -> [name |-> Reify(t.callee).name, args |-> [i \in DOMAIN t.args |-> Reify(t.args[i])]]
          [] t.is = "proper" /\ params # << >> ->
                 [name |-> k, args |-> [i \in DOMAIN params |-> Reify(t.env[params[i]])]]
          [] OTHER -> Name(t.name)

RECURSIVE Nodes(_)
Nodes(e) ==
    {e} \cup CASE e.is = "member" -> Nodes(e.of)
               [] e.is = "call"   -> Nodes(e.of) \cup UNION {Nodes(e.args[i]) : i \in DOMAIN e.args}
               [] e.is = "new"    -> UNION {Nodes(e.args[i]) : i \in DOMAIN e.args}
               [] e.is = "assign" -> Nodes(e.lhs) \cup Nodes(e.rhs)
               [] e.is = "if"     -> Nodes(e.then) \cup UNION {Nodes(e.else[i]) : i \in DOMAIN e.else}
               [] e.is = "block"  -> UNION {Nodes(e.stats[i]) : i \in DOMAIN e.stats}
               [] OTHER           -> {}

\* A type, what it is applied to, and the same of what it extends.
RECURSIVE Around(_)
Around(e) ==
    {e} \cup UNION {Around(e.args[i]) : i \in DOMAIN e.args}
        \cup UNION {Around(DeclaredParent(e)[i]) : i \in DOMAIN DeclaredParent(e)}

\* A call goes well if some meaning of the type parameters of the method makes
\* the arguments fit it and what it returns fit the type of the call.
CallHolds(o, n, args, Returned(_)) ==
    \E more \in Meanings(ToSet(Member(o, n).targs), Ground \cup UNION {Around(a) : a \in ToSet(args)}) :
        LET In(type) == Expand(Put(Seen(o, n, type), more))
        IN  /\ Len(args) = Len(Member(o, n).args)
            /\ \A i \in DOMAIN args : Declared(args[i], In(Member(o, n).args[i]))
            /\ Returned(In(Member(o, n).ret))

\* Whether a part of an item does what its type says, for one meaning of the
\* type parameters around it; types are those of all parts.
Holds(e, types, map) ==
    LET Static(f) == Expand(Put(types[f], map))
        args      == [i \in DOMAIN e.args |-> Static(e.args[i])]
        Here(o)   == Declared(Seen(o, e.name, Member(o, e.name).type), Static(e))
        There(o)  == Declared(Static(e.rhs), Seen(o, e.lhs.name, Member(o, e.lhs.name).type))
        Ret(type) == Declared(type, Static(e))
        All(type) == TRUE
    IN  CASE e.is = "member" -> \A o \in Objects(Static(e.of)) : Here(o)
          [] e.is = "call"   -> \A o \in Objects(Static(e.of)) : CallHolds(o, e.name, args, Ret)
          [] e.is = "new"    -> CallHolds(Static(e), "new", args, All)
          [] e.is = "assign" -> IF e.lhs.is = "member" THEN \A o \in Objects(Static(e.lhs.of)) : There(o)
                                ELSE Declared(Static(e.rhs), Static(e.lhs))
          [] e.is = "if" /\ Static(e) \notin {Name("unit"), Name("undefined")} ->
                 \A branch \in {e.then} \cup ToSet(e.else) : Declared(Static(branch), Static(e))
          [] OTHER -> TRUE

AllHold(item, types) ==
    \A map \in Meanings(ToSet(ParamsOf(item.owner)) \cup ToSet(item.targs), Ground) :
        /\ \A e \in DOMAIN types : Holds(e, types, map)
        /\ item.ret = Name("unit") \/ Declared(Expand(Put(types[item.body], map)), Expand(Put(item.ret, map)))

-----------------------------------------------------------------------------
(* Properties *)

\* Name analysis is over and nothing has been checked yet.
Visited == agenda = << >> /\ checked = << >> /\ pending = program.redefs

\* A class that extends a class applied to an application of its parameters.
DeepParent(c) ==
    \E i \in DOMAIN ParentOf(c) : \E k \in DOMAIN ParentOf(c)[i].args :
        ParentOf(c)[i].args[k].args # << >> /\ ~ Closed(ParentOf(c)[i].args[k])

\* A bound that is declared after a parameter bounded by it from below, and is
\* itself bounded from below.
Lower(p) == IF program.params[p].kind.is = "proper" THEN program.params[p].kind.lower ELSE << >>
Before(p, q) == \E i, j \in DOMAIN program.order : i < j /\ program.order[i] = p /\ program.order[j] = q
ForwardBound == \E p, q \in Params : Lower(p) = <<Name(q)>> /\ Lower(q) # << >> /\ Before(p, q)

\* The types that may be compared, and those that are what they look like even
\* where a class extends an application of its own parameters.
Compared == {e \in Universe(program) : KindChecks(e) /\ KindOf(e).is = "proper"}
Shallow  == \A c \in Classes : ~ DeepParent(c)

\* Sub types are those declared: in whatever order declarations are visited, a
\* type is a sub type of another to the compiler if and only if variance, the
\* parents of classes and the bounds of parameters make it one.  Left out are
\* programs with a bound that is declared too late, whose super types are not
\* all found; and of a class that extends an application of its own parameters,
\* only that closed types are sub types of nothing else is stated, since the
\* instance is substituted no deeper than its first level.
SubtypingAgrees ==
    (Visited /\ ~ ForwardBound) =>
        \A a, b \in Compared :
            LET is       == isSubTypeOf(apply(createType(a)), apply(createType(b)))
                declared == Declared(Expand(a), Expand(b))
            IN  /\ (is /\ (Shallow \/ (Closed(a) /\ Closed(b)))) => declared
                /\ (declared /\ Shallow) => is

\* The bounds of a constructor's parameters are kept: a type expression passes
\* kind checking if and only if every constructor in it is applied to as many
\* arguments as it has parameters, all of them within their bounds.
BoundsKept ==
    (Visited /\ ~ ForwardBound) => \A e \in Universe(program) : KindChecks(e) = WellFormed(e)

\* A method that is accepted does what its types say: whatever its type
\* parameters stand for, every object a member is taken from has that member,
\* of the type it was given, every argument and every value assigned fits, and
\* so does what is returned.
TypesHold ==
    (checked # << >> /\ accepted) =>
        LET item == checked[1]
        IN  AllHold(item, [e \in Nodes(item.body) |-> Reify(Check(item, e, NotYetDefined, FALSE).type)])

\* The type cached for all type parameters says no more of one than its bounds do.
SaysNoMore(redef) ==
    \A i \in DOMAIN generic : generic[i] \in ToSet(redef.targs) \/ KindOfParam(generic[i]) = ProperKind(<< >>, << >>)

\* A redefinition takes what the method it overrides takes and returns what it
\* returns, whatever the type parameter they share stands for.
\* Left out are methods of several type parameters, which share one cached type,
\* and what follows a cached type of a parameter that has bounds.
RedefsKept ==
    \A r \in overriding :
        LET redef == program.members[r.class][r.redef]
            root  == program.members[r.owner][r.name]
            self  == [name |-> r.type, args |-> [i \in DOMAIN ParamsOf(r.class) |-> Name(ParamsOf(r.class)[i])]]
            alike == Instance(redef.targs, [i \in DOMAIN redef.targs |-> Name(root.targs[i])])
            Old(type) == Seen(self, r.name, type)
            New(type) == Expand(Put(type, alike))
        IN  (Len(redef.targs) <= 1 /\ SaysNoMore(redef)) =>
                /\ \A i \in DOMAIN root.args : Declared(Old(root.args[i]), New(redef.args[i]))
                /\ Declared(New(redef.ret), Old(root.ret))
=============================================================================
