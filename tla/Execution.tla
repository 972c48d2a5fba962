------------------------------ MODULE Execution ------------------------------
(***************************************************************************)
(* What a program means, before and after it was compiled.                 *)
(*                                                                         *)
(* The source is run with nested scopes: a function or an object keeps the *)
(* frames around its declaration, and uses the variables in them.  The     *)
(* backend tree is run on numbered variables and fields; the value of an   *)
(* assignment is computed before what it is assigned to, as the bytecode   *)
(* generator of the repository does (BytecodeGenerator.cpp).               *)
(***************************************************************************)
EXTENDS AST2BAST

\* Values are a kind and a number: an integer, an object, or one of these.
Unit == <<"unit", 0>>
Broken == <<"broken", 0>>   \* a variable, field or method that is not there
Number(n) == <<"int", n>>
Object(n) == <<"object", n>>

\* A result is a value and the memory it was computed in: the frames of the
\* calls, the objects.
Result(value, memory) == [value |-> value, memory |-> memory]
LastOf(values) == IF values = <<>> THEN Unit ELSE Last(values)
Linked(name) == <<"extern", name>>   \* what the linker finds for an extern name
Nothing == [frames |-> <<>>, objects |-> <<>>]
NewFrame(memory, frame) == [memory EXCEPT !.frames = Append(@, frame)]
NewObject(memory, object) ==
    Result(Object(Len(memory.objects) + 1), [memory EXCEPT !.objects = Append(@, object)])

----------------------------------------------------------------------------
(* The source, by reference                                                *)

RECURSIVE Ancestors(_)
Ancestors(c) == IF c = "" THEN {} ELSE {c} \cup Ancestors(program.classes[c].parent)

\* The frame of the scope around the code that runs in frame f.
Outer(f, memory) ==
    memory.objects[memory.frames[f].this].env[memory.frames[f].def[2]]

\* From frame f outwards: the one that has variable s, the one whose receiver
\* has member s, the one of method d.
RECURSIVE FrameOf(_, _, _), FrameWith(_, _, _), FrameRunning(_, _, _)
FrameOf(s, f, memory) ==
    IF s \in ToSet(program.defs[memory.frames[f].def].params
                   \o SymbolsOf("TypeSpecifier", program.defs[memory.frames[f].def].body))
    THEN f ELSE FrameOf(s, Outer(f, memory), memory)
FrameWith(s, f, memory) ==
    IF s[2] \in Ancestors(memory.frames[f].def[2]) THEN f
    ELSE FrameWith(s, Outer(f, memory), memory)
FrameRunning(d, f, memory) ==
    IF d = <<>> THEN 0 ELSE IF memory.frames[f].def = d THEN f
    ELSE FrameRunning(d, Outer(f, memory), memory)

\* The frame of the method around f: `this' is its receiver in the functions
\* within it too (TypeChecking.cpp).
IsFunction(c) == program.classes[c].parent = "Func0"
RECURSIVE MethodFrame(_, _)
MethodFrame(f, memory) ==
    IF IsFunction(memory.frames[f].def[2]) THEN MethodFrame(Outer(f, memory), memory) ELSE f

MemberIn(object, s, memory) ==
    IF s \in DOMAIN memory.objects[object].fields THEN memory.objects[object].fields[s] ELSE Unit
VarIn(f, s, memory) ==
    IF s \in DOMAIN memory.frames[f].vars THEN memory.frames[f].vars[s] ELSE Unit
Read(s, f, memory) ==
    IF s[1] = "field" THEN MemberIn(memory.frames[FrameWith(s, f, memory)].this, s, memory)
    ELSE VarIn(FrameOf(s, f, memory), s, memory)

With(function, s, value) ==
    [x \in DOMAIN function \cup {s} |-> IF x = s THEN value ELSE function[x]]
SetMember(object, s, result) ==
    Result(result.value,
           [result.memory EXCEPT !.objects[object].fields = With(@, s, result.value)])
SetVar(f, s, result) ==
    Result(result.value, [result.memory EXCEPT !.frames[f].vars = With(@, s, result.value)])
Write(s, f, result) ==
    IF s[1] = "field"
    THEN SetMember(result.memory.frames[FrameWith(s, f, result.memory)].this, s, result)
    ELSE SetVar(FrameOf(s, f, result.memory), s, result)

\* The method an object of class c runs for d.
RECURSIVE MethodFor(_, _)
MethodFor(c, d) ==
    LET own == {m \in DefsOf(c) : d \in {m, program.defs[m].redefines}}
    IN  IF own # {} THEN CHOOSE m \in own : TRUE
        ELSE MethodFor(program.classes[c].parent, d)

Create(c, f, memory) ==
    IF c \in ExternClasses THEN Result(Linked(<<"type", c>>), memory)
    ELSE NewObject(memory, [class |-> c, fields |-> <<>>,
                         env |-> [k \in Ancestors(c) |->
                                      FrameRunning(program.classes[k].method, f, memory)]])

RECURSIVE Run(_, _, _)
RunAll(exprs, f, memory) ==   \* the values, and what they leave
    LET Step(done, e) == LET r == Run(e, f, done.memory)
                         IN  Result(Append(done.value, r.value), r.memory)
    IN  FoldLeft(Step, Result(<<>>, memory), exprs)
Returned(def, receiver, result) ==
    IF def.constructor THEN Result(Object(receiver), result.memory) ELSE result
Enter(d, receiver, args, memory) ==
    IF program.defs[d].extern THEN Result(Linked(d), memory)
    ELSE Returned(program.defs[d], receiver,
             Run(program.defs[d].body, Len(memory.frames) + 1,
                 NewFrame(memory, [def |-> d, this |-> receiver,
                     vars |-> [s \in ToSet(program.defs[d].params) |->
                                 args[CHOOSE i \in DOMAIN args : program.defs[d].params[i] = s]]])))
Call(d, all) ==    \* the receiver, then the arguments
    IF all.value[1][1] = "extern" THEN Result(all.value[1], all.memory)
    ELSE Enter(MethodFor(all.memory.objects[all.value[1][2]].class, d),
          all.value[1][2], Tail(all.value), all.memory)
Run(e, f, memory) ==
    CASE e.op = "IntLiteral" -> Result(Number(e.sym[1]), memory)
      [] e.op = "This" -> Result(Object(memory.frames[MethodFrame(f, memory)].this), memory)
      [] e.op = "Identifier" /\ e.sym[1] = "def" ->
            LET g == CHOOSE g \in ToSet(program.globals) : g.name = e.sym
            IN  IF g.extern THEN Result(Linked(e.sym), memory) ELSE Run(g.value, f, memory)
      [] e.op = "Identifier" /\ e.sym[1] # "def" -> Result(Read(e.sym, f, memory), memory)
      [] e.op \in {"TypeSpecifier", "TypeDecl"} -> Result(Unit, memory)
      [] e.op = "Block" ->
            LET all == RunAll(e.parts, f, memory) IN Result(LastOf(all.value), all.memory)
      [] e.op = "AssignmentExpression" ->
            Write(e.parts[1].sym, f, Run(e.parts[2], f, memory))
      [] e.op = "MemberAccess" ->
            LET r == Run(e.parts[1], f, memory)
            IN  Result(MemberIn(r.value[2], e.sym, r.memory), r.memory)
      [] e.op = "FunctionCall" /\ e.parts[1].op = "MemberAccess" ->
            Call(e.parts[1].sym, RunAll(e.parts[1].parts \o Tail(e.parts), f, memory))
      [] e.op = "FunctionCall" /\ e.parts[1].op = "Identifier" ->
            Call(e.parts[1].sym,
                 LET args == RunAll(Tail(e.parts), f, memory)
                 IN  Result(<<Object(memory.frames[FrameWith(e.parts[1].sym, f, memory)].this)>>
                            \o args.value, args.memory))
      [] e.op \in {"Instantiation", "FunctionCreation"} -> Create(e.sym[3], f, memory)

\* The value of the program: what its function main returns.
SourceValue ==
    LET main == Create("main", 0, Nothing)
    IN  Enter(Method("main", "()"), main.value[2], <<>>, main.memory).value

----------------------------------------------------------------------------
(* The backend tree: p maps the names to their definitions.                *)

Definitions(o) ==
    [n \in {d.name : d \in ToSet(o.visible) \cup o.hidden} |->
        CHOOSE d \in ToSet(o.visible) \cup o.hidden : d.name = n]

\* The names the linker finds; what is made or called of them is left open.
Externs == {getDefId(g.name) : g \in {h \in ToSet(program.globals) : h.extern}}
           \cup {d \in DOMAIN program.defs : program.defs[d].extern}

\* What a name stands for, behind its aliases: <<>> if nothing does.
RECURSIVE Resolved(_, _)
Resolved(name, p) ==
    IF name \notin DOMAIN p THEN (IF name \in Externs THEN name ELSE <<>>)
    ELSE IF isAlias(p[name]) THEN Resolved(p[name].body.name, p)
    ELSE name

At(seq, i) == IF i \in DOMAIN seq THEN seq[i] ELSE Broken
FieldAt(object, i, memory) ==
    IF object[1] = "object" THEN At(memory.objects[object[2]].fields, i + 1) ELSE Broken
SetFieldAt(target, i, value) ==
    IF target.value[1] = "object" /\ i + 1 \in DOMAIN target.memory.objects[target.value[2]].fields
    THEN Result(value, [target.memory EXCEPT !.objects[target.value[2]].fields[i + 1] = value])
    ELSE Result(Broken, target.memory)
NewOf(name, p, memory) ==
    IF name \in Externs THEN Result(Linked(name), memory)
    ELSE IF name = <<>> \/ p[name].def # "class" THEN Result(Broken, memory)
    ELSE NewObject(memory, [class |-> name,
                            fields |-> [i \in 1..p[name].fieldCount |-> Unit]])

RECURSIVE Exec(_, _, _, _)
ExecAll(exprs, f, memory, p) ==
    LET Step(done, e) == LET r == Exec(e, f, done.memory, p)
                         IN  Result(Append(done.value, r.value), r.memory)
    IN  FoldLeft(Step, Result(<<>>, memory), exprs)
Invoke(name, all, p) ==
    IF name \in Externs THEN Result(Linked(name), all.memory)
    ELSE IF name = <<>> \/ p[name].def # "method" THEN Result(Broken, all.memory)
    ELSE Exec(p[name].body, Len(all.memory.frames) + 1,
              NewFrame(all.memory, [i \in 1..p[name].varCount |->
                                        IF i \in DOMAIN all.value THEN all.value[i] ELSE Unit]), p)
Dispatch(loc, all, p) ==
    IF all.value[1][1] = "extern" THEN Result(all.value[1], all.memory)
    ELSE IF all.value[1][1] # "object" THEN Result(Broken, all.memory)
    ELSE LET methods == p[all.memory.objects[all.value[1][2]].class].methods
         IN  IF loc + 1 \in DOMAIN methods
             THEN Invoke(Resolved(methods[loc + 1].name, p), all, p)
             ELSE Result(Broken, all.memory)
ValueOf(name, p, memory) ==
    IF name \in Externs THEN Result(Linked(name), memory)
    ELSE IF name = <<>> \/ p[name].def # "global" THEN Result(Broken, memory)
    ELSE Exec(p[name].body, Len(memory.frames) + 1, NewFrame(memory, <<>>), p)
Exec(e, f, memory, p) ==
    CASE e.node = "IntLiteral" -> Result(Number(e.number), memory)
      [] e.node = "UnitLiteral" -> Result(Unit, memory)
      [] e.node = "VarIdentifier" -> Result(At(memory.frames[f], e.number + 1), memory)
      [] e.node = "DefIdentifier" -> ValueOf(Resolved(e.name, p), p, memory)
      [] e.node = "Block" ->
            LET all == ExecAll(e.parts, f, memory, p) IN Result(LastOf(all.value), all.memory)
      [] e.node = "VarAssignmentExpression" ->
            LET r == Exec(e.parts[1], f, memory, p)
            IN  Result(r.value, [r.memory EXCEPT !.frames[f][e.number + 1] = r.value])
      [] e.node = "FieldAccess" ->
            LET r == Exec(e.parts[1], f, memory, p)
            IN  Result(FieldAt(r.value, e.number, r.memory), r.memory)
      [] e.node = "FieldAssignmentExpression" ->
            LET r == Exec(e.parts[2], f, memory, p)
            IN  SetFieldAt(Exec(e.parts[1], f, r.memory, p), e.number, r.value)
      [] e.node = "DynamicMethodCall" -> Dispatch(e.number, ExecAll(e.parts, f, memory, p), p)
      [] e.node = "Instantiation" -> NewOf(Resolved(e.parts[1].name, p), p, memory)

\* The value of the backend program, likewise.
MainOf(main, p) ==
    Exec(B!DynamicMethodCall(B!DefIdentifier(main), 0, <<>>), 1,
         NewFrame(Nothing, <<>>), p).value
OutputValue == MainOf(<<"def", "main">>, Definitions(output))

----------------------------------------------------------------------------
(* What closing functions and classes over their variables promises: the  *)
(* program that leaves the backend computes what the source means.         *)

\* The classes within c, itself among them.
Within(c) == {k \in Class : c \in ToSet(Around(k))}

CodeOf(c) == {program.defs[d].body : d \in DefsOf(c)}
NamedIn(c) == UNION {ToSet(SymbolsOf("Identifier", e)) : e \in CodeOf(c)}
MembersIn(c) == {s \in NamedIn(c) : s[1] \in {"field", "method"}}

\* The class whose `this' a member belongs to that is named within class c:
\* the innermost that has it.
ReceiverOf(s, c) == SelectSeq(Around(c), LAMBDA k : s[2] \in Ancestors(k))[1]

\* An explicit `this' in a function is that of the innermost class around it
\* which is no function; PreTransform captures nothing for it, and AST2BAST
\* takes the function itself.
NamesThis(c) == \E e \in CodeOf(c) : SymbolsOf("This", e) # <<>>
ThisInFunction == \E c \in Class : IsFunction(c) /\ NamesThis(c)

\* What is free in class c: variables that are declared around it, and the
\* `this' of the classes around it whose members it names.
FreeIn(c) ==
    ({s \in UNION {NamedIn(k) : k \in Within(c)} : s[1] = "var"} \ UNION {BoundIn(k) : k \in Within(c)})
    \cup {ClassThis(ParentMost(o)) : o \in
            UNION {{ReceiverOf(s, k) : s \in MembersIn(k)} : k \in Within(c)} \ Within(c)}

\* PreTransform tells the `this' of two classes apart by their parent-most
\* classes: one that names a member of a class around it of the same
\* hierarchy takes its own `this' for that one's.
SharesThis ==
    \E k \in Class : \E s \in MembersIn(k) : \E c \in ToSet(Around(k)) :
        /\ ReceiverOf(s, k) \notin Within(c)
        /\ ParentMost(c) = ParentMost(ReceiverOf(s, k))

\* What the initializers of class c are given is there where c is instantiated
\* within class k: a variable of k's methods, a field of k, the `this' of k.
AvailableIn(c, k) ==
    \A s \in {Refers(program.classes[c].within, x) : x \in ToSet(patches[c])} :
        CASE s[1] = "var" -> s \in BoundIn(k)
          [] s[1] = "captured" -> s[2] = k
          [] s[1] = "this" -> s = ClassThis(ParentMost(k))

\* "Class cannot be instantiated here because it captures variables from its
\* declaration scope which are not available in this context"
\* (UsageAnalysis.cpp): no instantiation that is left is of that kind.
Available ==
    \A k \in Class : \A e \in CodeOf(k) : \A t \in ToSet(SymbolsOf("Instantiation", e)) :
        \A c \in Ancestors(t[3]) : AvailableIn(c, k)
InstantiatedWhereAvailable == stage = "numbering" => Available

\* Two exported names of one definition, where only the last is kept: two
\* aliases of it, or an alias that comes before it.
Alias(g) == g.value.op \in {"Identifier", "TypeIdentifier"}
ExportedTwice ==
    \E i, j \in {k \in DOMAIN program.globals : program.globals[k].exported} :
        LET g == program.globals[i] h == program.globals[j]
        IN  /\ i < j /\ Alias(g)
            /\ g.value.sym = h.name \/ (Alias(h) /\ g.value.sym = h.value.sym)

\* An exported alias of an extern definition: nothing is generated for that, so
\* the simplifier takes its name for a hidden one and deletes the alias.
ExportedExtern ==
    \E g \in ToSet(program.globals) :
        g.exported /\ ~ g.extern /\ Alias(g) /\ getDefId(g.value.sym) \in Externs

----------------------------------------------------------------------------
(* Properties                                                              *)

(* When every class was visited, what it captures is exactly what is free  *)
(* in it and in the functions and classes within it: nothing is missing    *)
(* that only an inner class uses, and nothing is passed along in vain.     *)
CapturesAreFree ==
    stage = "analysis" /\ todo = <<>> /\ ~ SharesThis /\ ~ ThisInFunction =>
        \A c \in Class : ToSet(patches[c]) = FreeIn(c)

(* The backend program computes the value of the source: closures and      *)
(* objects see every later assignment to a variable they captured, and     *)
(* their own assignments are seen; fields, variables and methods are where *)
(* they are looked for.                                                    *)
ClosuresShareVariables ==
    stage = "simplification" /\ ~ SharesThis /\ ~ ThisInFunction /\ Available =>
        OutputValue = SourceValue

(* An explicit `this' is "forbidden outside of a method scope"             *)
(* (TypeChecking.cpp:641), and is typed as an object of the class of that  *)
(* method: in a function within the method it is the same object.          *)
ThisIsTheMethods ==
    stage = "simplification" /\ ThisInFunction /\ ~ SharesThis /\ Available =>
        OutputValue = SourceValue

(* Simplification does not change that value, whatever aliases there are   *)
(* between the definitions and whichever of them are exported.             *)
SimplifiedAlike ==
    stage = "done" /\ ~ SharesThis /\ ~ ThisInFunction /\ Available
        /\ ~ ExportedTwice /\ ~ ExportedExtern => OutputValue = SourceValue

(* After simplification every exported name is still defined and exported, *)
(* and every name that is used is defined.                                 *)
RECURSIVE NamesIn(_)
NamesIn(e) == IF e.node = "DefIdentifier" THEN {e.name}
              ELSE UNION {NamesIn(e.parts[i]) : i \in DOMAIN e.parts}
NamesUsed(d) == IF d.def = "class" THEN UNION {NamesIn(e) : e \in {d.parent} \cup ToSet(d.methods)}
                ELSE NamesIn(d.body)
Complete(visible, hidden) ==
    /\ \A g \in ToSet(program.globals) : g.exported /\ ~ g.extern => getDefId(g.name) \in {d.name : d \in visible}
    /\ UNION {NamesUsed(d) : d \in visible \cup hidden} \subseteq
            {d.name : d \in visible \cup hidden} \cup Externs \cup {<<>>, <<"$ABSTRACT_METHOD$">>}
NamesDefined ==
    stage = "done" /\ ~ ExportedTwice /\ ~ ExportedExtern =>
        Complete(ToSet(output.visible), output.hidden)

(* "Symbols that are marked `extern` are resolved at link time"            *)
(* (README.md:58): every name the output uses is defined or extern.        *)
ExternsResolved ==
    stage = "done" /\ ~ ExportedTwice => Complete(ToSet(output.visible), output.hidden)
=============================================================================
