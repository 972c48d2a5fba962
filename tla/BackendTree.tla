----------------------------- MODULE BackendTree -----------------------------
(***************************************************************************)
(* The backend tree (src/Compiler/Backend/BAST): definitions with a unique *)
(* name, and expressions that refer to definitions by name and to          *)
(* variables and fields by number.  Variable 0 is the receiver.            *)
(***************************************************************************)
EXTENDS Sequences

MethodDef(name, varCount, body) ==
    [def |-> "method", name |-> name, varCount |-> varCount, body |-> body]
ClassDef(name, fieldCount, parent, methods) ==
    [def |-> "class", name |-> name, fieldCount |-> fieldCount, parent |-> parent, methods |-> methods]
GlobalDef(name, body) == [def |-> "global", name |-> name, body |-> body]

\* Expressions: what they are, the name or the number they hold, their parts.
Node(node, name, number, parts) ==
    [node |-> node, name |-> name, number |-> number, parts |-> parts]

Block(stats) == Node("Block", <<>>, 0, stats)
DefIdentifier(name) == Node("DefIdentifier", name, 0, <<>>)
VarIdentifier(loc) == Node("VarIdentifier", <<>>, loc, <<>>)
FieldAccess(accessed, loc) == Node("FieldAccess", <<>>, loc, <<accessed>>)
FieldAssignmentExpression(accessed, loc, value) ==
    Node("FieldAssignmentExpression", <<>>, loc, <<accessed, value>>)
VarAssignmentExpression(loc, value) == Node("VarAssignmentExpression", <<>>, loc, <<value>>)
DynamicMethodCall(callee, loc, args) ==
    Node("DynamicMethodCall", <<>>, loc, <<callee>> \o args)
Instantiation(class) == Node("Instantiation", <<>>, 0, <<class>>)
IntLiteral(value) == Node("IntLiteral", <<>>, value, <<>>)
UnitLiteral == Node("UnitLiteral", <<>>, 0, <<>>)

\* The parent of a class that has none (nullptr).
NoParent == DefIdentifier(<<>>)

\* A name by a map of names; the ones that are not in it are kept.
Mapped(name, map) == IF name \in DOMAIN map THEN map[name] ELSE name

\* A visit to every part of an expression (BASTImplicitVisitor) that maps
\* the names of its DefIdentifiers.
RECURSIVE Renamed(_, _)
Renamed(e, map) ==
    IF e.node = "DefIdentifier" THEN DefIdentifier(Mapped(e.name, map))
    ELSE [e EXCEPT !.parts = [i \in DOMAIN e.parts |-> Renamed(e.parts[i], map)]]

\* The same for a definition: its body, or its parent and its methods.
RenamedDef(d, map) ==
    IF d.def = "class"
    THEN [d EXCEPT !.parent = Renamed(@, map),
                   !.methods = [i \in DOMAIN @ |-> Renamed(@[i], map)]]
    ELSE [d EXCEPT !.body = Renamed(@, map)]
===============================================================================
