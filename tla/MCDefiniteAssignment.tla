------------------------- MODULE MCDefiniteAssignment -------------------------
(***************************************************************************)
(* All the programs over Var and Class, of up to MaxItems items of any     *)
(* kind and of up to MaxCore items of the kinds in Core, that the parser   *)
(* and the phases before this one let through: a variable is declared      *)
(* once, in a block that holds all its uses, a class likewise, and only    *)
(* what is declared above is assigned to.  Blocks hold at least one item,  *)
(* and none is repeated right after itself.                                *)
(***************************************************************************)
EXTENDS DefiniteAssignment

CONSTANTS MaxItems, Core, MaxCore

All == {"param", "declare", "define", "assign", "use", "new", "class", "fun", "if", "else"}

\* A piece of a program, with the names in it, those it declares for the
\* block it is in, and those declared in the blocks inside it.
Piece(items, named, decl, sealed) == [items |-> items, named |-> named, decl |-> decl, sealed |-> sealed]
Nothing == Piece(<< >>, {}, {}, {})
Leaf(op, n) == Piece(<<[op |-> op, of |-> n]>>, {n}, IF op \in Declaring THEN {n} ELSE {}, {})
Repeats(a, b) == Len(a.items) = 1 /\ b.items # << >> /\ a.items[1] = b.items[1]
Fit(a, b) == ~ Repeats(a, b) /\ a.decl \cap b.decl = {} /\ a.sealed \cap b.named = {} /\ b.sealed \cap a.named = {}
Join(a, b) == Piece(a.items \o b.items, a.named \cup b.named, a.decl \cup b.decl, a.sealed \cup b.sealed)
Joins(S, T) == UNION {{Join(s, t) : t \in {r \in T : Fit(s, r)}} : s \in S}

Keyword(op) == <<[op |-> op]>>
Bracket(op, a) == Piece(Keyword(op) \o a.items \o Keyword("end"), a.named, {}, a.decl \cup a.sealed)
Choice(a, b) == Piece(Keyword("if") \o a.items \o Keyword("else") \o b.items \o Keyword("end"),
                      a.named \cup b.named, {}, a.decl \cup a.sealed \cup b.decl \cup b.sealed)
ClassDecl(c, a) == Piece(<<[op |-> "class", of |-> c]>> \o a.items \o Keyword("end"),
                         a.named \cup {c}, {c}, a.decl \cup a.sealed)

\* The pieces of n items of the kinds in ops, given those of fewer items:
\* a statement and what follows it.  (A body may start with a parameter.)
Larger(ops, n, fewer) ==
    LET of(k) == fewer[k + 1]
        leaves == {Leaf(op, v) : op \in ops \cap {"declare", "define", "assign", "use"}, v \in Var}
                  \cup {Leaf(op, c) : op \in ops \cap {"new"}, c \in Class}
        body(k) == of(k) \cup (IF k = 1 THEN {} ELSE Joins({Leaf(op, v) : op \in ops \cap {"param"}, v \in Var}, of(k - 1)))
        bracketed(k) ==
            {Bracket(op, a) : op \in ops \cap {"if"}, a \in of(k)}
            \cup {Bracket(op, a) : op \in ops \cap {"fun"}, a \in body(k)}
            \cup {ClassDecl(c, a) : c \in IF "class" \in ops THEN Class ELSE {},
                                    a \in {b \in body(k) : Class \cap b.decl = {}}}
        choices(k, m) == {Choice(p[1], p[2]) : p \in {q \in of(k) \X of(m) : Fit(Bracket("if", q[1]), q[2])
                                                                          /\ Fit(q[1], Bracket("if", q[2]))}}
    IN  Joins(leaves, of(n - 1))
        \cup UNION {Joins(bracketed(k), of(n - 2 - k)) : k \in 1..(n - 2)}
        \cup (IF "else" \in ops
              THEN UNION {UNION {Joins(choices(k, m), of(n - 3 - k - m)) : m \in 1..(n - 3 - k)} : k \in 1..(n - 3)}
              ELSE {})

Pieces(ops, max) ==
    LET upTo[n \in 0..max] ==
            IF n = 0 THEN <<{Nothing}>>
            ELSE LET fewer == upTo[n - 1] IN Append(fewer, Larger(ops, n, fewer))
        pieces == upTo[max]
    IN  UNION {pieces[n] : n \in 2..(max + 1)}
        \cup UNION {Joins({Leaf(op, v) : op \in ops \cap {"param"}, v \in Var}, pieces[n]) : n \in 2..max}

\* The type checking rejects assignments that come before the declaration.
Typed(s) ==
    \A i, j \in 1..Len(s) :
        s[i].op = "assign" /\ s[j].op \in {"declare", "define"} /\ s[i].of = s[j].of => j < i

MCPrograms == {p.items : p \in {q \in Pieces(All, MaxItems) \cup Pieces(Core, MaxCore) :
                                  q.named \subseteq q.decl \cup q.sealed /\ Typed(q.items)}}
=============================================================================
