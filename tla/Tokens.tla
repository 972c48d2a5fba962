-------------------------------- MODULE Tokens --------------------------------
(***************************************************************************)
(* Tokens.cpp: the tables of operators and keywords, and what an operator  *)
(* is to the parser.  Words are strings, that is, sequences of characters. *)
(***************************************************************************)
EXTENDS Integers, Sequences, TLC

\* OPERATORS, with the precedence of each in an expression (-1 if it has none).
Assignments == {"=", "+=", "-=", "*=", "/=", "%=", "^=", "&=", "|=", "<<=", ">>="}

PRECEDENCE ==
    [o \in {"(", "[", "->"} |-> 100] @@ [o \in {"=>"} |-> 80] @@ [o \in {"."} |-> 70]
    @@ [o \in {":"} |-> 65] @@ [o \in {"^"} |-> 50] @@ [o \in {"*", "/", "%"} |-> 40]
    @@ [o \in {"+", "-"} |-> 20] @@ [o \in {"<<", ">>"} |-> 15] @@ [o \in {">", "<", ">=", "<="} |-> 10]
    @@ [o \in {"==", "!="} |-> 9] @@ [o \in {"&"} |-> 8] @@ [o \in {"|"} |-> 7]
    @@ [o \in {"&&"} |-> 6] @@ [o \in {"||"} |-> 5] @@ [o \in Assignments |-> 2]
    @@ [o \in {"!", "~", ")", "]", "{", "}", ",", ";", "..", "@", "#"} |-> -1]

OPERATORS == DOMAIN PRECEDENCE

\* The operators that are spelled with letters, and their usual spelling.
OperTypeFromIdentifierString == [and |-> "&&", or |-> "||", not |-> "!"]

KEYWORDS == {"module", "using", "def", "redef", "extern", "abstract", "static", "type", "class",
             "in", "out", "new", "this", "if", "else", "while", "for"}

isRightAssociative(o) == o \in Assignments \cup {"^"}
getUnaryOperatorPrecedence == 60
=============================================================================
