----------------------------- MODULE Tokenization -----------------------------
(***************************************************************************)
(* What the lexer promises: the text read as one long expression of        *)
(* spaces, comments and tokens, each as long as it can be.  The text is    *)
(* what can be read from the source, its first Readable characters.        *)
(* Nothing here knows about buffers, characters read ahead or loops.       *)
(***************************************************************************)
EXTENDS Lexer

\* The n characters of the text after the first i, as a word.
Word(i, n) == FoldLeft(LAMBDA a, b : a \o b, "", SubSeq(text, i + 1, i + n))
In(i, S) == i < Readable /\ text[i + 1] \in S

\* The length of the longest stretch of characters of S after the first i.
Run(i, S) == CHOOSE n \in 0..(Readable - i) :
                 /\ \A k \in i..(i + n - 1) : In(k, S)
                 /\ ~ In(i + n, S)

\* How many characters of each kind of token start after the first i.
OperatorAt(i) ==
    LET lengths == {n \in 1..3 : i + n <= Readable /\ Word(i, n) \in OPERATORS}
    IN  IF lengths = {} THEN 1 ELSE CHOOSE n \in lengths : \A m \in lengths : m <= n
NumberAt(i) == LET n == Run(i, Digits)
               IN  IF In(i + n, {"."}) THEN n + 1 + Run(i + n + 1, Digits) ELSE n
TokenAt(i) ==
    LET c == text[i + 1]
        n == CASE c \in Symbols -> OperatorAt(i)
               [] c \in Letters -> Run(i, Letters \cup Digits)
               [] c \in Digits -> NumberAt(i)
               [] OTHER -> 1
        k == CASE c \in Symbols -> "symbol"
               [] c \in Letters -> "id"
               [] c \in Digits -> IF n = Run(i, Digits) THEN "int" ELSE "real"
               [] OTHER -> "unknown"
    IN  At(Token(k, Word(i, n)), ahead + i, ahead + i + n)

\* The comment after the first i: it ends at the end of the line or text, or
\* where it is closed; one that is not closed has no end.
CommentEnds(i) ==
    IF Word(i, 2) = "//"
    THEN IF \E j \in (i + 2)..(Readable - 1) : In(j, NewLines)
         THEN {i + 2 + Run(i + 2, Char \ NewLines) + 1}
         ELSE {Readable}
    ELSE LET ends == {j \in (i + 4)..Readable : Word(j - 2, 2) = "*/"}
         IN  {j \in ends : \A k \in ends : j <= k}

\* A quote or backslash stands for itself behind an odd number of backslashes.
Escaped(i, j) == LET n == CHOOSE m \in 0..(j - i) :
                             /\ \A k \in (j - m)..(j - 1) : In(k, {"\\"})
                             /\ m = j - i \/ ~ In(j - m - 1, {"\\"})
                 IN  n % 2 = 1
StringEnds(i) ==
    LET quotes == {j \in (i + 1)..(Readable - 1) : In(j, {"\""}) /\ ~ Escaped(i + 1, j)}
    IN  {j \in quotes : \A k \in quotes : j <= k}
Meant(i, j) ==
    LET c == text[j + 1]
    IN  CASE Escaped(i, j) -> IF c \in DOMAIN Escapes THEN Escapes[c] ELSE ""
          [] ~ Escaped(i, j) /\ c \in {"\\"} \cup NewLines -> ""
          [] OTHER -> c
StringAt(i, end) ==
    LET s == FoldLeft(LAMBDA a, j : a \o Meant(i + 1, j), "", [k \in 1..(end - i - 1) |-> i + k])
    IN  At(Token("string", s), ahead + i, ahead + i + Len(s))

\* The tokens of the text after the first i, up to what cannot be read.
From[i \in 0..Readable] ==
    LET then(ends) == IF ends = {} THEN << >> ELSE From[CHOOSE j \in ends : TRUE]
    IN  CASE i = Readable -> <<[type |-> "eof", value |-> "", start |-> ahead + i, end |-> ahead + i + 1]>>
          [] In(i, Spaces) -> From[i + 1]
          [] i + 2 <= Readable /\ Word(i, 2) \in {"//", "/*"} -> then(CommentEnds(i))
          [] In(i, {"\""}) ->
                IF StringEnds(i) = {} THEN << >>
                ELSE LET end == CHOOSE j \in StringEnds(i) : TRUE
                     IN  <<StringAt(i, end)>> \o From[end + 1]
          [] OTHER -> <<TokenAt(i)>> \o From[TokenAt(i).end - ahead]
Expected == From[0]

----------------------------------------------------------------------------
(* Properties *)

\* A string literal that starts with a character that handleStringLiteral
\* takes as it is though it means something else, or with the end.
OddString == \E t \in ToSet(tokens) \cup {[type |-> "string", start |-> initPos]} :
    /\ t.type = "string"
    /\ LET i == t.start - ahead
       IN  i \in 0..(Readable - 1) /\ text[i + 1] = "\"" /\ (i + 1 = Readable \/ In(i + 1, {"\\"} \cup NewLines))

(* A text is cut into the longest tokens there are, each with its kind,    *)
(* its value and its place, and nothing but spaces and comments is left    *)
(* out, wherever buffers end and whatever stands last in the text.         *)
LongestMatch == Done /\ ~ OddString => tokens = Expected

(* A text is given up exactly if a string or a comment in it does not end. *)
FatalIffUnfinished ==
    Done /\ ~ OddString =>
        (mode = "fatal" <=> Expected = << >> \/ Expected[Len(Expected)].type # "eof")

(* Every text is read to its end or given up, and the memory it took is    *)
(* given back.                                                             *)
ParseEnds == <>[]Released
=============================================================================
