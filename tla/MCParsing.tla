------------------------------ MODULE MCParsing ------------------------------
(***************************************************************************)
(* Sources of a few phrases in a row where an expression, a type, members  *)
(* of a class, statements or declarations of a module are expected: most   *)
(* of them are wrong somewhere.  OperationSources are expressions of three *)
(* operators over calls, unary operators, functions and parentheses.       *)
(***************************************************************************)
EXTENDS Parsing, SequencesExt

CONSTANT MaxPhrases

MCNames == {"a", "b", "c", "m", "x", "A", "B", "T"}
MCLiterals == {"1"}

Sources(before, after, phrases) ==
    {before \o FlattenSeq(s) \o after : s \in UNION {[1..n -> phrases] : n \in 1..MaxPhrases}}

ExpressionSources ==
    Sources(<<"module", "m", "{", "def", "x", "=">>, <<"}">>,
        {<<"a">>, <<"1">>, <<"(", "a", ")">>, <<"(", "a", ",", "b", ")">>, <<"+">>, <<"=">>, <<"=>", "a">>, <<".",
         "b">>, <<"-">>, <<"[", "A", "]">>, <<"[", "A", ",", "B", "]">>, <<":", "A">>, <<"->", "A", "=>", "a">>,
         <<"[", "T", "]", "(", "a", ":", "T", ")", "=>", "a">>, <<"{", "a", ";", "}">>, <<"if", "(", "a", ")", "b",
         "else", "a">>, <<"this">>, <<"new", "A", "{", "}">>, <<".", "(", "+=", ")">>, <<"a", ":", "=">>})

TypeSources ==
    Sources(<<"module", "m", "{", "type", "A", "=">>, <<"}">>,
        {<<"A">>, <<"(", ")">>, <<"[", "A", "]">>, <<"(", "A", ")">>, <<"(", "A", ",", "B", ")">>, <<"->", "A">>,
         <<"=>", "B">>, <<".", "B">>, <<"<", "A">>, <<"[", "T", ">", "A", "<", "B", "]", "=>", "A">>, <<"[", "in",
         "T", ":", "*", ",", "out", "B", "]", "=>", "T">>, <<"[", "T", ":", "[", "*", ",", "in", "*", "]", "->", "*",
         "]", "=>", "T">>, <<"[", "T", ":", "A", "<", "*", "<", "B", "]", "=>", "B">>, <<"[", "T", "]", "(", "T",
         ")">>, <<"class", "{", "}">>, <<"class", "(", "a", ":", "A", ")", ":", "B", "{", "}">>, <<"abstract",
         "class">>})

MemberSources ==
    Sources(<<"module", "m", "{", "class", "A", "{">>, <<"}", "}">>,
        {<<"(", ")">>, <<"new", "(", ")", "=>", "a">>, <<"redef", "a">>, <<"abstract">>, <<"static">>, <<"extern">>,
         <<"=>", "1">>, <<"type", "A", "=", "B">>, <<"a", ":", "A">>, <<"a", ":", "A", ";">>, <<"a", ":", "A", "=",
         "1", ";">>, <<"@", "a">>, <<"class", "A">>, <<"def", "+", "(", "a", ":", "A", ")", "=>", "a">>, <<"def", "(",
         "+=", ")", "(", "a", ")", "=>", "a">>, <<"def", "a", ":", "A">>, <<"class", "B", "{", "}">>, <<"}">>})

StatementSources ==
    Sources(<<"module", "m", "{", "def", "x", "=", "{">>, <<"}", "}">>,
        {<<"a", ";">>, <<"if", "(", "a", ")", "b", ";">>, <<"if", "(", "a", ")", "{", "}">>, <<"else", "b", ";">>,
         <<"{">>, <<"}">>, <<"def", "a", "=", "1", ";">>, <<"this", ";">>, <<"new", "A", "{", "}", ";">>, <<"using",
         "a", ".", "b", ";">>, <<"abstract">>, <<"class", "A", "{", "}", ";">>, <<"@", "b">>, <<"type", "A", "=", "B",
         ";">>, <<"(", ")">>, <<"=", "b", ";">>})

ModuleSources ==
    Sources(<<>>, <<>>,
        {<<"module", "a", "{">>, <<"}">>, <<"module", "b", "{", "}">>, <<"@", "b">>, <<"def", "a", "=", "1">>,
         <<"type", "A", "=", "B">>, <<"class", "A", "{", "}">>, <<"extern">>, <<"abstract">>, <<"using", "a", ".",
         "b">>, <<"def", "a", ":", "A">>, <<"static">>, <<"@", "b", "(", "1", ",", "1", ")">>})

Operators == {"+", "*", "^", "=", "&&"}
LastOperands == {<<"a">>, <<"a", ".", "b">>}
MiddleOperands == {<<"a", "(", "b", ")">>, <<"-", "a", "=>", "b">>, <<"(", "a", "+", "b", ")">>}
OperationSources ==
    {<<"module", "m", "{", "def", "x", "=">> \o u \o <<o>> \o v \o <<p>> \o w \o <<q>> \o y \o <<"}">> :
        u \in {<<"a">>, <<"!", "b">>}, v, w \in MiddleOperands, y \in LastOperands, o, p, q \in Operators}

MCInit ==
    /\ Init
    /\ source \in UNION {ExpressionSources, TypeSources, MemberSources, StatementSources, ModuleSources, OperationSources}
    /\ loose = DOMAIN source \ {k \in DOMAIN source : source[k] = "("}
    /\ printed = Null
MCSpec == MCInit /\ [][Next]_parsing
=============================================================================
