-------------------------------- MODULE Lexer --------------------------------
(***************************************************************************)
(* The lexer of Compiler::parse: it reads a BufferedInputSource character  *)
(* by character and makes its tokens in a memory manager of its own, which *)
(* ends with the parse.  Each action is one turn of a loop of produceNext, *)
(* handleStringLiteral, handleMultiLineComment or handleSingleLineComment. *)
(***************************************************************************)
EXTENDS BufferedInputSource, MemoryManager, Tokens

VARIABLES
    lastChar,  \* _lastChar
    mode,      \* where produceNext is
    soFar,     \* what of the token has been read
    strKind,   \* what it seems to be
    initPos,   \* where it started
    before,    \* the character before, if a comment or an escape asks for it
    tokens,    \* what getNext has returned, and _curToken
    errors     \* what was reported, and where

lexerVars == <<lastChar, mode, soFar, strKind, initPos, before, tokens, errors>>
vars == <<bufferedVars, memoryVars, lexerVars>>

Letters == {"a", "b", "c", "d", "e", "f", "g", "h", "i", "j", "k", "l", "m", "n", "o", "p", "q", "r",
            "s", "t", "u", "v", "w", "x", "y", "z", "_"}
Digits == {"0", "1", "2", "3", "4", "5", "6", "7", "8", "9"}
Symbols == {"=", ">", "<", ",", "&", "|", "+", "-", "%", "*", "/", "^", "(", ")", "{", "}", "[", "]",
            "!", "~", ":", ";", "?", "@", ".", "#"}
NewLines == {"\n", "\r"}
Spaces == {" ", "\t"} \cup NewLines

\* escapedChar: what stands behind a backslash, and what it means (\f is NUL).
Escapes == ("'" :> "'") @@ ("\"" :> "\"") @@ ("\\" :> "\\") @@ ("n" :> "\n") @@ ("t" :> "\t") @@ ("0" :> "\f")

charKindFromChar(c) ==
    CASE c \in Symbols -> "symbol"
      [] c \in Letters -> "character"
      [] c \in Digits -> "digit"
      [] c \in Spaces -> "space"
      [] c = "\"" -> "quote"
      [] OTHER -> "unknown"

strKindFromCharKind(k) ==
    CASE k = "symbol" -> "symbol"
      [] k = "character" -> "id"
      [] k = "digit" -> "int"
      [] k = "quote" -> "string"
      [] OTHER -> "unknown"

Empty == [chr |-> "", pos |-> 0, kind |-> "empty"]
readCharInfo == [chr |-> next, pos |-> getPosition, kind |-> charKindFromChar(next)]

\* sizeof of each class of tokens (Identifier holds a string, 72 bytes in all).
SizeOf(type) == CASE type \in {"id", "string", "bad"} -> 72 [] type = "eof" -> 40 [] OTHER -> 48

\* The memory manager that Compiler::parse makes for the lexer.
ChunkSize == (Len(text) * SizeOf("id")) \div 3 + 40

Init ==
    /\ SourceInit
    /\ MemoryInit(ChunkSize)
    /\ lastChar = Empty
    /\ mode = "skip"
    /\ soFar = ""
    /\ strKind = "unknown"
    /\ initPos = 0
    /\ before = ""
    /\ tokens = << >>
    /\ errors = {}

----------------------------------------------------------------------------
(* Tokens *)

\* getRightTokenFromIdentifier
TypeOfWord(s) ==
    CASE s \in KEYWORDS -> "keyword"
      [] s \in DOMAIN OperTypeFromIdentifierString -> "operator"
      [] s \in {"true", "false"} -> "bool"
      [] OTHER -> "id"

\* buildToken; an unknown symbol becomes an operator that is in no table.
Token(k, s) ==
    CASE k = "symbol" -> [type |-> "operator", value |-> IF s \in OPERATORS THEN s ELSE "OPER_UNKNOWN"]
      [] k = "id" -> [type |-> TypeOfWord(s),
                      value |-> IF TypeOfWord(s) = "operator" THEN OperTypeFromIdentifierString[s] ELSE s]
      [] k \in {"int", "real", "string"} -> [type |-> k, value |-> s]
      [] OTHER -> [type |-> "bad", value |-> s]

At(t, from, to) == [type |-> t.type, value |-> t.value, start |-> from, end |-> to]

\* A token is made, and produceNext returns.
Make(t, s) ==
    /\ tokens' = Append(tokens, At(t, initPos, initPos + Len(s)))
    /\ New(SizeOf(t.type))
    /\ mode' = "skip"
    /\ UNCHANGED <<soFar, strKind, initPos, before>>

Report(what, pos) == errors' = errors \cup {[what |-> what, pos |-> pos]}

Fatal(what) ==
    /\ mode' = "fatal"
    /\ Report(what, currentPos)
    /\ UNCHANGED <<bufferedVars, memoryVars, lastChar, soFar, strKind, initPos, before, tokens>>

----------------------------------------------------------------------------
(* produceNext *)

Between == mode = "skip" /\ lastChar.kind \in {"empty", "space"}

Skip ==
    /\ Between
    /\ GetNext
    /\ lastChar' = readCharInfo
    /\ UNCHANGED <<memoryVars, mode, soFar, strKind, initPos, before, tokens, errors>>

EndOfSource ==
    /\ Between
    /\ ~ HasNext
    /\ tokens' = Append(tokens, [type |-> "eof", value |-> "", start |-> currentPos, end |-> currentPos + 1])
    /\ New(SizeOf("eof"))
    /\ mode' = "end"
    /\ UNCHANGED <<bufferedVars, lastChar, soFar, strKind, initPos, before, errors>>

Begin ==
    /\ mode = "skip"
    /\ ~ Between
    /\ initPos' = lastChar.pos
    /\ soFar' = lastChar.chr
    /\ strKind' = strKindFromCharKind(lastChar.kind)
    /\ mode' = "token"
    /\ UNCHANGED <<bufferedVars, memoryVars, lastChar, before, tokens, errors>>

isStillValid(c) ==
    LET k == charKindFromChar(c)
    IN  CASE strKind = "symbol" -> k = "symbol" /\ soFar \o c \in OPERATORS
          [] strKind = "id" -> k \in {"character", "digit"}
          [] strKind \in {"int", "real"} -> k = "digit"
          [] OTHER -> FALSE

StartsRealAgain(c) == strKind \in {"int", "real"} /\ c = "."  \* mutant: two points
StartsReal(c) == strKind = "int" /\ c = "."
OpensComment(c) == SubSeq(soFar, Len(soFar), Len(soFar)) = "/" /\ c \in {"*", "/"}
GoesOn(c) == isStillValid(c) \/ StartsReal(c)

Extend ==
    /\ mode = "token"
    /\ HasNext /\ GoesOn(next)
    /\ GetNext
    /\ lastChar' = readCharInfo
    /\ soFar' = soFar \o next
    /\ strKind' = IF isStillValid(next) THEN strKind ELSE "real"
    /\ UNCHANGED <<memoryVars, mode, initPos, before, tokens, errors>>

OpenComment ==
    /\ mode = "token"
    /\ HasNext /\ ~ GoesOn(next) /\ OpensComment(next)
    /\ GetNext
    /\ mode' = IF next = "*" THEN "block" ELSE "line"
    /\ before' = ""
    /\ lastChar' = Empty
    /\ UNCHANGED <<memoryVars, soFar, strKind, initPos, tokens, errors>>

\* The character behind a token has been read, and starts the next one.
Stops == mode = "token" /\ HasNext /\ ~ GoesOn(next) /\ ~ OpensComment(next)

Unknown ==
    /\ Stops
    /\ strKind = "unknown"
    /\ GetNext
    /\ lastChar' = readCharInfo
    /\ Report("unknown symbol", initPos)
    /\ Make(Token("unknown", soFar), soFar)

Complete ==
    /\ Stops
    /\ strKind \notin {"unknown", "string"}
    /\ GetNext
    /\ lastChar' = readCharInfo
    /\ Make(Token(strKind, soFar), soFar)
    /\ UNCHANGED errors

EndToken ==
    /\ mode = "token"
    /\ ~ HasNext
    /\ lastChar' = Empty
    /\ Make(Token(strKind, soFar), soFar)
    /\ UNCHANGED <<bufferedVars, errors>>

----------------------------------------------------------------------------
(* handleStringLiteral *)

\* The first character is looked at before the loop.
OpenString ==
    /\ Stops
    /\ strKind = "string"
    /\ GetNext
    /\ lastChar' = Empty
    /\ UNCHANGED errors
    /\ IF next = "\""
       THEN Make(Token("string", ""), "")
       ELSE /\ soFar' = next
            /\ mode' = "string"
            /\ before' = ""
            /\ UNCHANGED <<memoryVars, strKind, initPos, tokens>>

InString == mode = "string" /\ HasNext

Escape ==
    /\ InString /\ before = "\\"
    /\ GetNext
    /\ before' = ""
    /\ IF next \in DOMAIN Escapes
       THEN soFar' = soFar \o Escapes[next] /\ UNCHANGED errors
       ELSE Report("unknown escape", currentPos') /\ UNCHANGED soFar
    /\ UNCHANGED <<memoryVars, lastChar, mode, strKind, initPos, tokens>>

CloseString ==
    /\ InString /\ before # "\\" /\ next = "\""
    /\ GetNext
    /\ Make(Token("string", soFar), soFar)
    /\ UNCHANGED <<lastChar, errors>>

StringChar ==
    /\ InString /\ before # "\\" /\ next # "\""
    /\ GetNext
    /\ before' = IF next = "\\" THEN next ELSE ""
    /\ soFar' = IF next \in {"\\"} \cup NewLines THEN soFar ELSE soFar \o next
    /\ UNCHANGED <<memoryVars, lastChar, mode, strKind, initPos, tokens, errors>>

UnfinishedString == mode = "string" /\ ~ HasNext /\ Fatal("unfinished string")

----------------------------------------------------------------------------
(* handleMultiLineComment, handleSingleLineComment *)

InComment == mode \in {"block", "line"} /\ HasNext
EndsCommentEarly == IF mode = "block" THEN next = "/" ELSE next \in NewLines  \* mutant: the star is forgotten
EndsComment == IF mode = "block" THEN before = "*" /\ next = "/" ELSE next \in NewLines

CommentChar ==
    /\ InComment
    /\ GetNext
    /\ before' = next
    /\ mode' = IF EndsComment THEN "skip" ELSE mode
    /\ UNCHANGED <<memoryVars, lastChar, soFar, strKind, initPos, tokens, errors>>

LineEndsNever == mode = "line" /\ ~ HasNext /\ UNCHANGED vars  \* mutant: hasNext is not asked
LineEnds ==
    /\ mode = "line"
    /\ ~ HasNext
    /\ mode' = "skip"
    /\ UNCHANGED <<bufferedVars, memoryVars, lastChar, soFar, strKind, initPos, before, tokens, errors>>

UnfinishedComment == mode = "block" /\ ~ HasNext /\ Fatal("unfinished comment")

----------------------------------------------------------------------------
\* The manager makes or destroys objects while the lexer waits.
Manage == MemoryStep /\ UNCHANGED <<bufferedVars, lexerVars>>

\* The parse is over, by its end or by an exception.
Done == mode \in {"end", "fatal"}
EndParse == Done /\ Delete /\ UNCHANGED <<bufferedVars, lexerVars>>

LexStep ==
    /\ asked = 0
    /\ \/ Skip \/ EndOfSource \/ Begin \/ Extend \/ OpenComment \/ Unknown \/ Complete \/ EndToken
       \/ OpenString \/ Escape \/ CloseString \/ StringChar \/ UnfinishedString
       \/ CommentChar \/ LineEnds \/ UnfinishedComment

Released == ending /\ chunks = << >>
Over == Released /\ UNCHANGED vars

Next == LexStep \/ Manage \/ EndParse \/ Over

Spec == Init /\ [][Next]_vars /\ WF_vars(Next)
=============================================================================
