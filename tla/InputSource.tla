----------------------------- MODULE InputSource -----------------------------
(***************************************************************************)
(* What a source of code promises to the one who reads it: it hands out    *)
(* the characters of its text one by one, none twice and none left out,    *)
(* each with its position, and says whether there are more.                *)
(***************************************************************************)
EXTENDS Integers, Sequences

CONSTANTS
    Char,   \* the characters
    NoChar  \* nothing has been read yet

VARIABLES
    text,   \* the text
    first,  \* the position of its first character
    given,  \* how many characters have been handed out
    read    \* what was read last: a character and its position

sourceVars == <<text, first, given, read>>

HasNext == given < Len(text)

Init ==
    /\ text \in Seq(Char)
    /\ first \in {0, 1}
    /\ given = 0
    /\ read = NoChar

GetNext ==
    /\ HasNext
    /\ given' = given + 1
    /\ read' = [chr |-> text[given + 1], pos |-> first + given]
    /\ UNCHANGED <<text, first>>

Spec == Init /\ [][GetNext]_sourceVars
=============================================================================
