------------------------------- MODULE MCLexer -------------------------------
(***************************************************************************)
(* All texts of up to MaxLength characters, and longer ones over alphabets *)
(* that make one thing happen often: comments, strings, numbers, operators *)
(* of several characters, words, ends of streams that are none.            *)
(***************************************************************************)
EXTENDS Tokenization, FiniteSetsExt

CONSTANTS MaxLength, MaxLong  \* bounds on the texts, in any characters and in those of a family

MCChar == {"a", "i", "f", "n", "1", ".", "+", "=", "<", "-", ">", "/", "*", "\"", "\\", "\n", " ", "?", "'", EofChar}

Families == {{"/", "*", "\n", "a"}, {"\"", "\\", "n", "\n"}, {"1", ".", "a"}, {"<", "=", "-", ">"}, {"i", "f", "1", " "},
             {"a", "\"", EofChar}}

TextsOf(chars, max) == UNION {[1..n -> chars] : n \in 0..max}
MCTexts == TextsOf(MCChar, MaxLength) \cup UNION {TextsOf(f, MaxLong) : f \in Families}
MCEofChar == "$"    \* stands for the byte 0xFF
MCNoChar == [chr |-> "", pos |-> 0]
MCSizes == {40, 48, 72}
=============================================================================
