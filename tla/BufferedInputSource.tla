------------------------- MODULE BufferedInputSource -------------------------
(***************************************************************************)
(* BufferedInputSource over one of the two sources of the program: a       *)
(* string, which is at position 0 before it is read, or a stream, which    *)
(* keeps one character ahead of what it hands out.  The buffer is filled   *)
(* when it is created and again as soon as its last character is taken.    *)
(*                                                                         *)
(* A stream keeps what get returns in a char before it asks whether that   *)
(* is the end.  The end becomes the character EofChar (0xFF): where char   *)
(* is signed ("stream"), EofChar in the text is taken for the end of it;   *)
(* where it is unsigned ("unsignedStream"), nothing is, and behind the     *)
(* text the stream gives EofChar for ever.                                 *)
(***************************************************************************)
EXTENDS Integers, Sequences

CONSTANTS
    Char,
    NoChar,
    EofChar,        \* the character that the end of a stream becomes
    Texts,          \* the texts to read
    Kinds,          \* the sources to read them from
    MaxBufferSize

ASSUME TextsAreTexts == Texts \subseteq Seq(Char)
ASSUME KindsAreKinds == Kinds \subseteq {"string", "stream", "unsignedStream"}
ASSUME EofIsAChar == EofChar \in Char
ASSUME BufferNotEmpty == MaxBufferSize \in Nat \ {0}

VARIABLES
    text,       \* the text behind the source
    kind,       \* StringSource, or IStreamSource by what char is
    position,   \* _position of the source
    buffer,     \* _buffer, up to _buffSize
    index,      \* _index: how many of the buffer are taken
    read        \* the last character taken, and where getPosition said it was

bufferedVars == <<text, kind, position, buffer, index, read>>

\* IStreamSource::produceNext has counted the character that it holds.
ahead == IF kind = "string" THEN 0 ELSE 1

\* How many characters the source has handed out.
taken == position - ahead

\* The character that comes after n others, and whether one is seen to come.
CharAfter(n) == IF n < Len(text) THEN text[n + 1] ELSE EofChar
HasAfter(n) ==
    CASE kind = "string" -> n < Len(text)
      [] kind = "stream" -> CharAfter(n) # EofChar
      [] OTHER           -> TRUE

\* What getNexts puts into the buffer after n characters.
Available(n) == CHOOSE k \in 0..MaxBufferSize :
                    /\ \A i \in 0..(k - 1) : HasAfter(n + i)
                    /\ k = MaxBufferSize \/ ~ HasAfter(n + k)
GetNexts(n) == [i \in 1..Available(n) |-> CharAfter(n + i - 1)]

SourceInit ==
    /\ text \in Texts
    /\ kind \in Kinds
    /\ position = ahead + Available(0)
    /\ buffer = GetNexts(0)
    /\ index = 0
    /\ read = NoChar

HasNext == index < Len(buffer)
getPositionOfSource == position + index  \* mutant: as if nothing were in the buffer
getPosition == position - Len(buffer) + index

\* currentPos is that of the source: where the next fill will start.
currentPos == position

\* The character that getNext is about to return.
next == buffer[index + 1]

\* The last character of the buffer is being taken.
UsedUpLate == index + 1 > Len(buffer)  \* mutant: off by one
UsedUp == index + 1 >= Len(buffer)

ProduceNext ==
    /\ buffer' = GetNexts(taken)
    /\ position' = position + Available(taken)
    /\ index' = 0

GetNext ==
    /\ HasNext
    /\ read' = [chr |-> next, pos |-> getPosition]
    /\ IF UsedUp
       THEN ProduceNext
       ELSE index' = index + 1 /\ UNCHANGED <<buffer, position>>
    /\ UNCHANGED <<text, kind>>

SourceSpec == SourceInit /\ [][GetNext]_bufferedVars

----------------------------------------------------------------------------
(* Properties *)

\* How much of the text can be read from the source: where char is signed, a
\* stream is read up to the first EofChar in it.
Readable ==
    IF kind # "stream" THEN Len(text)
    ELSE CHOOSE n \in 0..Len(text) :
            /\ \A i \in 1..n : text[i] # EofChar
            /\ n = Len(text) \/ text[n + 1] = EofChar
readable == SubSeq(text, 1, Readable)

\* Nothing of the text is lost between two fills: the buffer holds what is
\* right behind the position of the source, and is only used up at the end.
SourceTypeOK ==
    /\ text \in Seq(Char)
    /\ kind \in Kinds
    /\ position \in Nat
    /\ taken \in 0..Readable
    /\ buffer \in Seq(Char)
    /\ index \in 0..Len(buffer)
    /\ Len(buffer) <= taken
    /\ \A i \in 1..Len(buffer) : buffer[i] = text[taken - Len(buffer) + i]
    /\ taken < Readable => index < Len(buffer)
    /\ read \in {NoChar} \cup [chr : Char, pos : Nat]

\* How many characters have been handed out.
given == getPosition - ahead

(* The buffered source hands out the characters of what is readable in     *)
(* order, each with its own position, whatever the sizes of text and       *)
(* buffer: a string to its end, a stream to the first EofChar in it.       *)
Plain == INSTANCE InputSource WITH text <- readable, first <- ahead
PlainSpec == Plain!Spec

(* hasNext says that there are more exactly if what is readable is not     *)
(* used up: the end of a buffer is never taken for the end of the text.    *)
EndsWithReadable == HasNext <=> Plain!HasNext

(* InputSource.h:32-37: the buffer is filled with characters of the text,  *)
(* up to its size or, if that comes first, up to the end of the text.      *)
FillsBuffer ==
    /\ taken <= Len(text)
    /\ Len(buffer) = MaxBufferSize \/ taken = Len(text)
=============================================================================
