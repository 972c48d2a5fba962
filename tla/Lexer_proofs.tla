----------------------------- MODULE Lexer_proofs -----------------------------
(***************************************************************************)
(* What the lexer relies on: the memory its tokens lie in stays intact,    *)
(* and the buffered source it reads goes on implementing the plain one     *)
(* while the lexer and the memory manager take their steps.                *)
(***************************************************************************)
EXTENDS Lexer, Induction

----------------------------------------------------------------------------
(* The buffered source implements the plain one.                           *)

\* A position is what the source has handed out, and perhaps one it holds.
LEMMA Basics ==
    ASSUME text \in Seq(Char)
    PROVE  Len(text) \in Nat /\ ahead \in {0, 1} /\ ahead \in Nat
  BY DEF ahead

(* A string, and a stream where char is signed, has a character to give    *)
(* exactly until what is readable has been given.                          *)
LEMMA ReadableIsRead ==
    ASSUME text \in Seq(Char), kind \in {"string", "stream"}
    PROVE  /\ Readable \in Nat /\ Readable <= Len(text)
           /\ \A i \in 0..Readable : HasAfter(i) <=> i < Readable
           /\ readable \in Seq(Char) /\ Len(readable) = Readable
           /\ \A i \in 1..Readable : readable[i] = text[i] /\ CharAfter(i - 1) = text[i]
<1>1. Len(text) \in Nat
  OBVIOUS
<1>2. Readable \in Nat /\ Readable <= Len(text) /\ \A i \in 0..Readable : HasAfter(i) <=> i < Readable
  <2>1. CASE kind = "string"
    BY <1>1, <2>1 DEF Readable, HasAfter
  <2>2. CASE kind = "stream"
    <3> DEFINE S == {n \in 0..Len(text) : n = Len(text) \/ text[n + 1] = EofChar}
               Ends(n) == /\ \A i \in 1..n : text[i] # EofChar
                          /\ n = Len(text) \/ text[n + 1] = EofChar
    <3>1. PICK x \in S : \A y \in S : x <= y
      <4>1. S \in SUBSET Nat /\ Len(text) \in S
        BY <1>1
      <4> HIDE DEF S
      <4> QED
        BY <4>1, LeastElement
    <3>2. ASSUME NEW i \in 1..x PROVE text[i] # EofChar
      <4>1. i - 1 \in 0..Len(text) /\ i - 1 < x /\ (i - 1) + 1 = i
        BY <1>1, <3>1
      <4>2. i - 1 \notin S
        <5>1. x \in Nat /\ i - 1 \in Nat /\ ~ (x <= i - 1)
          BY <1>1, <3>1, <4>1
        <5> HIDE DEF S
        <5> QED
          BY <3>1, <5>1
      <4> QED
        BY <4>1, <4>2
    <3>3. x \in 0..Len(text) /\ Ends(x)
      BY <3>1, <3>2
    <3>4. Readable = CHOOSE n \in 0..Len(text) : Ends(n)
      BY <2>2 DEF Readable
    <3> HIDE DEF Ends
    <3>5. Readable \in 0..Len(text) /\ Ends(Readable)
      BY <3>3, <3>4
    <3> USE DEF Ends
    <3>6. ASSUME NEW i \in 0..Readable PROVE HasAfter(i) <=> i < Readable
      <4>1. HasAfter(i) <=> CharAfter(i) # EofChar
        BY <2>2 DEF HasAfter
      <4>2. CASE i < Readable
        <5>1. i + 1 \in 1..Readable /\ i < Len(text)
          BY <1>1, <3>5, <4>2
        <5> QED
          BY <3>5, <4>1, <4>2, <5>1 DEF CharAfter
      <4>3. CASE i = Readable
        BY <1>1, <3>5, <4>1, <4>3 DEF CharAfter
      <4> QED
        BY <3>5, <4>2, <4>3
    <3> QED
      BY <1>1, <3>5, <3>6
  <2> QED
    BY <2>1, <2>2
<1>3. readable \in Seq(Char) /\ Len(readable) = Readable /\ \A i \in 1..Readable : readable[i] = text[i]
  BY <1>1, <1>2 DEF readable
<1>4. ASSUME NEW i \in 1..Readable PROVE CharAfter(i - 1) = text[i]
  BY <1>1, <1>2 DEF CharAfter
<1> QED
  BY <1>2, <1>3, <1>4

\* Filling the buffer moves the source by what goes into the buffer.
LEMMA FillCounts ==
    ASSUME text \in Seq(Char), kind \in {"string", "stream"}, NEW n \in Nat, n <= Readable
    PROVE  /\ Available(n) \in Nat
           /\ n + Available(n) <= Readable
           /\ n < Readable => Available(n) > 0
           /\ GetNexts(n) \in Seq(Char)
           /\ Len(GetNexts(n)) = Available(n)
           /\ \A i \in 1..Available(n) : GetNexts(n)[i] = text[n + i]
<1> DEFINE Fills(k) == /\ \A i \in 0..(k - 1) : HasAfter(n + i)
                       /\ k = MaxBufferSize \/ ~ HasAfter(n + k)
           m == IF Readable - n < MaxBufferSize THEN Readable - n ELSE MaxBufferSize
<1>1. /\ Readable \in Nat /\ Readable <= Len(text) /\ Len(text) \in Nat
      /\ \A i \in 0..Readable : HasAfter(i) <=> i < Readable
      /\ \A i \in 1..Readable : CharAfter(i - 1) = text[i]
  BY ReadableIsRead
<1>2. m \in 0..MaxBufferSize /\ Fills(m)
  <2>1. m \in 0..MaxBufferSize /\ n + m <= Readable
    BY <1>1, BufferNotEmpty
  <2>2. ASSUME NEW i \in 0..(m - 1) PROVE HasAfter(n + i)
    <3>1. n + i \in 0..Readable /\ n + i < Readable
      BY <1>1, <2>1
    <3> QED
      BY <1>1, <3>1
  <2>3. m = MaxBufferSize \/ ~ HasAfter(n + m)
    BY <1>1, BufferNotEmpty
  <2> QED
    BY <2>1, <2>2, <2>3
<1>3. Available(n) = CHOOSE k \in 0..MaxBufferSize : Fills(k)
  BY DEF Available
<1> HIDE DEF Fills, m
<1>4. Available(n) \in 0..MaxBufferSize /\ Fills(Available(n))
  BY <1>2, <1>3
<1> DEFINE k == Available(n)
<1> HIDE DEF k
<1>5. k \in Nat /\ (\A i \in 0..(k - 1) : HasAfter(n + i)) /\ (k = MaxBufferSize \/ ~ HasAfter(n + k))
  BY <1>4, BufferNotEmpty DEF Fills, k
<1>6. n + k <= Readable
  <2> SUFFICES ASSUME n + k > Readable PROVE FALSE
    BY <1>1, <1>5
  <2>1. Readable - n \in 0..(k - 1) /\ n + (Readable - n) = Readable
    BY <1>1, <1>5
  <2>2. HasAfter(Readable)
    BY <1>5, <2>1
  <2> QED
    BY <1>1, <2>2
<1>7. n < Readable => k > 0
  <2> SUFFICES ASSUME n < Readable, k = 0 PROVE FALSE
    BY <1>5
  <2>1. ~ HasAfter(n)
    BY <1>5, BufferNotEmpty
  <2> QED
    BY <1>1, <2>1
<1>8. GetNexts(n) = [i \in 1..k |-> CharAfter(n + i - 1)]
  BY DEF GetNexts, k
<1>9. ASSUME NEW i \in 1..k PROVE CharAfter(n + i - 1) = text[n + i] /\ text[n + i] \in Char
  <2>1. n + i \in 1..Readable /\ n + i \in 1..Len(text)
    BY <1>1, <1>5, <1>6
  <2> QED
    BY <1>1, <2>1
<1>10. GetNexts(n) \in Seq(Char) /\ Len(GetNexts(n)) = k /\ \A i \in 1..k : GetNexts(n)[i] = text[n + i]
  <2>1. GetNexts(n) \in [1..k -> Char]
    BY <1>8, <1>9
  <2>2. k \in Nat /\ DOMAIN GetNexts(n) = 1..k
    BY <1>5, <1>8
  <2>3. GetNexts(n) \in Seq(Char)
    BY <2>1, <2>2, SeqDef
  <2>4. Len(GetNexts(n)) = k
    BY <2>2, <2>3, LenProperties
  <2> QED
    BY <1>8, <1>9, <2>3, <2>4
<1> QED
  BY <1>5, <1>6, <1>7, <1>10 DEF k

\* The types, and what the buffer holds, are an inductive invariant.
LEMMA SourceInvariant ==
    ASSUME "unsignedStream" \notin Kinds
    PROVE  SourceSpec => []SourceTypeOK
  <1>0. \A k \in Kinds : k \in {"string", "stream"}
    BY KindsAreKinds
  <1>1. SourceInit => SourceTypeOK
    <2> SUFFICES ASSUME SourceInit PROVE SourceTypeOK
      OBVIOUS
    <2>1. /\ text \in Seq(Char) /\ kind \in {"string", "stream"}
          /\ Readable \in Nat /\ 0 <= Readable /\ ahead \in Nat
      BY <1>0, TextsAreTexts, Basics, ReadableIsRead DEF SourceInit
    <2>2. /\ Available(0) \in Nat /\ Available(0) <= Readable
          /\ 0 < Readable => Available(0) > 0
          /\ buffer \in Seq(Char) /\ Len(buffer) = Available(0)
          /\ \A i \in 1..Available(0) : buffer[i] = text[0 + i]
      BY <2>1, FillCounts DEF SourceInit
    <2>3. position \in Nat /\ taken = Available(0)
      BY <2>1, <2>2 DEF taken, SourceInit
    <2>4. taken \in 0..Readable /\ index \in 0..Len(buffer) /\ Len(buffer) <= taken
      BY <2>1, <2>2, <2>3 DEF SourceInit
    <2>5. taken < Readable => index < Len(buffer)
      BY <2>1, <2>2, <2>3 DEF SourceInit
    <2>6. \A i \in 1..Len(buffer) : buffer[i] = text[taken - Len(buffer) + i]
      BY <2>2, <2>3
    <2> QED
      BY <2>1, <2>2, <2>3, <2>4, <2>5, <2>6 DEF SourceInit, SourceTypeOK
  <1>2. SourceTypeOK /\ [GetNext]_bufferedVars => SourceTypeOK'
    <2> SUFFICES ASSUME SourceTypeOK, [GetNext]_bufferedVars PROVE SourceTypeOK'
      OBVIOUS
    <2>1. CASE UNCHANGED bufferedVars
      BY <2>1 DEF bufferedVars, SourceTypeOK, taken, ahead, Readable
    <2>2. CASE GetNext
      <3>1. /\ text \in Seq(Char) /\ kind \in {"string", "stream"} /\ Readable \in Nat /\ ahead \in Nat
            /\ Readable <= Len(text) /\ Len(text) \in Nat
            /\ text' = text /\ kind' = kind /\ ahead' = ahead /\ Readable' = Readable /\ kind \in Kinds
        BY <1>0, <2>2, Basics, ReadableIsRead DEF GetNext, SourceTypeOK, ahead, Readable
      <3>2. /\ taken \in Nat /\ taken <= Readable /\ position \in Nat /\ index \in Nat
            /\ Len(buffer) \in Nat /\ buffer \in Seq(Char) /\ index < Len(buffer)
            /\ Len(buffer) <= taken /\ position = taken + ahead
        <4>1. taken \in Nat /\ taken <= Readable /\ position = taken + ahead
          BY <3>1 DEF SourceTypeOK, taken
        <4> QED
          BY <2>2, <4>1 DEF SourceTypeOK, GetNext, HasNext
      <3>3. read' \in [chr : Char, pos : Nat]
        <4>1. next \in Char
          BY <3>2 DEF next
        <4>2. getPosition \in Nat
          BY <3>1, <3>2 DEF getPosition
        <4> QED
          BY <2>2, <4>1, <4>2 DEF GetNext
      <3>4. CASE UsedUp
        <4>1. /\ buffer' = GetNexts(taken) /\ position' = position + Available(taken) /\ index' = 0
              /\ Available(taken) \in Nat /\ taken + Available(taken) <= Readable
              /\ taken < Readable => Available(taken) > 0
              /\ GetNexts(taken) \in Seq(Char) /\ Len(GetNexts(taken)) = Available(taken)
              /\ \A i \in 1..Available(taken) : GetNexts(taken)[i] = text[taken + i]
          BY <2>2, <3>1, <3>2, <3>4, FillCounts DEF GetNext, ProduceNext, UsedUp
        <4>2. taken' = taken + Available(taken)
          BY <3>1, <3>2, <4>1 DEF taken
        <4>3. position' \in Nat /\ taken' \in 0..Readable /\ index' \in 0..Len(buffer')
          <5>1. position' \in Nat
            BY <3>2, <4>1
          <5>2. taken' \in 0..Readable
            BY <3>1, <3>2, <4>1, <4>2
          <5>3. index' \in 0..Len(buffer')
            BY <4>1
          <5> QED
            BY <5>1, <5>2, <5>3
        <4>4. /\ Len(buffer') <= taken'
              /\ taken' < Readable => index' < Len(buffer')
          BY <3>1, <3>2, <4>1, <4>2
        <4>5. \A i \in 1..Len(buffer') : buffer'[i] = text[taken' - Len(buffer') + i]
          <5>1. Len(buffer') = Available(taken) /\ taken' - Len(buffer') = taken
            BY <3>2, <4>1, <4>2
          <5>2. \A i \in 1..Available(taken) : buffer'[i] = text[taken + i]
            BY <4>1
          <5> QED
            BY <5>1, <5>2
        <4> QED
          BY <3>1, <3>3, <4>1, <4>3, <4>4, <4>5 DEF SourceTypeOK
      <3>5. CASE ~ UsedUp
        <4>1. index' = index + 1 /\ buffer' = buffer /\ position' = position /\ taken' = taken
          BY <2>2, <3>1, <3>5 DEF GetNext, taken
        <4>2. index' \in 0..Len(buffer) /\ index' < Len(buffer)
          BY <3>2, <3>5, <4>1 DEF UsedUp
        <4> QED
          BY <3>1, <3>3, <4>1, <4>2 DEF SourceTypeOK
      <3> QED
        BY <3>4, <3>5
    <2> QED
      BY <2>1, <2>2
  <1> QED
    BY <1>1, <1>2, PTL DEF SourceSpec

\* What has been handed out is what was taken but for the rest of the buffer.
LEMMA GivenCounts ==
    ASSUME "unsignedStream" \notin Kinds, SourceTypeOK
    PROVE  /\ given = taken - Len(buffer) + index
           /\ given \in Nat /\ taken \in Nat /\ index \in Nat /\ ahead \in Nat
           /\ Len(buffer) \in Nat /\ readable \in Seq(Char) /\ Len(readable) \in Nat
           /\ HasNext <=> given < Len(readable)
           /\ HasNext => next = readable[given + 1]
           /\ getPosition = ahead + given
  <1>1. /\ text \in Seq(Char) /\ kind \in {"string", "stream"}
        /\ Readable \in Nat /\ Readable <= Len(text) /\ Len(text) \in Nat /\ ahead \in Nat
        /\ readable \in Seq(Char) /\ Len(readable) = Readable
        /\ \A i \in 1..Readable : readable[i] = text[i]
    BY KindsAreKinds, Basics, ReadableIsRead DEF SourceTypeOK
  <1>2. /\ taken \in Nat /\ taken <= Readable /\ position \in Nat /\ index \in Nat
        /\ Len(buffer) \in Nat /\ Len(buffer) <= taken /\ index <= Len(buffer)
        /\ taken < Readable => index < Len(buffer)
    BY <1>1 DEF SourceTypeOK
  <1>3. position = taken + ahead
    BY <1>1, <1>2 DEF taken
  <1>4. given = taken - Len(buffer) + index /\ getPosition = ahead + given /\ given \in Nat
    BY <1>1, <1>2, <1>3 DEF given, getPosition
  <1>5. HasNext <=> given < Readable
    BY <1>1, <1>2, <1>4 DEF HasNext
  <1>6. ASSUME HasNext PROVE next = readable[given + 1]
    <2>1. index + 1 \in 1..Len(buffer)
      BY <1>2, <1>6 DEF HasNext
    <2>2. next = text[taken - Len(buffer) + (index + 1)]
      BY <2>1 DEF SourceTypeOK, next
    <2>3. taken - Len(buffer) + (index + 1) = given + 1 /\ given + 1 \in 1..Readable
      BY <1>1, <1>2, <1>4, <1>5, <1>6
    <2> QED
      BY <1>1, <2>2, <2>3
  <1> QED
    BY <1>1, <1>2, <1>4, <1>5, <1>6

(* Where char is signed: a reader of the buffered source, over a string or *)
(* a stream of any length and with a buffer of any size, gets the          *)
(* characters of the string, or of the stream up to the first byte 0xFF,   *)
(* in order, each with the position it has there                           *)
(* (BufferedInputSource::getNext and getPosition, IStreamSource).          *)
THEOREM BufferedImplementsPlain ==
    ASSUME "unsignedStream" \notin Kinds
    PROVE  SourceSpec => PlainSpec
  <1>1. SourceInit /\ SourceTypeOK => Plain!Init
    <2> SUFFICES ASSUME SourceInit, SourceTypeOK PROVE Plain!Init
      OBVIOUS
    <2>1. text \in Seq(Char) /\ kind \in {"string", "stream"} /\ ahead \in {0, 1} /\ readable \in Seq(Char)
      BY Basics, ReadableIsRead, KindsAreKinds DEF SourceTypeOK
    <2>2. 0 <= Readable /\ Available(0) = Len(GetNexts(0)) /\ Available(0) \in Nat
      BY <2>1, FillCounts, ReadableIsRead
    <2>3. given = 0
      BY <2>1, <2>2, Basics DEF SourceInit, given, getPosition
    <2> QED
      BY <2>1, <2>3 DEF SourceInit, Plain!Init
  <1>2. SourceTypeOK /\ SourceTypeOK' /\ [GetNext]_bufferedVars
            => [Plain!GetNext]_(Plain!sourceVars)
    <2> SUFFICES ASSUME SourceTypeOK, SourceTypeOK', [GetNext]_bufferedVars
                 PROVE  [Plain!GetNext]_(Plain!sourceVars)
      OBVIOUS
    <2>1. CASE UNCHANGED bufferedVars
      BY <2>1 DEF bufferedVars, Plain!sourceVars, ahead, given, getPosition, readable, Readable
    <2>2. CASE GetNext
      <3>1. /\ HasNext /\ text' = text /\ ahead' = ahead /\ readable' = readable
            /\ read' = [chr |-> next, pos |-> getPosition]
        BY <2>2 DEF GetNext, ahead, readable, Readable
      <3>2. /\ given < Len(readable) /\ given \in Nat /\ taken \in Nat /\ index \in Nat
            /\ Len(buffer) \in Nat /\ given = taken - Len(buffer) + index
            /\ next = readable[given + 1] /\ getPosition = ahead + given
            /\ index < Len(buffer) /\ ahead \in Nat
        BY <3>1, GivenCounts DEF HasNext
      <3>3. given' = taken' - Len(buffer') + index' /\ Len(buffer') \in Nat
        <4>1. position' \in Nat /\ Len(buffer') \in Nat /\ index' \in Nat
          BY DEF SourceTypeOK
        <4> QED
          BY <3>1, <3>2, <4>1 DEF given, getPosition, taken
      <3>4. given' = given + 1
        <4>1. CASE UsedUp
          <5>1. /\ buffer' = GetNexts(taken) /\ position' = position + Available(taken) /\ index' = 0
                /\ taken <= Readable /\ position \in Nat /\ text \in Seq(Char)
                /\ kind \in {"string", "stream"}
            BY <2>2, <3>2, <4>1, KindsAreKinds, ReadableIsRead DEF GetNext, ProduceNext, UsedUp, SourceTypeOK
          <5>2. Available(taken) \in Nat /\ Len(buffer') = Available(taken)
            BY <3>2, <5>1, FillCounts
          <5>3. taken' = taken + Available(taken)
            BY <3>1, <3>2, <5>1, <5>2 DEF taken
          <5> QED
            BY <3>2, <3>3, <4>1, <5>1, <5>2, <5>3 DEF UsedUp
        <4>2. CASE ~ UsedUp
          <5>1. index' = index + 1 /\ buffer' = buffer /\ taken' = taken
            BY <2>2, <3>1, <4>2 DEF GetNext, taken
          <5> QED
            BY <3>2, <3>3, <5>1
        <4> QED
          BY <4>1, <4>2
      <3> QED
        BY <3>1, <3>2, <3>4 DEF Plain!GetNext, Plain!HasNext
    <2> QED
      BY <2>1, <2>2
  <1> QED
    BY <1>1, <1>2, SourceInvariant, PTL DEF SourceSpec, PlainSpec, Plain!Spec

(* Where char is signed: the end of a full buffer is never taken for the   *)
(* end of what can be read (the string, or the stream up to the first byte *)
(* 0xFF), and the other way round (BufferedInputSource::hasNext).          *)
THEOREM EndCorrect ==
    ASSUME "unsignedStream" \notin Kinds
    PROVE  SourceSpec => []EndsWithReadable
  <1>1. SourceTypeOK => EndsWithReadable
    BY GivenCounts DEF EndsWithReadable, Plain!HasNext
  <1> QED
    BY <1>1, SourceInvariant, PTL

----------------------------------------------------------------------------
----------------------------------------------------------------------------
(* The memory manager *)

\* What any client may have the manager do.
MemoryNext == (\E size \in Nat \ {0} : New(size)) \/ Delete \/ MemoryStep

\* A new manager has one chunk and no objects.
LEMMA MemoryInitInvariant ==
    ASSUME NEW size \in Nat, MemoryInit(size)
    PROVE  MemoryInvariant
<1> DEFINE first == [size |-> size, offset |-> 0]
<1>1. first \in Chunks /\ first.offset <= first.size
  BY DEF Chunks
<1> HIDE DEF first
<1>2. chunks \in Seq(Chunks) /\ Len(chunks) = 1 /\ chunks # << >> /\ chunks[1] = first
  BY <1>1 DEF MemoryInit, first
<1>3. objects \in Seq(Objects) /\ Len(objects) = 0
  BY DEF MemoryInit
<1>4. \A k \in 1..Len(chunks) : chunks[k].offset <= chunks[k].size
  BY <1>1, <1>2
<1>5. destroyed = 0 /\ asked = 0 /\ ending = FALSE /\ (destroyed + 1)..Len(objects) = {}
  BY <1>3 DEF MemoryInit
<1>6. destroyed \in 0..Len(objects) /\ asked \in Nat
  BY <1>3, <1>5
<1>7. ending \in BOOLEAN
  BY <1>5
<1>8. MemoryTypeOK
  BY <1>2, <1>3, <1>6, <1>7 DEF MemoryTypeOK
<1> QED
  BY <1>2, <1>4, <1>5, <1>8 DEF MemoryInvariant

\* What is known of each chunk, of the one in front, and of each object.
LEMMA EachChunk ==
    ASSUME MemoryInvariant
    PROVE  /\ chunks \in Seq(Chunks) /\ Len(chunks) \in Nat
           /\ \A k \in 1..Len(chunks) :
                 /\ chunks[k] \in Chunks
                 /\ chunks[k].size \in Nat /\ chunks[k].offset \in Nat
                 /\ chunks[k].offset <= chunks[k].size
<1>1. chunks \in Seq(Chunks) /\ Len(chunks) \in Nat
  BY DEF MemoryInvariant, MemoryTypeOK
<1>2. ASSUME NEW k \in 1..Len(chunks)
      PROVE  chunks[k] \in Chunks /\ chunks[k].offset <= chunks[k].size
  BY <1>1 DEF MemoryInvariant
<1> QED
  BY <1>1, <1>2 DEF Chunks

\* There is a last chunk until the manager is destroyed.
LEMMA LastChunk ==
    ASSUME MemoryInvariant, ~ ending
    PROVE  /\ Len(chunks) \in Nat /\ Len(chunks) > 0
           /\ last = chunks[Len(chunks)]
           /\ last \in Chunks /\ last.size \in Nat /\ last.offset \in Nat
           /\ last.offset <= last.size
<1>1. chunks # << >>
  BY DEF MemoryInvariant
<1>2. Len(chunks) \in Nat /\ Len(chunks) > 0
  BY <1>1, EachChunk
<1> QED
  BY <1>2, EachChunk DEF last

\* Each object that is not destroyed lies in the used part of its chunk.
LEMMA EachObject ==
    ASSUME MemoryInvariant
    PROVE  /\ objects \in Seq(Objects) /\ Len(objects) \in Nat
           /\ destroyed \in Nat /\ destroyed <= Len(objects)
           /\ \A i \in (destroyed + 1)..Len(objects) :
                 /\ objects[i] \in Objects
                 /\ objects[i].at \in Nat /\ objects[i].size \in Nat
                 /\ objects[i].chunk \in 1..Len(chunks)
                 /\ objects[i].at + objects[i].size <= chunks[objects[i].chunk].offset
<1>1. /\ objects \in Seq(Objects) /\ Len(objects) \in Nat
      /\ destroyed \in Nat /\ destroyed <= Len(objects)
  BY DEF MemoryInvariant, MemoryTypeOK
<1>2. ASSUME NEW i \in (destroyed + 1)..Len(objects)
      PROVE  /\ objects[i] \in Objects
             /\ objects[i].chunk \in 1..Len(chunks)
             /\ objects[i].at + objects[i].size <= chunks[objects[i].chunk].offset
  <2>1. i \in 1..Len(objects)
    BY <1>1
  <2> QED
    BY <1>1, <2>1 DEF MemoryInvariant
<1> QED
  BY <1>1, <1>2 DEF Objects

\* A larger chunk is put in front; nothing moves.
LEMMA GrowKeeps ==
    ASSUME MemoryInvariant, Grow
    PROVE  MemoryInvariant'
<1> DEFINE new == [size |-> 2 * last.size, offset |-> 0]
<1>1. ~ ending /\ asked # 0 /\ chunks' = Append(chunks, new)
  BY DEF Grow, MemoryInvariant
<1>2. new \in Chunks /\ new.offset <= new.size
  BY <1>1, LastChunk DEF Chunks
<1> HIDE DEF new
<1>3. /\ chunks' \in Seq(Chunks) /\ Len(chunks') = Len(chunks) + 1 /\ chunks' # << >>
      /\ \A k \in 1..Len(chunks) : chunks'[k] = chunks[k]
      /\ chunks'[Len(chunks) + 1] = new
  BY <1>1, <1>2, EachChunk
<1>4. UNCHANGED <<asked, objects, destroyed, ending>>
  BY DEF Grow
<1>5. MemoryTypeOK'
  BY <1>3, <1>4 DEF MemoryInvariant, MemoryTypeOK
<1>6. ASSUME NEW k \in 1..Len(chunks') PROVE chunks'[k].offset <= chunks'[k].size
  <2>1. k \in 1..Len(chunks) \/ k = Len(chunks) + 1
    BY <1>3, EachChunk
  <2> QED
    BY <2>1, <1>2, <1>3, EachChunk
<1>7. ASSUME NEW i \in (destroyed + 1)..Len(objects)
      PROVE  /\ objects[i].chunk \in 1..Len(chunks')
             /\ objects[i].at + objects[i].size <= chunks'[objects[i].chunk].offset
  <2>1. objects[i].chunk \in 1..Len(chunks)
    BY EachObject
  <2>2. objects[i].chunk \in 1..Len(chunks')
    BY <2>1, <1>3, EachChunk
  <2>3. chunks'[objects[i].chunk] = chunks[objects[i].chunk]
    BY <2>1, <1>3
  <2> QED
    BY <2>2, <2>3, EachObject
<1> QED
  BY <1>1, <1>3, <1>4, <1>5, <1>6, <1>7 DEF MemoryInvariant

\* An object is put where the free part of the front chunk starts, which is
\* behind all the objects of that chunk.
LEMMA AllocKeeps ==
    ASSUME MemoryInvariant, Alloc
    PROVE  MemoryInvariant'
<1> DEFINE new == [chunk |-> Len(chunks), at |-> last.offset, size |-> asked]
           filled == [last EXCEPT !.offset = last.offset + asked]
           n == Len(chunks)
           m == Len(objects)
<1>1. /\ asked # 0 /\ asked <= last.size - last.offset
      /\ objects' = Append(objects, new)
      /\ chunks' = [chunks EXCEPT ![n] = filled]
      /\ asked' = 0 /\ UNCHANGED <<destroyed, ending>>
  BY DEF Alloc, Fits, last
<1>2. ~ ending /\ destroyed = 0 /\ asked \in Nat
  BY <1>1 DEF MemoryInvariant, MemoryTypeOK
<1>3. /\ chunks \in Seq(Chunks) /\ n \in Nat /\ n > 0 /\ n \in 1..n
      /\ objects \in Seq(Objects) /\ m \in Nat
      /\ last = chunks[n] /\ last \in Chunks /\ last.offset \in Nat /\ last.size \in Nat
  BY <1>2, LastChunk, EachChunk, EachObject
<1>4. /\ new \in Objects
      /\ new.chunk = n /\ new.at = last.offset /\ new.size = asked
  BY <1>1, <1>2, <1>3 DEF Objects
<1>5. /\ filled \in Chunks
      /\ filled.offset = last.offset + asked /\ filled.offset \in Nat
      /\ filled.size = last.size /\ filled.offset <= filled.size
  BY <1>1, <1>2, <1>3 DEF Chunks
<1> HIDE DEF new, filled
<1>6. /\ objects' \in Seq(Objects) /\ Len(objects') = m + 1
      /\ \A i \in 1..m : objects'[i] = objects[i]
      /\ objects'[m + 1] = new
  BY <1>1, <1>3, <1>4
<1>7. /\ chunks' \in Seq(Chunks) /\ Len(chunks') = n /\ chunks' # << >>
      /\ \A k \in 1..n : k # n => chunks'[k] = chunks[k]
      /\ chunks'[n] = filled
  BY <1>1, <1>3, <1>5
<1>8. MemoryTypeOK'
  <2>1. destroyed' \in 0..Len(objects') /\ asked' \in Nat
    BY <1>1, <1>2, <1>3, <1>6
  <2>2. ending' \in BOOLEAN
    BY <1>1 DEF MemoryInvariant, MemoryTypeOK
  <2> QED
    BY <2>1, <2>2, <1>6, <1>7 DEF MemoryTypeOK
<1>9. ASSUME NEW k \in 1..n
      PROVE  /\ chunks'[k].offset \in Nat /\ chunks[k].offset \in Nat
             /\ chunks'[k].offset >= chunks[k].offset
             /\ chunks'[k].offset <= chunks'[k].size
  <2>1. CASE k = n
    BY <2>1, <1>2, <1>3, <1>5, <1>7
  <2>2. CASE k # n
    BY <2>2, <1>7, EachChunk
  <2> QED
    BY <2>1, <2>2
<1>10. ASSUME NEW i \in 1..m
       PROVE  /\ i \in (destroyed + 1)..Len(objects)
              /\ objects[i].chunk \in 1..n
              /\ objects[i].at \in Nat /\ objects[i].size \in Nat
              /\ objects[i].at + objects[i].size <= chunks[objects[i].chunk].offset
              /\ \A j \in 1..m : i # j => Apart(objects[i], objects[j])
  <2>1. /\ i \in (destroyed + 1)..Len(objects)
        /\ \A j \in 1..m : j \in (destroyed + 1)..Len(objects)
    BY <1>2, <1>3
  <2> QED
    BY <2>1, EachObject DEF MemoryInvariant
<1>11. ASSUME NEW i \in 1..m
       PROVE  Apart(objects[i], new) /\ Apart(new, objects[i])
  <2>1. CASE objects[i].chunk # n
    BY <2>1, <1>4 DEF Apart
  <2>2. CASE objects[i].chunk = n
    <3>1. objects[i].at + objects[i].size <= last.offset
      BY <2>2, <1>3, <1>10
    <3> QED
      BY <3>1, <1>4 DEF Apart
  <2> QED
    BY <2>1, <2>2
<1>12. ASSUME NEW i \in 1..(m + 1)
       PROVE  /\ objects'[i].chunk \in 1..n
              /\ objects'[i].at + objects'[i].size <= chunks'[objects'[i].chunk].offset
              /\ \A j \in 1..(m + 1) : i # j => Apart(objects'[i], objects'[j])
  <2>1. \A j \in 1..(m + 1) : j \in 1..m \/ j = m + 1
    BY <1>3
  <2>2. CASE i = m + 1
    <3>1. objects'[i] = new
      BY <2>2, <1>6
    <3>2. new.at + new.size <= chunks'[new.chunk].offset
      BY <1>2, <1>3, <1>4, <1>5, <1>7
    <3>3. \A j \in 1..(m + 1) : i # j => Apart(objects'[i], objects'[j])
      BY <2>1, <2>2, <3>1, <1>6, <1>11
    <3> QED
      BY <3>1, <3>2, <3>3, <1>3, <1>4
  <2>3. CASE i \in 1..m
    <3>1. objects'[i] = objects[i] /\ objects[i].chunk \in 1..n
      BY <2>3, <1>6, <1>10
    <3>2. chunks'[objects[i].chunk].offset >= chunks[objects[i].chunk].offset
      BY <3>1, <1>9
    <3>3. objects[i].at + objects[i].size <= chunks'[objects[i].chunk].offset
      BY <2>3, <3>1, <3>2, <1>9, <1>10
    <3>4. \A j \in 1..(m + 1) : i # j => Apart(objects'[i], objects'[j])
      BY <2>1, <2>3, <3>1, <1>6, <1>10, <1>11
    <3> QED
      BY <3>1, <3>3, <3>4
  <2> QED
    BY <2>1, <2>2, <2>3
<1>13. (destroyed' + 1)..Len(objects') = 1..(m + 1)
  BY <1>1, <1>2, <1>6
<1>14. asked' = 0 /\ destroyed' = 0 /\ ~ ending' /\ Len(chunks') = n /\ chunks' # << >>
  BY <1>1, <1>2, <1>7
<1> QED
  BY <1>8, <1>9, <1>12, <1>13, <1>14 DEF MemoryInvariant

\* A chunk goes when no object is left.
LEMMA FreeChunkKeeps ==
    ASSUME MemoryInvariant, FreeChunk
    PROVE  MemoryInvariant'
<1>1. /\ ending /\ destroyed = Len(objects) /\ chunks # << >>
      /\ chunks' = SubSeq(chunks, 1, Len(chunks) - 1)
      /\ UNCHANGED <<asked, objects, destroyed, ending>>
  BY DEF FreeChunk, AllDestroyed, Front
<1>2. chunks \in Seq(Chunks) /\ Len(chunks) \in Nat /\ Len(chunks) > 0
  BY <1>1, EachChunk
<1>3. /\ chunks' \in Seq(Chunks) /\ Len(chunks') = Len(chunks) - 1
      /\ \A k \in 1..Len(chunks') : chunks'[k] = chunks[k]
  BY <1>1, <1>2, FrontOfSeq
<1>4. ASSUME NEW k \in 1..Len(chunks') PROVE chunks'[k].offset <= chunks'[k].size
  <2>1. k \in 1..Len(chunks)
    BY <1>2, <1>3
  <2> QED
    BY <2>1, <1>3, EachChunk
<1>5. (destroyed' + 1)..Len(objects') = {}
  BY <1>1, EachObject
<1>6. MemoryTypeOK'
  BY <1>1, <1>3 DEF MemoryInvariant, MemoryTypeOK
<1> QED
  BY <1>1, <1>4, <1>5, <1>6 DEF MemoryInvariant

\* Allocation, growth and destruction keep the objects where they are.
LEMMA MemoryStepKeeps ==
    ASSUME MemoryInvariant, [MemoryNext]_memoryVars
    PROVE  MemoryInvariant'
<1>1. ASSUME NEW size \in Nat \ {0}, New(size) PROVE MemoryInvariant'
  BY <1>1 DEF New, MemoryInvariant, MemoryTypeOK
<1>2. CASE Delete
  BY <1>2 DEF Delete, MemoryInvariant, MemoryTypeOK
<1>3. CASE DestroyObject
  BY <1>3 DEF DestroyObject, MemoryInvariant, MemoryTypeOK
<1>4. CASE UNCHANGED memoryVars
  BY <1>4 DEF memoryVars, MemoryInvariant, MemoryTypeOK
<1> QED
  BY <1>1, <1>2, <1>3, <1>4, GrowKeeps, AllocKeeps, FreeChunkKeeps DEF MemoryNext, MemoryStep

\* Objects within their chunks and behind one another do not overlap.
LEMMA MemoryInvariantSuffices == MemoryInvariant => ObjectsIntact
<1> SUFFICES ASSUME MemoryInvariant, NEW i \in (destroyed + 1)..Len(objects)
             PROVE  objects[i].at + objects[i].size <= chunks[objects[i].chunk].size
  BY DEF MemoryInvariant, ObjectsIntact
<1>1. objects[i].chunk \in 1..Len(chunks)
  BY EachObject
<1> QED
  BY <1>1, EachChunk, EachObject

(* Whatever a client asks of the memory manager (new of                    *)
(* ChunkedMemoryManager, and its destructor), in chunks of any size, no    *)
(* object that is still in use lies outside of its chunk or over another.  *)
THEOREM ClientObjectsIntact ==
    ASSUME NEW CONSTANT size \in Nat
    PROVE  MemorySpec(size) => []ObjectsIntact
<1>1. MemoryInit(size) => MemoryInvariant
  BY MemoryInitInvariant
<1>2. MemoryInvariant /\ [(\E s \in Sizes : New(s)) \/ Delete \/ MemoryStep]_memoryVars
          => MemoryInvariant'
  BY MemoryStepKeeps, SizesArePositive DEF MemoryNext
<1> QED
  BY <1>1, <1>2, MemoryInvariantSuffices, PTL DEF MemorySpec

----------------------------------------------------------------------------
(* The lexer *)

\* Every token takes some place.
LEMMA SizesOfTokens == \A type : SizeOf(type) \in Nat \ {0}
  BY DEF SizeOf

\* The first chunk has a size.
LEMMA FirstChunk == Init => ChunkSize \in Nat
<1> SUFFICES ASSUME Init PROVE ChunkSize \in Nat
  OBVIOUS
<1>1. Len(text) \in Nat
  <2>1. text \in Texts
    BY DEF Init, SourceInit
  <2>2. text \in Seq(Char)
    BY <2>1, TextsAreTexts
  <2> QED
    BY <2>2
<1>2. SizeOf("id") \in Nat
  BY SizesOfTokens
<1>3. \A a, b \in Nat : a * b \in Nat
  OBVIOUS
<1>4. Len(text) * SizeOf("id") \in Nat
  BY <1>1, <1>2, <1>3
<1>5. \A a \in Nat : a \div 3 \in Nat
  OBVIOUS
<1> QED
  BY <1>4, <1>5 DEF ChunkSize

\* To the source and to the memory manager, a step of the lexer is a step of
\* theirs or none.
Reads == [GetNext]_bufferedVars
Allocates == [MemoryNext]_memoryVars

\* To make a token is to allocate it, or to grow for it.
LEMMA MakeAllocates ==
    ASSUME NEW t, NEW s, Make(t, s)
    PROVE  Allocates
  BY SizesOfTokens DEF Make, Allocates, MemoryNext

\* A step of the lexer reads characters and allocates tokens.
LEMMA LexStepParts == LexStep => Reads /\ Allocates
<1> USE DEF Reads, Allocates
<1>1. Skip => Reads /\ Allocates
  BY DEF Skip, memoryVars
<1>2. EndOfSource => Reads /\ Allocates
  BY SizesOfTokens DEF EndOfSource, MemoryNext, bufferedVars
<1>3. Begin => Reads /\ Allocates
  BY DEF Begin
<1>4. Extend => Reads /\ Allocates
  BY DEF Extend
<1>5. OpenComment => Reads /\ Allocates
  BY DEF OpenComment
<1>6. Unknown => Reads /\ Allocates
  BY MakeAllocates DEF Unknown
<1>7. Complete => Reads /\ Allocates
  BY MakeAllocates DEF Complete
<1>8. EndToken => Reads /\ Allocates
  BY MakeAllocates DEF EndToken
<1>9. OpenString => Reads /\ Allocates
  BY MakeAllocates DEF OpenString
<1>10. Escape => Reads /\ Allocates
  BY DEF Escape
<1>11. CloseString => Reads /\ Allocates
  BY MakeAllocates DEF CloseString
<1>12. StringChar => Reads /\ Allocates
  BY DEF StringChar
<1>13. UnfinishedString => Reads /\ Allocates
  BY DEF UnfinishedString, Fatal
<1>14. CommentChar => Reads /\ Allocates
  BY DEF CommentChar
<1>15. LineEnds => Reads /\ Allocates
  BY DEF LineEnds
<1>16. UnfinishedComment => Reads /\ Allocates
  BY DEF UnfinishedComment, Fatal
<1> QED
  BY <1>1, <1>2, <1>3, <1>4, <1>5, <1>6, <1>7, <1>8, <1>9, <1>10, <1>11, <1>12, <1>13, <1>14,
     <1>15, <1>16 DEF LexStep

\* So does every step.
LEMMA NextParts == [Next]_vars => Reads /\ Allocates
<1> SUFFICES ASSUME [Next]_vars PROVE Reads /\ Allocates
  OBVIOUS
<1>1. CASE Manage
  BY <1>1 DEF Manage, Reads, Allocates, MemoryNext
<1>2. CASE EndParse
  BY <1>2 DEF EndParse, Reads, Allocates, MemoryNext
<1>3. CASE UNCHANGED vars
  BY <1>3 DEF vars, Reads, Allocates
<1>4. CASE Over
  BY <1>3, <1>4 DEF Over
<1> QED
  BY <1>1, <1>2, <1>3, <1>4, LexStepParts DEF Next

(* However the steps of the lexer and of its memory manager fall, no token *)
(* lies outside of its chunk or over another before the manager, at the    *)
(* end of the parse, destroys it (Lexer::buildToken, Compiler::parse).     *)
THEOREM TokensIntact == Spec => []ObjectsIntact
<1>1. Init => MemoryInvariant
  BY FirstChunk, MemoryInitInvariant DEF Init
<1>2. MemoryInvariant /\ [Next]_vars => MemoryInvariant'
  BY NextParts, MemoryStepKeeps DEF Allocates
<1> QED
  BY <1>1, <1>2, MemoryInvariantSuffices, PTL DEF Spec

\* The lexer uses its source as a client of the buffered source may.
LEMMA LexerReads == Spec => SourceSpec
<1>1. Init => SourceInit
  BY DEF Init
<1>2. [Next]_vars => [GetNext]_bufferedVars
  BY NextParts DEF Reads
<1> QED
  BY <1>1, <1>2, PTL DEF Spec, SourceSpec

(* Where char is signed: the lexer gets the characters of its string, or   *)
(* of its stream up to the first byte 0xFF, in order, each with its        *)
(* position, whatever the buffer (Lexer::produceNext and the handlers over *)
(* BufferedInputSource).                                                   *)
THEOREM LexerReadsPlain ==
    ASSUME "unsignedStream" \notin Kinds
    PROVE  Spec => PlainSpec
  BY LexerReads, BufferedImplementsPlain, PTL

(* Where char is signed: the lexer is never told that its string has       *)
(* ended, or its stream come to its end or to a byte 0xFF, while there is  *)
(* more before that, nor that there is more when there is not.             *)
THEOREM LexerSeesEnd ==
    ASSUME "unsignedStream" \notin Kinds
    PROVE  Spec => []EndsWithReadable
  BY LexerReads, EndCorrect, PTL
=============================================================================
