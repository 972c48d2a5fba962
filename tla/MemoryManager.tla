---------------------------- MODULE MemoryManager ----------------------------
(***************************************************************************)
(* ChunkedMemoryManager: objects are placed one behind the other in a      *)
(* chunk of memory; when one does not fit, a chunk of twice the size is    *)
(* put in front of the others.  The manager destroys the objects and frees *)
(* the chunks when it is destroyed itself.                                 *)
(***************************************************************************)
EXTENDS Integers, Sequences, SequencesExt

CONSTANT Sizes   \* the sizes of objects

ASSUME SizesArePositive == Sizes \subseteq Nat \ {0}

VARIABLES
    chunks,     \* each with its size and the offset of its free part, the
                \* last one being _lastChunk and the one before its parent
    asked,      \* the size of the object being made, 0 if there is none
    objects,    \* _allocated: where each object lies
    destroyed,  \* how many of them have been destroyed
    ending      \* the destructor of the manager has been called

memoryVars == <<chunks, asked, objects, destroyed, ending>>

MemoryInit(size) ==
    /\ chunks = <<[size |-> size, offset |-> 0]>>
    /\ asked = 0
    /\ objects = << >>
    /\ destroyed = 0
    /\ ending = FALSE

last == chunks[Len(chunks)]
FitsChunk == asked <= last.size  \* mutant: the offset is left out
Fits == asked <= last.size - last.offset

New(size) ==
    /\ ~ ending
    /\ asked = 0
    /\ asked' = size
    /\ UNCHANGED <<chunks, objects, destroyed, ending>>

Grow ==
    /\ asked # 0
    /\ ~ Fits
    /\ chunks' = Append(chunks, [size |-> 2 * last.size, offset |-> 0])
    /\ UNCHANGED <<asked, objects, destroyed, ending>>

Alloc ==
    /\ asked # 0
    /\ Fits
    /\ objects' = Append(objects, [chunk |-> Len(chunks), at |-> last.offset, size |-> asked])
    /\ chunks' = [chunks EXCEPT ![Len(chunks)].offset = @ + asked]
    /\ asked' = 0
    /\ UNCHANGED <<destroyed, ending>>

Delete ==
    /\ ~ ending
    /\ asked = 0
    /\ ending' = TRUE
    /\ UNCHANGED <<chunks, asked, objects, destroyed>>

DestroyObject ==
    /\ ending
    /\ destroyed < Len(objects)
    /\ destroyed' = destroyed + 1
    /\ UNCHANGED <<chunks, asked, objects, ending>>

AllDestroyed == destroyed = Len(objects)

\* A chunk frees its own storage, then deletes its parent.
FreeChunk ==
    /\ ending
    /\ AllDestroyed
    /\ chunks # << >>
    /\ chunks' = Front(chunks)
    /\ UNCHANGED <<asked, objects, destroyed, ending>>

MemoryStep == Grow \/ Alloc \/ DestroyObject \/ FreeChunk

\* A manager of any client: it may ask for objects, and end, at any time.
MemorySpec(size) ==
    /\ MemoryInit(size)
    /\ [][(\E s \in Sizes : New(s)) \/ Delete \/ MemoryStep]_memoryVars

----------------------------------------------------------------------------
(* Properties *)

Chunks == [size : Nat, offset : Nat]
Objects == [chunk : Nat \ {0}, at : Nat, size : Nat \ {0}]

MemoryTypeOK ==
    /\ chunks \in Seq(Chunks)
    /\ asked \in Nat
    /\ objects \in Seq(Objects)
    /\ destroyed \in 0..Len(objects)
    /\ ending \in BOOLEAN

Apart(o, p) == o.chunk # p.chunk \/ o.at + o.size <= p.at \/ p.at + p.size <= o.at

(* An object that has not been destroyed lies within a chunk that is still *)
(* there, and shares no byte with another object.                          *)
ObjectsIntact ==
    \A i \in (destroyed + 1)..Len(objects) :
        /\ objects[i].chunk \in 1..Len(chunks)
        /\ objects[i].at + objects[i].size <= chunks[objects[i].chunk].size
        /\ \A j \in (destroyed + 1)..Len(objects) : i # j => Apart(objects[i], objects[j])

(* Why it holds: a chunk is filled from its start up to its offset, which  *)
(* never passes its size, and chunks are only freed over the last object.  *)
MemoryInvariant ==
    /\ MemoryTypeOK
    /\ asked # 0 => ~ ending
    /\ destroyed # 0 => ending
    /\ chunks = << >> => ending
    /\ \A k \in 1..Len(chunks) : chunks[k].offset <= chunks[k].size
    /\ \A i \in (destroyed + 1)..Len(objects) :
          /\ objects[i].chunk \in 1..Len(chunks)
          /\ objects[i].at + objects[i].size <= chunks[objects[i].chunk].offset
          /\ \A j \in (destroyed + 1)..Len(objects) : i # j => Apart(objects[i], objects[j])
=============================================================================
