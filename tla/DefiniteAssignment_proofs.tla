---------------------- MODULE DefiniteAssignment_proofs ----------------------
(***************************************************************************)
(* For every program, however its branches are nested and wherever its     *)
(* functions and classes lie: a variable has its initialized flag exactly  *)
(* where every way of the execution has assigned it; the errors reported   *)
(* are the items at which some way goes wrong; and what is assigned after  *)
(* it was captured is marked mutable.  The first half of the module is     *)
(* about the flags (AssignmentInvariant), the second, from "How units lie  *)
(* in one another", about names, errors and boxes (ReportsInvariant).      *)
(***************************************************************************)
EXTENDS DefiniteAssignment, Induction

-----------------------------------------------------------------------------
(* Counting blocks *)

Opened(s) == {k \in Int : s[k].op \in Opening}
Closed(s) == {k \in Int : s[k].op = "end"}

\* The depth is what was opened and not closed.
LEMMA DepthCounts ==
    ASSUME NEW s, NEW i \in Int, NEW j \in Int
    PROVE  /\ Depth(s, i, j) = CountIn(Opened(s), i, j) - CountIn(Closed(s), i, j)
           /\ CountIn(Opened(s), i, j) \in Nat /\ CountIn(Closed(s), i, j) \in Nat
           /\ Depth(s, i, j) \in Int
<1>1. {k \in i..j : s[k].op \in Opening} = Among(Opened(s), i, j)
  BY DEF Opened, Among
<1>2. {k \in i..j : s[k].op = "end"} = Among(Closed(s), i, j)
  BY DEF Closed, Among
<1>3. Depth(s, i, j) = CountIn(Opened(s), i, j) - CountIn(Closed(s), i, j)
  BY <1>1, <1>2 DEF Depth, CountIn
<1> QED
  BY <1>3, CountFinite

(* The depth of a stretch of items is the sum of the depths of its parts.  *)
DepthAdds(s, i, m, j) ==
    /\ Depth(s, i, j) = Depth(s, i, m) + Depth(s, m + 1, j)
    /\ Depth(s, i, j) \in Int /\ Depth(s, i, m) \in Int /\ Depth(s, m + 1, j) \in Int
LEMMA DepthSplit ==
    ASSUME NEW s, NEW i \in Int, NEW m \in Int, NEW j \in Int, i <= m + 1, m <= j
    PROVE  DepthAdds(s, i, m, j)
<1>1. m + 1 \in Int
  OBVIOUS
<1>2. /\ CountIn(Opened(s), i, j) = CountIn(Opened(s), i, m) + CountIn(Opened(s), m + 1, j)
      /\ CountIn(Closed(s), i, j) = CountIn(Closed(s), i, m) + CountIn(Closed(s), m + 1, j)
  BY CountSplit
<1> QED
  BY <1>1, <1>2, DepthCounts DEF DepthAdds

\* What one item does to the depth.
LEMMA DepthOne ==
    ASSUME NEW s, NEW i \in Int
    PROVE  /\ s[i].op \in Opening => Depth(s, i, i) = 1
           /\ s[i].op = "end" => Depth(s, i, i) = -1
           /\ s[i].op \notin Opening \cup {"end"} => Depth(s, i, i) = 0
           /\ Depth(s, i, i - 1) = 0
<1>1. /\ i \in Opened(s) <=> s[i].op \in Opening
      /\ i \in Closed(s) <=> s[i].op = "end"
      /\ s[i].op = "end" => s[i].op \notin Opening
  BY DEF Opened, Closed, Opening, UnitOp
<1>2. i - 1 \in Int
  OBVIOUS
<1> QED
  BY <1>1, <1>2, CountOne, DepthCounts

\* No items have no depth.
LEMMA DepthNothing == ASSUME NEW s PROVE Depth(s, 1, 0) = 0
<1>1. \A i \in Int : Depth(s, i, i - 1) = 0
  BY DepthOne
<1>2. 1 \in Int /\ 1 - 1 = 0
  OBVIOUS
<1>3. Depth(s, 1, 1 - 1) = 0
  BY <1>1, <1>2
<1> QED
  BY <1>2, <1>3
-----------------------------------------------------------------------------
(* Blocks *)

(* A block that opens is closed: by the first item at which what is opened *)
(* since is closed, too.                                                   *)
LEMMA BlockCloses ==
    ASSUME WellFormed(program), NEW i \in 1..Len(program), program[i].op \in Opening
    PROVE  /\ Close(i) \in (i + 1)..Len(program)
           /\ Depth(program, i, Close(i)) = 0
           /\ program[Close(i)].op = "end"
           /\ \A m \in i..(Close(i) - 1) : Depth(program, i, m) > 0
<1> DEFINE n == Len(program)
           D(m) == Depth(program, i, m)
           L == {j \in i..n : D(j) <= 0}
<1>1. n \in Nat /\ i \in Nat /\ i >= 1 /\ i <= n
  BY DEF WellFormed
<1>2. D(i) = 1
  BY <1>1, DepthOne
<1>3. ASSUME NEW m \in (i + 1)..n
      PROVE  /\ D(m) = D(m - 1) + Depth(program, m, m)
             /\ D(m) \in Int /\ D(m - 1) \in Int /\ Depth(program, m, m) \in Int
  <2>1. m \in Int /\ m - 1 \in Int /\ i \in Int /\ i <= m - 1 + 1 /\ m - 1 <= m /\ m - 1 + 1 = m
    BY <1>1
  <2> HIDE DEF n
  <2>2. DepthAdds(program, i, m - 1, m)
    BY <2>1, DepthSplit
  <2> QED
    BY <2>1, <2>2 DEF DepthAdds
<1>4. ASSUME NEW m \in Nat
      PROVE  /\ Depth(program, m, m) \in {-1, 0, 1}
             /\ Depth(program, m, m) = -1 => program[m].op = "end"
  <2>1. m \in Int
    OBVIOUS
  <2> QED
    BY <2>1, DepthOne
<1>5. D(n) <= 0
  <2>1. Depth(program, 1, i - 1) >= 0
    <3>1. CASE i = 1
      <4>1. Depth(program, 1, 1 - 1) = 0
        BY DepthOne
      <4> QED
        BY <3>1, <4>1
    <3>2. CASE i # 1
      <4>1. i - 1 \in 1..n
        BY <1>1, <3>2
      <4> QED
        BY <4>1 DEF WellFormed
    <3> QED
      BY <3>1, <3>2
  <2>2. Depth(program, 1, n) = 0
    BY DEF WellFormed
  <2>3. 1 \in Int /\ i - 1 \in Int /\ n \in Int /\ 1 <= i - 1 + 1 /\ i - 1 <= n /\ i - 1 + 1 = i
    BY <1>1
  <2>4. /\ Depth(program, 1, n) = Depth(program, 1, i - 1) + D(n)
        /\ Depth(program, 1, i - 1) \in Int /\ D(n) \in Int
    <3> HIDE DEF n
    <3>1. DepthAdds(program, 1, i - 1, n)
      BY <2>3, DepthSplit
    <3> QED
      BY <2>3, <3>1 DEF DepthAdds
  <2> HIDE DEF D, n
  <2> QED
    BY <2>1, <2>2, <2>4
<1> HIDE DEF D, n
<1>6. PICK c \in L : \A z \in L : c <= z
  <2>1. L \in SUBSET Nat /\ n \in L
    BY <1>1, <1>5
  <2> HIDE DEF L
  <2> QED
    BY <2>1, LeastElement
<1>7. c \in (i + 1)..n
  BY <1>1, <1>2, <1>6
<1>8. ASSUME NEW m \in i..(c - 1) PROVE D(m) > 0
  <2>1. m \in i..n /\ m < c
    BY <1>1, <1>7
  <2>2. ~ (D(m) <= 0)
    BY <1>6, <1>7, <2>1
  <2>3. D(m) \in Int
    BY <1>1, <1>2, <1>3, <2>1
  <2> QED
    BY <2>2, <2>3
<1>9. D(c) = 0 /\ program[c].op = "end"
  <2>1. D(c - 1) > 0 /\ D(c) <= 0
    BY <1>1, <1>6, <1>7, <1>8
  <2>2. c \in Nat
    BY <1>1, <1>7
  <2>3. Depth(program, c, c) \in {-1, 0, 1} /\ (Depth(program, c, c) = -1 => program[c].op = "end")
    BY <1>4, <2>2
  <2> QED
    BY <1>3, <1>7, <2>1, <2>3
<1>10. Close(i) = c
  <2> DEFINE S == {j \in i..n : D(j) = 0}
  <2>1. c \in S /\ \A z \in S : c <= z
    BY <1>6, <1>7, <1>9, <1>1
  <2>2. S \subseteq Nat
    BY <1>1
  <2>3. \A x \in S : (\A z \in S : x <= z) => x = c
    BY <2>1, <2>2
  <2>4. Min(S) = c
    <3> HIDE DEF S
    <3> QED
      BY <2>1, <2>3 DEF Min
  <2>5. Close(i) = Min(S)
    BY <1>1 DEF Close, D, n
  <2> QED
    BY <2>4, <2>5
<1> QED
  BY <1>7, <1>8, <1>9, <1>10 DEF D, n

(* Where the unit is that is analysed.                                     *)
LEMMA UnitExtent ==
    ASSUME WellFormed(program), unit \in Units
    PROVE  /\ unit \in Nat /\ Len(program) \in Nat /\ Close(unit) \in Nat
           /\ unit < Close(unit) /\ Close(unit) <= Len(program) + 1
           /\ unit = 0 => Close(unit) = Len(program) + 1
           /\ unit # 0 => unit \in 1..Len(program) /\ program[unit].op \in Opening
<1>1. Len(program) \in Nat
  BY DEF WellFormed
<1>2. CASE unit = 0
  BY <1>1, <1>2 DEF Close
<1>3. CASE unit # 0
  <2>1. unit \in 1..Len(program) /\ program[unit].op \in Opening
    BY <1>3 DEF Units, Opening
  <2>2. Close(unit) \in (unit + 1)..Len(program)
    BY <2>1, BlockCloses
  <2> QED
    BY <1>1, <1>3, <2>1, <2>2
<1> QED
  BY <1>2, <1>3

(* Inside a unit its block, if it is not the outermost one, is open; at    *)
(* its end nothing else is.                                                *)
Own == IF unit = 0 THEN 0 ELSE 1

\* Within a unit the depth is that of the unit at least, and again at its end.
LEMMA UnitDepth ==
    ASSUME WellFormed(program), unit \in Units
    PROVE  /\ \A m \in unit..(Close(unit) - 1) : Depth(program, First, m) >= Own
           /\ Depth(program, First, Close(unit) - 1) = Own
           /\ First \in Nat /\ First >= 1 /\ First <= unit + 1
<1>1. CASE unit = 0
  <2>1. /\ Len(program) \in Nat /\ First = 1 /\ Own = 0 /\ Close(unit) = Len(program) + 1
    BY <1>1, UnitExtent DEF First, Own
  <2>2. ASSUME NEW m \in unit..(Close(unit) - 1) PROVE Depth(program, First, m) >= Own
    <3>1. CASE m = 0
      <4>1. Depth(program, 1, 1 - 1) = 0
        BY DepthOne
      <4> QED
        BY <2>1, <3>1, <4>1
    <3>2. CASE m # 0
      <4>1. m \in 1..Len(program)
        BY <1>1, <2>1, <3>2
      <4> QED
        BY <2>1, <4>1 DEF WellFormed
    <3> QED
      BY <3>1, <3>2
  <2>3. Depth(program, First, Close(unit) - 1) = Own
    <3>1. Close(unit) - 1 = Len(program)
      BY <2>1
    <3> QED
      BY <2>1, <3>1 DEF WellFormed
  <2> QED
    BY <1>1, <2>1, <2>2, <2>3
<1>2. CASE unit # 0
  <2> DEFINE c == Close(unit)
  <2>1. /\ unit \in 1..Len(program) /\ program[unit].op \in Opening /\ Len(program) \in Nat
        /\ First = unit /\ Own = 1
    BY <1>2, UnitExtent DEF First, Own
  <2>2. /\ c \in (unit + 1)..Len(program) /\ Depth(program, unit, c) = 0
        /\ program[c].op = "end" /\ \A m \in unit..(c - 1) : Depth(program, unit, m) > 0
    BY <2>1, BlockCloses
  <2> HIDE DEF c
  <2>3. ASSUME NEW m \in unit..(c - 1) PROVE Depth(program, unit, m) >= 1
    <3>1. unit \in Int /\ m \in Int
      BY <2>1
    <3>2. Depth(program, unit, m) \in Int
      BY <3>1, DepthCounts
    <3> QED
      BY <2>2, <3>2
  <2>4. Depth(program, unit, c - 1) = 1
    <3>1. /\ unit \in Int /\ c \in Int /\ c - 1 \in Int /\ unit <= c - 1 + 1 /\ c - 1 <= c
          /\ c - 1 + 1 = c
      BY <2>1, <2>2
    <3>2. /\ Depth(program, unit, c) = Depth(program, unit, c - 1) + Depth(program, c, c)
          /\ Depth(program, unit, c - 1) \in Int
      <4>1. DepthAdds(program, unit, c - 1, c)
        BY <3>1, DepthSplit
      <4> QED
        BY <3>1, <4>1 DEF DepthAdds
    <3>3. Depth(program, c, c) = -1
      BY <2>2, <3>1, DepthOne
    <3> QED
      BY <2>2, <3>2, <3>3
  <2> QED
    BY <2>1, <2>3, <2>4 DEF c
<1> QED
  BY <1>1, <1>2
-----------------------------------------------------------------------------
(* Where the analysis is *)

\* Positions in what the analysis reads next.
LEMMA Here ==
    ASSUME PositionInvariant, at < Close(unit)
    PROVE  /\ at \in 1..Len(program) /\ at \in Nat /\ unit \in Nat /\ unit < at
           /\ at + 1 \in (unit + 1)..Close(unit)
           /\ Depth(program, First, at) = Depth(program, First, at - 1) + Depth(program, at, at)
           /\ Depth(program, First, at - 1) \in Int /\ Depth(program, at, at) \in Int
           /\ Depth(program, First, at) >= Own
<1>1. /\ unit \in Nat /\ Len(program) \in Nat /\ Close(unit) \in Nat
      /\ Close(unit) <= Len(program) + 1 /\ at \in (unit + 1)..Close(unit)
  BY UnitExtent DEF PositionInvariant
<1>2. at \in 1..Len(program) /\ at \in Nat /\ unit < at /\ at + 1 \in (unit + 1)..Close(unit)
  BY <1>1
<1>3. /\ First \in Nat /\ First <= unit + 1
      /\ \A m \in unit..(Close(unit) - 1) : Depth(program, First, m) >= Own
  BY UnitDepth DEF PositionInvariant
<1>4. /\ First \in Int /\ at - 1 \in Int /\ at \in Int /\ First <= at - 1 + 1 /\ at - 1 <= at
      /\ at - 1 + 1 = at
  BY <1>1, <1>2, <1>3
<1>5. /\ Depth(program, First, at) = Depth(program, First, at - 1) + Depth(program, at, at)
      /\ Depth(program, First, at - 1) \in Int /\ Depth(program, at, at) \in Int
  <2>1. DepthAdds(program, First, at - 1, at)
    BY <1>4, DepthSplit
  <2> QED
    BY <1>4, <2>1 DEF DepthAdds
<1>6. Depth(program, First, at) >= Own
  BY <1>1, <1>2, <1>3
<1> QED
  BY <1>1, <1>2, <1>5, <1>6

\* The unit of a program is not opened by an item, the others are.
LEMMA OwnIs == Own \in Nat /\ (IF unit = 0 THEN 0 ELSE 1) = Own
  BY DEF Own

(* What ends inside a unit is an if.                                       *)
LEMMA InIfAtEnd ==
    ASSUME PositionInvariant, frames \in Seq(Frame), at < Close(unit), program[at].op = "end"
    PROVE  Len(frames) > 0
<1>1. Depth(program, at, at) = -1
  BY Here, DepthOne
<1>2. Depth(program, First, at - 1) = Len(frames) + Own
  BY OwnIs DEF PositionInvariant
<1> QED
  BY <1>1, <1>2, Here, OwnIs

(* An else is in an if of its unit.                                        *)
LEMMA InIfAtElse ==
    ASSUME PositionInvariant, frames \in Seq(Frame), at < Close(unit), program[at].op = "else"
    PROVE  Len(frames) > 0
<1>1. at \in 1..Len(program) /\ at \in Nat /\ unit \in Nat /\ unit < at
  BY Here
<1>2. PICK j \in 1..(at - 1) :
         /\ program[j].op = "if" /\ OpenAt(program, j, at)
         /\ \A k \in (j + 1)..(at - 1) : program[k].op \in UnitOp => ~ OpenAt(program, k, at)
  BY <1>1 DEF PositionInvariant, WellFormed
<1>3. unit < j
  <2>1. CASE unit = 0
    BY <1>1, <2>1
  <2>2. CASE unit # 0
    <3>1. unit \in 1..Len(program) /\ program[unit].op \in UnitOp
      BY <2>2 DEF PositionInvariant, Units
    <3>2. Close(unit) \in Nat /\ \A m \in unit..(Close(unit) - 1) : Depth(program, unit, m) > 0
      BY <3>1, BlockCloses, UnitExtent DEF PositionInvariant, Opening
    <3>3. OpenAt(program, unit, at)
      BY <1>1, <3>2 DEF OpenAt
    <3>4. unit # j
      BY <1>2, <3>1 DEF UnitOp
    <3> QED
      BY <1>1, <1>2, <3>1, <3>3, <3>4
  <2> QED
    BY <2>1, <2>2
<1>4. Depth(program, j, at - 1) > 0
  BY <1>1 , <1>2 DEF OpenAt
<1>5. /\ First \in Nat /\ First <= unit + 1 /\ Close(unit) \in Nat
      /\ \A m \in unit..(Close(unit) - 1) : Depth(program, First, m) >= Own
  BY UnitDepth, UnitExtent DEF PositionInvariant
<1>6. Depth(program, First, j - 1) >= Own
  BY <1>1, <1>3, <1>5
<1>7. /\ First \in Int /\ j - 1 \in Int /\ at - 1 \in Int /\ First <= j - 1 + 1 /\ j - 1 <= at - 1
      /\ j - 1 + 1 = j
  BY <1>1, <1>3, <1>5
<1>8. /\ Depth(program, First, at - 1) = Depth(program, First, j - 1) + Depth(program, j, at - 1)
      /\ Depth(program, First, j - 1) \in Int /\ Depth(program, j, at - 1) \in Int
  <2> DEFINE b == j - 1
             c == at - 1
  <2>1. First \in Int /\ b \in Int /\ c \in Int /\ First <= b + 1 /\ b <= c /\ b + 1 = j
    BY <1>7
  <2> HIDE DEF b, c
  <2>2. /\ Depth(program, First, c) = Depth(program, First, b) + Depth(program, b + 1, c)
        /\ Depth(program, First, b) \in Int /\ Depth(program, b + 1, c) \in Int
    <3>1. DepthAdds(program, First, b, c)
      BY <2>1, DepthSplit
    <3> QED
      BY <2>1, <3>1 DEF DepthAdds
  <2> QED
    BY <2>1, <2>2 DEF b, c
<1>9. Depth(program, First, at - 1) = Len(frames) + Own
  BY OwnIs DEF PositionInvariant
<1> QED
  BY <1>4, <1>6, <1>8, <1>9, OwnIs

(* At the end of a unit no if is open.                                     *)
LEMMA InNoIfAtClose ==
    ASSUME PositionInvariant, frames \in Seq(Frame), at = Close(unit)
    PROVE  frames = << >>
<1>1. Depth(program, First, at - 1) = Len(frames) + Own
  BY OwnIs DEF PositionInvariant
<1>2. Depth(program, First, at - 1) = Own
  BY UnitDepth DEF PositionInvariant
<1>3. Len(frames) = 0
  BY <1>1, <1>2, OwnIs
<1> QED
  BY <1>3

(* Nor is there one where parameters are.                                  *)
LEMMA InNoIfAtParam ==
    ASSUME PositionInvariant, frames \in Seq(Frame), at < Close(unit), program[at].op = "param"
    PROVE  frames = << >>
<1>1. /\ at \in 1..Len(program) /\ at \in Nat /\ unit \in Nat /\ unit < at
  BY Here
<1>2. at = 1 \/ program[at - 1].op \in UnitOp \cup {"param"}
  BY <1>1 DEF PositionInvariant, WellFormed
<1>3. CASE at = unit + 1
  <2>1. Depth(program, First, at - 1) = Own
    <3>1. CASE unit = 0
      <4>1. First = 1 /\ Own = 0 /\ at = 1
        BY <1>3, <3>1 DEF First, Own
      <4>2. Depth(program, 1, 1 - 1) = 0
        BY DepthOne
      <4> QED
        BY <4>1, <4>2
    <3>2. CASE unit # 0
      <4>1. First = unit /\ Own = 1 /\ at - 1 = unit /\ unit \in Int
        BY <1>1, <1>3, <3>2 DEF First, Own
      <4>2. program[unit].op \in Opening
        BY <3>2, UnitExtent DEF PositionInvariant
      <4> QED
        BY <4>1, <4>2, DepthOne
    <3> QED
      BY <3>1, <3>2
  <2>2. Depth(program, First, at - 1) = Len(frames) + Own
    BY OwnIs DEF PositionInvariant
  <2>3. Len(frames) = 0
    BY <2>1, <2>2, OwnIs
  <2> QED
    BY <2>3
<1>4. CASE at # unit + 1
  <2>1. at > unit + 1 /\ at # 1
    BY <1>1, <1>4
  <2> QED
    BY <1>2, <2>1 DEF PositionInvariant
<1> QED
  BY <1>3, <1>4

\* What only depends on the program and the unit stays.
LEMMA SameUnit ==
    ASSUME UNCHANGED <<program, unit>>
    PROVE  /\ First' = First /\ Close(unit)' = Close(unit) /\ Units' = Units /\ Done' = Done
           /\ DeclaredIn(unit)' = DeclaredIn(unit)
<1>1. First' = First /\ Close(unit)' = Close(unit) /\ Units' = Units /\ Done' = Done
  BY DEF First, Close, Units, Done
<1>2. \A i : UnitOf(i)' = UnitOf(i)
  BY DEF UnitOf, Units, Close
<1> QED
  BY <1>1, <1>2 DEF DeclaredIn

(* The next item is one further; an if adds a frame and its end takes one. *)
LEMMA AdvanceKeepsPosition ==
    ASSUME PositionInvariant, frames \in Seq(Frame), at < Close(unit), at' = at + 1,
           UNCHANGED <<program, unit>>, program[at].op \notin UnitOp,
           Len(frames') = Len(frames) + Depth(program, at, at),
           program[at].op = "param" => frames' = << >>
    PROVE  PositionInvariant'
<1>1. First' = First /\ Close(unit)' = Close(unit) /\ Units' = Units
  BY SameUnit
<1>2. at \in Nat /\ at + 1 \in (unit + 1)..Close(unit)
  BY Here
<1>3. Depth(program, First, at) = Len(frames) + Depth(program, at, at) + Own
  <2>1. Depth(program, First, at - 1) = Len(frames) + Own
    BY OwnIs DEF PositionInvariant
  <2> QED
    BY <2>1, Here, OwnIs
<1>4. at' - 1 = at
  BY <1>2
<1>5. WellFormed(program') /\ unit' \in Units' /\ at' \in (unit' + 1)..Close(unit)'
  BY <1>1, <1>2 DEF PositionInvariant
<1>6. Depth(program', First', at' - 1) = Len(frames') + (IF unit' = 0 THEN 0 ELSE 1)
  BY <1>1, <1>3, <1>4 DEF Own
<1>7. program'[at' - 1].op \notin UnitOp /\ (program'[at' - 1].op = "param" => frames' = << >>)
  BY <1>4
<1> QED
  BY <1>5, <1>6, <1>7 DEF PositionInvariant

(* A unit in the unit is passed as a whole.                                *)
LEMMA SkipKeepsPosition ==
    ASSUME PositionInvariant, frames \in Seq(Frame), at < Close(unit), at' = Close(at) + 1,
           UNCHANGED <<program, unit, frames>>, program[at].op \in UnitOp
    PROVE  PositionInvariant'
<1> DEFINE c == Close(at)
<1>1. First' = First /\ Close(unit)' = Close(unit) /\ Units' = Units
  BY SameUnit
<1>2. at \in 1..Len(program) /\ at \in Nat /\ unit \in Nat /\ unit < at
  BY Here
<1>3. /\ c \in (at + 1)..Len(program) /\ Depth(program, at, c) = 0
      /\ program[c].op = "end" /\ \A m \in at..(c - 1) : Depth(program, at, m) > 0
  BY <1>2, BlockCloses DEF PositionInvariant, Opening
<1> HIDE DEF c
<1>4. /\ First \in Nat /\ First <= unit + 1 /\ Close(unit) \in Nat /\ Len(program) \in Nat
      /\ Close(unit) <= Len(program) + 1
      /\ unit = 0 => Close(unit) = Len(program) + 1
      /\ unit # 0 => unit \in 1..Len(program) /\ program[unit].op \in Opening
  BY UnitDepth, UnitExtent DEF PositionInvariant
<1>5. Depth(program, First, at - 1) = Len(frames) + Own
  BY OwnIs DEF PositionInvariant
<1>6. ASSUME NEW m \in at..c
      PROVE  /\ Depth(program, First, m) = Depth(program, First, at - 1) + Depth(program, at, m)
             /\ Depth(program, at, m) >= 0
  <2>1. /\ First \in Int /\ at - 1 \in Int /\ m \in Int /\ First <= at - 1 + 1 /\ at - 1 <= m
        /\ at - 1 + 1 = at /\ at \in Int
    BY <1>2, <1>3, <1>4
  <2>2. Depth(program, First, m) = Depth(program, First, at - 1) + Depth(program, at, m)
    <3>1. DepthAdds(program, First, at - 1, m)
      BY <2>1, DepthSplit
    <3> QED
      BY <2>1, <3>1 DEF DepthAdds
  <2>3. Depth(program, at, m) >= 0
    <3>1. CASE m = c
      BY <1>3, <3>1
    <3>2. CASE m # c
      <4>1. m \in at..(c - 1)
        BY <1>2, <1>3, <3>2
      <4>2. Depth(program, at, m) > 0 /\ Depth(program, at, m) \in Int
        BY <1>3, <2>1, <4>1, DepthCounts
      <4> QED
        BY <4>2
    <3> QED
      BY <3>1, <3>2
  <2> QED
    BY <2>2, <2>3
<1>7. c < Close(unit)
  <2>1. CASE unit = 0
    BY <1>3, <1>4, <2>1
  <2>2. CASE unit # 0
    <3>1. /\ Close(unit) \in Nat /\ Depth(program, unit, Close(unit)) = 0
          /\ First = unit /\ Own = 1
      BY <1>4, <2>2, BlockCloses DEF First, Own, PositionInvariant
    <3>2. ASSUME Close(unit) <= c PROVE FALSE
      <4>1. Close(unit) \in at..c
        BY <1>2, <1>3, <1>4, <3>2
      <4>2. /\ Depth(program, unit, Close(unit))
                 = Len(frames) + 1 + Depth(program, at, Close(unit))
            /\ Depth(program, at, Close(unit)) >= 0
        BY <1>5, <1>6, <3>1, <4>1
      <4>3. Depth(program, at, Close(unit)) \in Int
        BY <1>2, <3>1, DepthCounts
      <4> QED
        BY <3>1, <4>2, <4>3
    <3> QED
      BY <1>3, <1>4, <3>2
  <2> QED
    BY <2>1, <2>2
<1>8. at' = c + 1 /\ at' - 1 = c /\ at' \in (unit + 1)..Close(unit)
  BY <1>2, <1>3, <1>4, <1>7 DEF c
<1>9. Depth(program, First, c) = Len(frames) + Own
  <2>1. c \in at..c
    BY <1>2, <1>3
  <2>2. Depth(program, First, c) = Depth(program, First, at - 1) + Depth(program, at, c)
    BY <1>6, <2>1
  <2> QED
    BY <1>3, <1>5, <2>2, OwnIs
<1>10. WellFormed(program') /\ unit' \in Units' /\ at' \in (unit' + 1)..Close(unit)'
  BY <1>1, <1>8 DEF PositionInvariant
<1>11. Depth(program', First', at' - 1) = Len(frames') + (IF unit' = 0 THEN 0 ELSE 1)
  BY <1>1, <1>8, <1>9 DEF Own
<1>12. program'[at' - 1].op \notin UnitOp /\ program'[at' - 1].op # "param"
  BY <1>3, <1>8 DEF UnitOp
<1> QED
  BY <1>10, <1>11, <1>12 DEF PositionInvariant

(* There is a unit that closes next, and one that closes first.            *)
LEMMA UnitsClose ==
    ASSUME WellFormed(program), NEW S \in SUBSET Units, S # {}
    PROVE  /\ \A u \in S : Close(u) \in Nat /\ u \in Nat /\ u < Close(u)
           /\ \E u \in S : \A v \in S : Close(u) <= Close(v)
<1>1. ASSUME NEW u \in Units PROVE Close(u) \in Nat /\ u \in Nat /\ u < Close(u)
  <2>1. Len(program) \in Nat
    BY DEF WellFormed
  <2>2. CASE u = 0
    BY <2>1, <2>2 DEF Close
  <2>3. CASE u # 0
    <3>1. u \in 1..Len(program) /\ program[u].op \in Opening
      BY <2>3 DEF Units, Opening
    <3>2. Close(u) \in (u + 1)..Len(program)
      BY <3>1, BlockCloses
    <3> QED
      BY <2>1, <3>1, <3>2
  <2> QED
    BY <2>2, <2>3
<1> DEFINE C == {Close(u) : u \in S}
<1>2. C \in SUBSET Nat /\ C # {}
  BY <1>1
<1>3. PICK c \in C : \A d \in C : c <= d
  <2> HIDE DEF C
  <2> QED
    BY <1>2, LeastElement
<1>4. PICK u \in S : c = Close(u)
  BY <1>3
<1>5. \A v \in S : Close(u) <= Close(v)
  BY <1>3, <1>4
<1> QED
  BY <1>1, <1>5

(* A unit is entered at its first item.                                    *)
LEMMA EnterPosition ==
    ASSUME WellFormed(program), unit \in Units, at = unit + 1, frames = << >>
    PROVE  PositionInvariant
<1>1. unit \in Nat /\ Close(unit) \in Nat /\ unit < Close(unit)
  BY UnitExtent
<1>2. at \in (unit + 1)..Close(unit) /\ at - 1 = unit /\ ~ (at > unit + 1)
  BY <1>1
<1>3. Depth(program, First, unit) = IF unit = 0 THEN 0 ELSE 1
  <2>1. CASE unit = 0
    <3>1. First = 1
      BY <2>1 DEF First
    <3> QED
      BY <2>1, <3>1, DepthNothing
  <2>2. CASE unit # 0
    <3>1. First = unit /\ program[unit].op \in Opening
      BY <2>2, UnitExtent DEF First
    <3> QED
      BY <1>1, <2>2, <3>1, DepthOne
  <2> QED
    BY <2>1, <2>2
<1>4. Len(frames) = 0
  BY DEF Frame
<1> QED
  BY <1>2, <1>3, <1>4 DEF PositionInvariant
-----------------------------------------------------------------------------
(* What is initialized *)

\* What items name are variables.
LEMMA VarTyped ==
    ASSUME WellFormed(program)
    PROVE  /\ \A i \in 1..Len(program) : program[i].op \in Naming => program[i].of \in Var
           /\ \A u : Free(u) \subseteq Var
<1>1. ASSUME NEW i \in 1..Len(program), program[i].op \in Naming PROVE program[i].of \in Var
  <2>1. program[i] \in Item
    BY DEF WellFormed
  <2>2. CASE program[i] \in [op : Declaring \cup {"assign", "use"}, of : Var]
    BY <2>2
  <2>3. CASE program[i] \in [op : {"class", "new"}, of : Class]
    BY <1>1, <2>3 DEF Naming, Declaring
  <2>4. CASE program[i] \in [op : {"if", "else", "end", "fun"}]
    BY <1>1, <2>4 DEF Naming, Declaring
  <2> QED
    BY <2>1, <2>2, <2>3, <2>4 DEF Item
<1> QED
  BY <1>1 DEF Free, Within

\* The variables saved by frames depend on nothing else.
LEMMA SavedSame ==
    ASSUME NEW fs, NEW gs, NEW k, \A j \in 1..k : fs[j].saved = gs[j].saved
    PROVE  SavedIn(fs, k) = SavedIn(gs, k)
  BY DEF SavedIn

\* The variables saved by the frames are those of the last and of the others.
LEMMA SavedSplit ==
    ASSUME NEW fs, NEW n \in Nat, n > 0
    PROVE  SavedIn(fs, n) = SavedIn(fs, n - 1) \cup fs[n].saved
<1>1. 1..n = 1..(n - 1) \cup {n}
  OBVIOUS
<1>2. {fs[j].saved : j \in 1..n} = {fs[j].saved : j \in 1..(n - 1)} \cup {fs[n].saved}
  BY <1>1
<1> QED
  BY <1>2 DEF SavedIn

\* No frames save no variables.
LEMMA SavedNone == ASSUME NEW fs PROVE SavedIn(fs, 0) = {}
  BY DEF SavedIn

\* What the frames save are variables.
LEMMA SavedTyped ==
    ASSUME NEW fs \in Seq(Frame), NEW k \in 0..Len(fs)
    PROVE  SavedIn(fs, k) \subseteq Var
<1>1. \A j \in 1..k : fs[j] \in Frame
  OBVIOUS
<1>2. \A f \in Frame : f.saved \subseteq Var
  BY DEF Frame
<1> QED
  BY <1>1, <1>2 DEF SavedIn

(* Ways on which W has been assigned as well.                              *)
LEMMA WaysWith ==
    ASSUME NEW S, NEW I, AssignedOnAll(S, I), NEW W, NEW T,
           \A q \in T : \E p \in S : q.assigned = p.assigned \cup W,
           \A p \in S : \E q \in T : q.assigned = p.assigned \cup W
    PROVE  AssignedOnAll(T, I \cup W)
  BY DEF AssignedOnAll

\* The new ways agree with the flags if the parts of the state do.
LEMMA WaysAfter ==
    ASSUME UNCHANGED <<program, unit>>,
           AssignedOnAll(paths', initialized'),
           \A k \in 1..Len(frames') :
              /\ AssignedOnAll(branches'[k].into, SavedIn(frames', k))
              /\ AssignedOnAll(branches'[k].through, SavedIn(frames', k) \cup frames'[k].thenInits)
    PROVE  WaysInvariant'
  BY SameUnit DEF WaysInvariant, AssignedOnAll

Inner == AnalysisTypeOK /\ ScopesInvariant /\ WaysInvariant

\* The ways in T are those so far, on which W has been assigned as well.
AssignedToo(T, W) ==
    /\ T \subseteq Path
    /\ \A q \in T : \E p \in paths : q.assigned = p.assigned \cup W
    /\ \A p \in paths : \E q \in T : q.assigned = p.assigned \cup W

(* What is assigned on every way, and was not yet initialized, becomes so  *)
(* in the current branch (W holds the variable assigned, or nothing).      *)
LEMMA AssignKeeps ==
    ASSUME Inner, NEW W \in SUBSET Var, UNCHANGED <<program, unit, frames, branches>>,
           initialized' = initialized \cup W,
           initCurScope' = initCurScope \cup (W \ initialized),
           AssignedToo(paths', W)
    PROVE  Inner'
<1>1. AnalysisTypeOK'
  BY DEF Inner, AnalysisTypeOK, AssignedToo
<1>2. ScopesInvariant'
  BY DEF Inner, ScopesInvariant
<1>3. AssignedOnAll(paths', initialized')
  BY WaysWith DEF Inner, WaysInvariant, AssignedToo
<1>4. WaysInvariant'
  BY <1>3, WaysAfter DEF Inner, WaysInvariant
<1> QED
  BY <1>1, <1>2, <1>4 DEF Inner

\* Entering a conditional keeps the flags and the ways in step.
LEMMA IfKeeps ==
    ASSUME Inner, If, PathIf
    PROVE  Inner'
<1> DEFINE n == Len(frames)
           f == [saved |-> initCurScope, thenInits |-> {}, elseMet |-> FALSE]
           b == [into |-> paths, through |-> paths]
<1>1. /\ frames' = Append(frames, f) /\ initCurScope' = {} /\ initialized' = initialized
      /\ branches' = Append(branches, b) /\ UNCHANGED <<program, unit, paths>>
  BY DEF If, PathIf, Advance, flags
<1>2. /\ frames \in Seq(Frame) /\ initCurScope \subseteq Var /\ initialized \subseteq Var
      /\ paths \subseteq Path /\ Len(branches) = n /\ n \in Nat
      /\ branches \in Seq([into : SUBSET Path, through : SUBSET Path])
  BY DEF Inner, AnalysisTypeOK
<1>3. f \in Frame /\ b \in [into : SUBSET Path, through : SUBSET Path]
  BY <1>2 DEF Frame
<1>4. f.saved = initCurScope /\ f.thenInits = {} /\ b.into = paths /\ b.through = paths
  OBVIOUS
<1> HIDE DEF f, b
<1>5. /\ frames' \in Seq(Frame) /\ Len(frames') = n + 1 /\ Len(branches') = n + 1
      /\ branches' \in Seq([into : SUBSET Path, through : SUBSET Path])
      /\ \A k \in 1..n : frames'[k] = frames[k] /\ branches'[k] = branches[k]
      /\ frames'[n + 1] = f /\ branches'[n + 1] = b
  BY <1>1, <1>2, <1>3
<1> HIDE DEF n
<1>6. \A k \in 0..n : SavedIn(frames', k) = SavedIn(frames, k)
  BY <1>2, <1>5, SavedSame
<1>7. SavedIn(frames', n + 1) = initialized
  <2>1. n + 1 \in Nat /\ n + 1 > 0 /\ n + 1 - 1 = n /\ n \in 0..n
    BY <1>2
  <2>2. SavedIn(frames', n + 1) = SavedIn(frames', n) \cup frames'[n + 1].saved
    BY <2>1, SavedSplit
  <2> QED
    BY <1>4, <1>5, <1>6, <2>1, <2>2 DEF Inner, ScopesInvariant, n
<1>8. AnalysisTypeOK'
  BY <1>1, <1>2, <1>5 DEF AnalysisTypeOK
<1>9. ScopesInvariant'
  <2>1. ASSUME NEW k \in 1..(n + 1)
        PROVE  /\ frames'[k].saved \cap SavedIn(frames', k - 1) = {}
               /\ frames'[k].thenInits \cap SavedIn(frames', k) = {}
               /\ ~ frames'[k].elseMet => frames'[k].thenInits = {}
    <3>1. CASE k = n + 1
      <4>1. SavedIn(frames', k - 1) = SavedIn(frames, n)
        BY <1>2, <1>6, <3>1
      <4>2. initCurScope \cap SavedIn(frames, n) = {}
        BY DEF Inner, ScopesInvariant, n
      <4> QED
        BY <1>4, <1>5, <3>1, <4>1, <4>2
    <3>2. CASE k # n + 1
      <4>1. k \in 1..n /\ k \in 0..n /\ k - 1 \in 0..n
        BY <1>2, <3>2
      <4> QED
        BY <1>5, <1>6, <4>1 DEF Inner, ScopesInvariant, n
    <3> QED
      BY <3>1, <3>2
  <2> QED
    BY <1>1, <1>5, <1>7, <2>1 DEF ScopesInvariant
<1>10. WaysInvariant'
  <2>1. AssignedOnAll(paths', initialized')
    BY <1>1 DEF Inner, WaysInvariant
  <2>2. ASSUME NEW k \in 1..(n + 1)
        PROVE  /\ AssignedOnAll(branches'[k].into, SavedIn(frames', k))
               /\ AssignedOnAll(branches'[k].through, SavedIn(frames', k) \cup frames'[k].thenInits)
    <3>1. CASE k = n + 1
      <4>1. initialized \cup {} = initialized
        OBVIOUS
      <4> QED
        BY <1>4, <1>5, <1>7, <3>1, <4>1 DEF Inner, WaysInvariant
    <3>2. CASE k # n + 1
      <4>1. k \in 1..n /\ k \in 0..n
        BY <1>2, <3>2
      <4> QED
        BY <1>5, <1>6, <4>1 DEF Inner, WaysInvariant, n
    <3> QED
      BY <3>1, <3>2
  <2> QED
    BY <1>1, <1>5, <2>1, <2>2, WaysAfter
<1> QED
  BY <1>8, <1>9, <1>10 DEF Inner

\* So does going from its first branch to the second.
LEMMA ElseKeeps ==
    ASSUME Inner, Else, PathElse, Len(frames) > 0
    PROVE  Inner'
<1> DEFINE n == Len(frames)
           f == [frames[n] EXCEPT !.thenInits = initCurScope, !.elseMet = TRUE]
           b == [into |-> branches[n].into, through |-> paths]
           Branch == [into : SUBSET Path, through : SUBSET Path]
<1>1. /\ frames \in Seq(Frame) /\ initCurScope \subseteq Var /\ initialized \subseteq Var
      /\ paths \subseteq Path /\ Len(branches) = n /\ n \in Nat /\ n \in 1..n
      /\ branches \in Seq(Branch)
  BY DEF Inner, AnalysisTypeOK
<1>2. /\ frames' = [frames EXCEPT ![n].thenInits = initCurScope, ![n].elseMet = TRUE]
      /\ initialized' = initialized \ initCurScope /\ initCurScope' = {}
      /\ branches' = [branches EXCEPT ![n].through = paths]
      /\ paths' = branches[n].into /\ UNCHANGED <<program, unit>>
  BY <1>1 DEF Else, PathElse, Advance
<1>3. frames[n] \in Frame /\ branches[n] \in Branch
  <2> HIDE DEF Branch
  <2> QED
    BY <1>1
<1>4. b \in Branch /\ f \in Frame /\ f.saved = frames[n].saved /\ f.thenInits = initCurScope /\ f.elseMet
  <2>1. ASSUME NEW r \in Frame
        PROVE  LET q == [r EXCEPT !.thenInits = initCurScope, !.elseMet = TRUE]
               IN  q \in Frame /\ q.saved = r.saved /\ q.thenInits = initCurScope /\ q.elseMet
    BY <1>1 DEF Frame
  <2>2. b \in Branch
    BY <1>1, <1>3
  <2> QED
    BY <1>3, <2>1, <2>2
<1>5. frames' = [frames EXCEPT ![n] = f]
  BY <1>1, <1>2
<1>6. branches' = [branches EXCEPT ![n] = b]
  <2>1. branches[n] = [into |-> branches[n].into, through |-> branches[n].through]
    BY <1>3
  <2>2. [branches[n] EXCEPT !.through = paths] = b
    BY <2>1
  <2>3. branches' = [branches EXCEPT ![n] = [branches[n] EXCEPT !.through = paths]]
    BY <1>1, <1>2
  <2> HIDE DEF b
  <2> QED
    BY <2>2, <2>3
<1>7. /\ b.into = branches[n].into /\ b.through = paths
  OBVIOUS
<1> HIDE DEF f, b
<1>8. /\ frames' \in Seq(Frame) /\ Len(frames') = n /\ Len(branches') = n /\ branches' \in Seq(Branch)
      /\ \A k \in 1..(n - 1) : frames'[k] = frames[k] /\ branches'[k] = branches[k]
      /\ frames'[n] = f /\ branches'[n] = b
  <2> HIDE DEF Branch
  <2> QED
    BY <1>1, <1>4, <1>5, <1>6
<1> HIDE DEF n
<1>9. \A k \in 0..n : SavedIn(frames', k) = SavedIn(frames, k)
  <2>1. \A k \in 1..n : frames'[k].saved = frames[k].saved
    BY <1>1, <1>4, <1>7, <1>8
  <2>2. ASSUME NEW k \in 0..n PROVE SavedIn(frames', k) = SavedIn(frames, k)
    <3>1. \A j \in 1..k : frames'[j].saved = frames[j].saved
      BY <1>1, <2>1
    <3> QED
      BY <3>1, SavedSame
  <2> QED
    BY <2>2
<1>10. initialized' = SavedIn(frames, n) /\ initialized = SavedIn(frames, n) \cup initCurScope
  BY <1>2 DEF Inner, ScopesInvariant, n
<1>11. n \in 0..n /\ n \in 1..n
  BY <1>1
<1>12. AnalysisTypeOK'
  <2>1. branches[n].into \subseteq Path
    BY <1>3
  <2> QED
    BY <1>1, <1>2, <1>8, <2>1 DEF AnalysisTypeOK
<1>13. ScopesInvariant'
  <2>1. ASSUME NEW k \in 1..n
        PROVE  /\ frames'[k].saved \cap SavedIn(frames', k - 1) = {}
               /\ frames'[k].thenInits \cap SavedIn(frames', k) = {}
               /\ ~ frames'[k].elseMet => frames'[k].thenInits = {}
    <3>1. k \in 0..n /\ k - 1 \in 0..n
      BY <1>1
    <3>2. SavedIn(frames', k) = SavedIn(frames, k) /\ SavedIn(frames', k - 1) = SavedIn(frames, k - 1)
      BY <1>9, <3>1
    <3>3. CASE k = n
      BY <1>4, <1>7, <1>8, <3>2, <3>3 DEF Inner, ScopesInvariant, n
    <3>4. CASE k # n
      <4>1. k \in 1..(n - 1)
        BY <1>1, <3>4
      <4> QED
        BY <1>8, <3>2, <4>1 DEF Inner, ScopesInvariant, n
    <3> QED
      BY <3>3, <3>4
  <2> QED
    BY <1>2, <1>8, <1>9, <1>10, <1>11, <2>1 DEF ScopesInvariant
<1>14. WaysInvariant'
  <2>1. AssignedOnAll(paths', initialized')
    BY <1>2, <1>10, <1>11 DEF Inner, WaysInvariant, n
  <2>2. ASSUME NEW k \in 1..n
        PROVE  /\ AssignedOnAll(branches'[k].into, SavedIn(frames', k))
               /\ AssignedOnAll(branches'[k].through, SavedIn(frames', k) \cup frames'[k].thenInits)
    <3>1. SavedIn(frames', k) = SavedIn(frames, k)
      <4>1. k \in 0..n
        BY <1>1
      <4> QED
        BY <1>9, <4>1
    <3>2. CASE k = n
      <4>1. AssignedOnAll(paths, SavedIn(frames, n) \cup initCurScope)
        BY <1>10 DEF Inner, WaysInvariant
      <4> QED
        BY <1>4, <1>7, <1>8, <1>11, <3>1, <3>2, <4>1 DEF Inner, WaysInvariant, n
    <3>3. CASE k # n
      <4>1. k \in 1..(n - 1)
        BY <1>1, <3>3
      <4> QED
        BY <1>8, <3>1, <4>1 DEF Inner, WaysInvariant, n
    <3> QED
      BY <3>2, <3>3
  <2> QED
    BY <1>2, <1>8, <2>1, <2>2, WaysAfter
<1> QED
  BY <1>12, <1>13, <1>14 DEF Inner

(* After an if: what is assigned on the ways through both branches.        *)
LEMMA WaysJoin ==
    ASSUME NEW S, NEW I, NEW T, NEW J, AssignedOnAll(S, I), AssignedOnAll(T, J)
    PROVE  AssignedOnAll(S \cup T, I \cap J)
  BY DEF AssignedOnAll

\* So does leaving it: initialized is what both branches assigned.
LEMMA EndIfKeeps ==
    ASSUME Inner, EndIf, PathEndIf, Len(frames) > 0
    PROVE  Inner'
<1> DEFINE n == Len(frames)
           both == BothInits(frames[n])
           Branch == [into : SUBSET Path, through : SUBSET Path]
<1>1. /\ frames \in Seq(Frame) /\ initCurScope \subseteq Var /\ initialized \subseteq Var
      /\ paths \subseteq Path /\ Len(branches) = n /\ n \in Nat /\ n > 0 /\ n \in 1..n
      /\ branches \in Seq(Branch)
  BY DEF Inner, AnalysisTypeOK
<1>2. /\ frames' = SubSeq(frames, 1, n - 1)
      /\ initialized' = (initialized \ initCurScope) \cup both
      /\ initCurScope' = frames[n].saved \cup both
      /\ branches' = SubSeq(branches, 1, n - 1)
      /\ paths' = paths \cup branches[n].through /\ UNCHANGED <<program, unit>>
  BY <1>1 DEF EndIf, PathEndIf, Advance
<1>3. frames[n] \in Frame /\ branches[n] \in Branch
  <2> HIDE DEF Branch
  <2> QED
    BY <1>1
<1>4. /\ frames' \in Seq(Frame) /\ Len(frames') = n - 1
      /\ \A k \in 1..(n - 1) : frames'[k] = frames[k]
  BY <1>1, <1>2, FrontOfSeq
<1>5. /\ branches' \in Seq(Branch) /\ Len(branches') = n - 1
      /\ \A k \in 1..(n - 1) : branches'[k] = branches[k]
  <2> HIDE DEF Branch
  <2> QED
    BY <1>1, <1>2, FrontOfSeq
<1>6. /\ both \subseteq initCurScope
      /\ both = frames[n].thenInits \cap initCurScope
  <2>1. ~ frames[n].elseMet => frames[n].thenInits = {}
    BY <1>1 DEF Inner, ScopesInvariant
  <2> QED
    BY <2>1 DEF BothInits
<1> HIDE DEF both
<1>7. ASSUME NEW k \in 0..(n - 1) PROVE SavedIn(frames', k) = SavedIn(frames, k)
  <2>1. \A j \in 1..k : j \in 1..(n - 1)
    <3> HIDE DEF n
    <3> QED
      BY <1>1
  <2>2. \A j \in 1..k : frames'[j].saved = frames[j].saved
    BY <1>4, <2>1
  <2> QED
    BY <2>2, SavedSame
<1>8. SavedIn(frames, n) = SavedIn(frames, n - 1) \cup frames[n].saved
  BY <1>1, SavedSplit
<1>9. /\ initialized = initCurScope \cup SavedIn(frames, n)
      /\ initCurScope \cap SavedIn(frames, n) = {}
      /\ frames[n].saved \cap SavedIn(frames, n - 1) = {}
  BY <1>1 DEF Inner, ScopesInvariant
<1>10. n - 1 \in 0..(n - 1) /\ n - 1 \in Nat
  BY <1>1
<1>11. SavedIn(frames', n - 1) = SavedIn(frames, n - 1)
  BY <1>7, <1>10
<1>12. AnalysisTypeOK'
  <2>1. branches[n].through \subseteq Path /\ frames[n].saved \subseteq Var
    BY <1>3 DEF Frame
  <2> QED
    BY <1>1, <1>2, <1>4, <1>5, <1>6, <2>1 DEF AnalysisTypeOK
<1>13. ScopesInvariant'
  <2>1. ASSUME NEW k \in 1..(n - 1)
        PROVE  /\ frames'[k].saved \cap SavedIn(frames', k - 1) = {}
               /\ frames'[k].thenInits \cap SavedIn(frames', k) = {}
               /\ ~ frames'[k].elseMet => frames'[k].thenInits = {}
    <3>1. k \in 0..(n - 1) /\ k - 1 \in 0..(n - 1) /\ k \in 1..n
      BY <1>1
    <3>2. SavedIn(frames', k) = SavedIn(frames, k) /\ SavedIn(frames', k - 1) = SavedIn(frames, k - 1)
      BY <1>7, <3>1
    <3> QED
      BY <1>4, <3>1, <3>2 DEF Inner, ScopesInvariant, n
  <2>2. /\ initialized' = initCurScope' \cup SavedIn(frames', n - 1)
        /\ initCurScope' \cap SavedIn(frames', n - 1) = {}
    BY <1>2, <1>6, <1>8, <1>9, <1>11
  <2> QED
    BY <1>4, <2>1, <2>2 DEF ScopesInvariant
<1>14. WaysInvariant'
  <2>1. AssignedOnAll(paths', initialized')
    <3>1. /\ AssignedOnAll(paths, initialized)
          /\ AssignedOnAll(branches[n].through, SavedIn(frames, n) \cup frames[n].thenInits)
      BY <1>1 DEF Inner, WaysInvariant
    <3>2. initialized' = initialized \cap (SavedIn(frames, n) \cup frames[n].thenInits)
      BY <1>2, <1>6, <1>9
    <3>3. AssignedOnAll(paths \cup branches[n].through,
                        initialized \cap (SavedIn(frames, n) \cup frames[n].thenInits))
      BY <3>1, WaysJoin
    <3> QED
      BY <1>2, <3>2, <3>3
  <2>2. ASSUME NEW k \in 1..(n - 1)
        PROVE  /\ AssignedOnAll(branches'[k].into, SavedIn(frames', k))
               /\ AssignedOnAll(branches'[k].through, SavedIn(frames', k) \cup frames'[k].thenInits)
    <3>1. k \in 0..(n - 1) /\ k \in 1..n
      BY <1>1
    <3>2. SavedIn(frames', k) = SavedIn(frames, k)
      BY <1>7, <3>1
    <3> QED
      BY <1>4, <1>5, <3>1, <3>2 DEF Inner, WaysInvariant, n
  <2> QED
    BY <1>2, <1>4, <2>1, <2>2, WaysAfter
<1> QED
  BY <1>12, <1>13, <1>14 DEF Inner

-----------------------------------------------------------------------------
(* The steps *)

(* A unit is entered, at first or when the one before it is analysed.      *)
Entered ==
    /\ WellFormed(program) /\ unit \in Units /\ at = unit + 1
    /\ frames = << >> /\ branches = << >>
    /\ initialized = {} /\ initCurScope = {} /\ paths = Enter(unit)

\* The flags and the ways agree where a unit begins.
LEMMA EnterKeeps == Entered => AssignmentInvariant
<1> SUFFICES ASSUME Entered PROVE AssignmentInvariant
  OBVIOUS
<1>1. PositionInvariant
  BY EnterPosition DEF Entered
<1>2. AnalysisTypeOK
  <2> DEFINE outer == Var \ DeclaredIn(unit)
  <2>1. outer \in SUBSET Var
    OBVIOUS
  <2> HIDE DEF outer
  <2>2. [declared |-> outer, assigned |-> outer, captured |-> outer] \in Path
    BY <2>1 DEF Path
  <2>3. paths \subseteq Path
    BY <2>2 DEF Entered, Enter, outer
  <2> DEFINE Branch == [into : SUBSET Path, through : SUBSET Path]
  <2>4. \A S : << >> \in Seq(S) /\ Len(<< >>) = 0
    OBVIOUS
  <2>5. branches \in Seq(Branch)
    BY <2>4 DEF Entered
  <2> QED
    BY <2>3, <2>4, <2>5 DEF Entered, AnalysisTypeOK
<1>3. Len(frames) = 0 /\ \A k \in 1..Len(frames) : FALSE
  BY DEF Entered
<1>4. ScopesInvariant
  BY <1>3, SavedNone DEF Entered, ScopesInvariant
<1>5. WaysInvariant
  <2>1. AssignedOnAll(paths, initialized)
    BY DEF Entered, Enter, AssignedOnAll
  <2> QED
    BY <1>3, <2>1 DEF WaysInvariant
<1> QED
  BY <1>1, <1>2, <1>4, <1>5 DEF AssignmentInvariant

\* The same for the next state.
LEMMA EnterNext == Entered' => AssignmentInvariant'
  BY EnterKeeps, PTL

\* They agree at first.
LEMMA InitAssigned ==
    ASSUME Init
    PROVE  AssignmentInvariant
<1>1. WellFormed(program)
  BY ProgramsAssumption DEF Init, AnalysisInit
<1>2. FirstUnit \in Units
  <2>1. Units \in SUBSET Units /\ Units # {}
    BY DEF Units
  <2>2. \E u \in Units : \A v \in Units : Close(u) <= Close(v)
    BY <1>1, <2>1, UnitsClose
  <2> QED
    BY <2>2 DEF FirstUnit
<1> QED
  BY <1>1, <1>2, EnterKeeps DEF Init, AnalysisInit, PathInit, Entered

\* They agree when the visit goes on with another unit.
LEMMA EndUnitKeeps ==
    ASSUME AssignmentInvariant, EndUnit, PathEnd
    PROVE  AssignmentInvariant'
<1>1. ~ Done /\ PositionInvariant /\ AnalysisTypeOK /\ ScopesInvariant /\ at = Close(unit)
  BY DEF EndUnit, AssignmentInvariant
<1>2. program' = program /\ frames' = frames /\ branches' = branches /\ WellFormed(program)
  BY <1>1 DEF EndUnit, PathEnd, PositionInvariant
<1>3. frames = << >> /\ branches = << >>
  <2>1. frames = << >>
    BY <1>1, InNoIfAtClose DEF AnalysisTypeOK
  <2>2. Len(branches) = 0
    BY <1>1, <2>1 DEF AnalysisTypeOK
  <2> DEFINE Branch == [into : SUBSET Path, through : SUBSET Path]
  <2>3. branches \in Seq(Branch)
    BY <1>1 DEF AnalysisTypeOK
  <2> HIDE DEF Branch
  <2> QED
    BY <2>1, <2>2, <2>3
<1>4. initialized' = {} /\ initCurScope' = {}
  <2>1. initialized = initCurScope
    BY <1>1, <1>3, SavedNone DEF ScopesInvariant
  <2> QED
    BY <2>1 DEF EndUnit
<1>5. CASE unit = 0
  <2>1. Done'
    BY <1>2, <1>5 DEF EndUnit, Done
  <2> QED
    BY <2>1 DEF AssignmentInvariant
<1>6. CASE unit # 0
  <2> DEFINE later == {v \in Units : Close(v) > Close(unit)}
  <2>1. 0 \in later /\ later \in SUBSET Units
    <3>1. Close(unit) \in 1..Len(program)
      <4>1. unit \in 1..Len(program) /\ program[unit].op \in Opening
        BY <1>1, <1>6, UnitExtent DEF PositionInvariant
      <4>2. Close(unit) \in (unit + 1)..Len(program)
        BY <1>2, <4>1, BlockCloses
      <4> QED
        BY <4>1, <4>2
    <3>2. Close(0) = Len(program) + 1 /\ Len(program) \in Nat
      BY <1>2 DEF Close, WellFormed
    <3> QED
      BY <3>1, <3>2 DEF Units
  <2>2. \E v \in later : \A w \in later : Close(v) <= Close(w)
    <3> HIDE DEF later
    <3> QED
      BY <1>2, <2>1, UnitsClose
  <2>3. NextUnit(unit) \in Units
    BY <2>2 DEF NextUnit
  <2>4. unit' = NextUnit(unit) /\ at' = unit' + 1 /\ paths' = Enter(unit')
    BY <1>6 DEF EndUnit, PathEnd
  <2>5. Units' = Units /\ Enter(unit)' = Enter(unit')
    <3>1. Units' = Units /\ \A i : Close(i)' = Close(i)
      BY <1>2 DEF Units, Close
    <3>2. \A i : UnitOf(i)' = UnitOf(i)
      BY <3>1 DEF UnitOf
    <3>3. DeclaredIn(unit)' = DeclaredIn(unit')
      BY <1>2, <3>2 DEF DeclaredIn
    <3> QED
      BY <3>1, <3>3 DEF Enter
  <2>6. Entered'
    BY <1>2, <1>3, <1>4, <2>3, <2>4, <2>5 DEF Entered
  <2> QED
    BY <2>6, EnterNext
<1> QED
  BY <1>5, <1>6

(* The items that do not enter or leave a unit.                            *)
LEMMA AdvanceKeeps ==
    ASSUME AssignmentInvariant, ~ Done, at < Close(unit), at' = at + 1,
           UNCHANGED <<program, unit>>, program[at].op \notin UnitOp,
           Len(frames') = Len(frames) + Depth(program, at, at),
           program[at].op = "param" => frames' = << >>,
           Inner'
    PROVE  AssignmentInvariant'
<1>1. PositionInvariant /\ frames \in Seq(Frame)
  BY DEF AssignmentInvariant, AnalysisTypeOK
<1>2. PositionInvariant'
  BY <1>1, AdvanceKeepsPosition
<1> QED
  BY <1>2 DEF AssignmentInvariant, Inner

(* Those that leave the branches as they are, and on which W is assigned.  *)
LEMMA ItemKeeps ==
    ASSUME AssignmentInvariant, ~ Done, at < Close(unit), at' = at + 1,
           UNCHANGED <<program, unit, frames, branches>>,
           program[at].op \notin Opening \cup {"end"},
           NEW W \in SUBSET Var,
           initialized' = initialized \cup W,
           initCurScope' = initCurScope \cup (W \ initialized),
           AssignedToo(paths', W)
    PROVE  AssignmentInvariant'
<1>1. PositionInvariant /\ frames \in Seq(Frame) /\ Inner
  BY DEF AssignmentInvariant, AnalysisTypeOK, Inner
<1>2. Inner'
  BY <1>1, AssignKeeps
<1>3. program[at].op = "param" => frames' = << >>
  BY <1>1, InNoIfAtParam
<1>4. program[at].op \notin UnitOp
  BY DEF Opening
<1>5. Len(frames') = Len(frames) + Depth(program, at, at)
  <2>1. Depth(program, at, at) = 0 /\ Len(frames) \in Nat
    BY <1>1, Here, DepthOne
  <2> QED
    BY <2>1
<1> QED
  BY <1>2, <1>3, <1>4, <1>5, AdvanceKeeps

Declared(W) == {[p EXCEPT !.declared = @ \cup W] : p \in paths}
Assigned(W) == {[p EXCEPT !.assigned = @ \cup W] : p \in paths}
Defined(W) == {[p EXCEPT !.declared = @ \cup W, !.assigned = @ \cup W] : p \in paths}
Captured(W) == {[p EXCEPT !.captured = @ \cup W] : p \in paths}

\* What an item does to every way, it does to what all of them have assigned.
LEMMA PathsAfter ==
    ASSUME paths \subseteq Path, NEW W \in SUBSET Var
    PROVE  /\ AssignedToo(Declared(W), {}) /\ AssignedToo(Captured(W), {})
           /\ AssignedToo(Assigned(W), W) /\ AssignedToo(Defined(W), W)
           /\ AssignedToo(paths, {})
<1> DEFINE d(p) == [p EXCEPT !.declared = @ \cup W]
           a(p) == [p EXCEPT !.assigned = @ \cup W]
           b(p) == [p EXCEPT !.declared = @ \cup W, !.assigned = @ \cup W]
           c(p) == [p EXCEPT !.captured = @ \cup W]
<1>1. \A p \in Path : d(p) \in Path /\ d(p).assigned = p.assigned \cup {}
  BY DEF Path
<1>2. \A p \in Path : a(p) \in Path /\ a(p).assigned = p.assigned \cup W
  BY DEF Path
<1>3. \A p \in Path : b(p) \in Path /\ b(p).assigned = p.assigned \cup W
  BY DEF Path
<1>4. \A p \in Path : c(p) \in Path /\ c(p).assigned = p.assigned \cup {}
  BY DEF Path
<1>5. /\ Declared(W) = {d(p) : p \in paths} /\ Assigned(W) = {a(p) : p \in paths}
      /\ Defined(W) = {b(p) : p \in paths} /\ Captured(W) = {c(p) : p \in paths}
  BY DEF Declared, Assigned, Defined, Captured
<1> HIDE DEF a, b, c, d
<1>6. AssignedToo(Declared(W), {})
  BY <1>1, <1>5 DEF AssignedToo
<1>7. AssignedToo(Captured(W), {})
  BY <1>4, <1>5 DEF AssignedToo
<1>8. AssignedToo(Assigned(W), W)
  BY <1>2, <1>5 DEF AssignedToo
<1>9. AssignedToo(Defined(W), W)
  BY <1>3, <1>5 DEF AssignedToo
<1>10. AssignedToo(paths, {})
  BY DEF AssignedToo
<1> QED
  BY <1>6, <1>7, <1>8, <1>9, <1>10

(* A unit is passed over: a function is created, a class is skipped.       *)
LEMMA SkipKeeps ==
    ASSUME AssignmentInvariant, ~ Done, at < Close(unit), at' = Close(at) + 1,
           UNCHANGED <<program, unit, frames, branches, initialized, initCurScope>>,
           program[at].op \in UnitOp,
           AssignedToo(paths', {})
    PROVE  AssignmentInvariant'
<1>1. PositionInvariant /\ frames \in Seq(Frame) /\ Inner
  BY DEF AssignmentInvariant, AnalysisTypeOK, Inner
<1>2. PositionInvariant'
  BY <1>1, SkipKeepsPosition
<1>3. Inner'
  <2> DEFINE W == {}
  <2>1. /\ W \in SUBSET Var /\ initialized' = initialized \cup W
        /\ initCurScope' = initCurScope \cup (W \ initialized)
        /\ AssignedToo(paths', W)
    OBVIOUS
  <2> HIDE DEF W
  <2> QED
    BY <1>1, <2>1, AssignKeeps
<1> QED
  BY <1>2, <1>3 DEF AssignmentInvariant, Inner

\* Every step keeps the flags and the ways in step.
LEMMA NextKeeps ==
    ASSUME AssignmentInvariant, [Next]_vars
    PROVE  AssignmentInvariant'
<1> DEFINE none == {}
<1>1. none \in SUBSET Var
  OBVIOUS
<1>2. CASE UNCHANGED vars
  <2>1. /\ UNCHANGED <<program, unit>> /\ UNCHANGED at /\ UNCHANGED <<initialized, initCurScope>>
        /\ UNCHANGED frames /\ UNCHANGED <<paths, branches>>
    BY <1>2 DEF vars, analysisVars, flags
  <2>2. First' = First /\ Close(unit)' = Close(unit) /\ Units' = Units /\ Done' = Done
    BY <2>1, SameUnit
  <2>3. PositionInvariant => PositionInvariant'
    BY <2>1, <2>2 DEF PositionInvariant
  <2>4. AnalysisTypeOK => AnalysisTypeOK'
    BY <2>1 DEF AnalysisTypeOK
  <2>5. ScopesInvariant => ScopesInvariant'
    BY <2>1 DEF ScopesInvariant
  <2>6. WaysInvariant => WaysInvariant'
    BY <2>1, WaysAfter DEF WaysInvariant
  <2> QED
    BY <2>2, <2>3, <2>4, <2>5, <2>6 DEF AssignmentInvariant
<1>3. CASE Next
  <2>1. ~ Done => /\ PositionInvariant /\ Inner /\ frames \in Seq(Frame) /\ paths \subseteq Path
                  /\ WellFormed(program)
    BY DEF AssignmentInvariant, AnalysisTypeOK, Inner, PositionInvariant
  <2>2. ASSUME ~ Done, at < Close(unit), program[at].op \in Naming PROVE {var} \in SUBSET Var
    <3>1. at \in 1..Len(program)
      BY <2>1, <2>2, Here
    <3> QED
      BY <2>1, <2>2, <3>1, VarTyped DEF var
  <2>3. CASE Declare /\ PathDeclare
    <3>1. ~ Done /\ at < Close(unit) /\ program[at].op = "declare" /\ at' = at + 1
          /\ UNCHANGED <<program, unit, frames, branches, initialized, initCurScope>>
          /\ paths' = Declared({var})
      BY <2>3 DEF Declare, PathDeclare, Meets, Advance, Declared
    <3>2. AssignedToo(paths', none)
      BY <2>1, <2>2, <3>1, PathsAfter DEF Naming, Declaring
    <3>3. /\ initialized' = initialized \cup none
          /\ initCurScope' = initCurScope \cup (none \ initialized)
          /\ program[at].op \notin Opening \cup {"end"}
      BY <3>1 DEF Opening, UnitOp
    <3> HIDE DEF none
    <3> QED
      BY <1>1, <3>1, <3>2, <3>3, ItemKeeps
  <2>4. CASE Param /\ PathDefine
    <3>1. ~ Done /\ at < Close(unit) /\ program[at].op = "param" /\ at' = at + 1
          /\ UNCHANGED <<program, unit, frames, branches>>
          /\ initialized' = initialized \cup {var}
          /\ initCurScope' = initCurScope \cup {var}
          /\ paths' = Defined({var})
      BY <2>4 DEF Param, PathDefine, Meets, Advance, Defined
    <3>2. {var} \in SUBSET Var
      BY <2>2, <3>1 DEF Naming, Declaring
    <3>3. AssignedToo(paths', {var})
      BY <2>1, <3>1, <3>2, PathsAfter
    <3>4. initCurScope = initialized
      <4>1. frames = << >>
        BY <2>1, <3>1, InNoIfAtParam
      <4> QED
        BY <2>1, <3>1, <4>1, SavedNone DEF Inner, ScopesInvariant
    <3>5. /\ initCurScope' = initCurScope \cup ({var} \ initialized)
          /\ program[at].op \notin Opening \cup {"end"}
      BY <3>1, <3>4 DEF Opening, UnitOp
    <3> QED
      BY <3>1, <3>2, <3>3, <3>5, ItemKeeps
  <2>5. CASE Define /\ PathDefine
    <3>1. ~ Done /\ at < Close(unit) /\ program[at].op = "define" /\ at' = at + 1
          /\ UNCHANGED <<program, unit, frames, branches>>
          /\ initialized' = initialized \cup {var}
          /\ initCurScope' = initCurScope \cup ({var} \ initialized)
          /\ paths' = Defined({var})
      BY <2>5 DEF Define, AssignVariable, PathDefine, Meets, Advance, Defined
    <3>2. {var} \in SUBSET Var
      BY <2>2, <3>1 DEF Naming, Declaring
    <3>3. AssignedToo(paths', {var})
      BY <2>1, <3>1, <3>2, PathsAfter
    <3>4. program[at].op \notin Opening \cup {"end"}
      BY <3>1 DEF Opening, UnitOp
    <3> QED
      BY <3>1, <3>2, <3>3, <3>4, ItemKeeps
  <2>6. CASE Assign /\ PathAssign
    <3>1. ~ Done /\ at < Close(unit) /\ program[at].op = "assign" /\ at' = at + 1
          /\ UNCHANGED <<program, unit, frames, branches>>
          /\ initialized' = initialized \cup {var}
          /\ initCurScope' = initCurScope \cup ({var} \ initialized)
          /\ paths' = Assigned({var})
      BY <2>6 DEF Assign, AssignVariable, PathAssign, Meets, Advance, Assigned
    <3>2. {var} \in SUBSET Var
      BY <2>2, <3>1 DEF Naming
    <3>3. AssignedToo(paths', {var})
      BY <2>1, <3>1, <3>2, PathsAfter
    <3>4. program[at].op \notin Opening \cup {"end"}
      BY <3>1 DEF Opening, UnitOp
    <3> QED
      BY <3>1, <3>2, <3>3, <3>4, ItemKeeps
  <2>7. CASE Use /\ PathUse
    <3>1. ~ Done /\ at < Close(unit) /\ program[at].op = "use" /\ at' = at + 1
          /\ UNCHANGED <<program, unit, frames, branches, initialized, initCurScope, paths>>
      BY <2>7 DEF Use, PathUse, Meets, Advance
    <3>2. AssignedToo(paths', none)
      BY <1>1, <2>1, <3>1, PathsAfter
    <3>3. /\ initialized' = initialized \cup none
          /\ initCurScope' = initCurScope \cup (none \ initialized)
          /\ program[at].op \notin Opening \cup {"end"}
      BY <3>1 DEF Opening, UnitOp
    <3> HIDE DEF none
    <3> QED
      BY <1>1, <3>1, <3>2, <3>3, ItemKeeps
  <2>8. CASE If /\ PathIf
    <3>1. ~ Done /\ at < Close(unit) /\ program[at].op = "if" /\ at' = at + 1
          /\ UNCHANGED <<program, unit>>
          /\ frames' = Append(frames, [saved |-> initCurScope, thenInits |-> {}, elseMet |-> FALSE])
      BY <2>8 DEF If, Meets, Advance
    <3>2. Inner'
      BY <2>1, <2>8, <3>1, IfKeeps
    <3>3. Len(frames') = Len(frames) + Depth(program, at, at)
      <4>1. Depth(program, at, at) = 1
        BY <2>1, <3>1, Here, DepthOne DEF Opening
      <4>2. \A f : Len(Append(frames, f)) = Len(frames) + 1
        BY <2>1, <3>1
      <4> QED
        BY <3>1, <4>1, <4>2
    <3> QED
      BY <3>1, <3>2, <3>3, AdvanceKeeps DEF UnitOp
  <2>9. CASE Else /\ PathElse
    <3>1. ~ Done /\ at < Close(unit) /\ program[at].op = "else" /\ at' = at + 1
          /\ UNCHANGED <<program, unit>>
          /\ frames' = [frames EXCEPT ![Len(frames)].thenInits = initCurScope,
                                      ![Len(frames)].elseMet = TRUE]
      BY <2>9 DEF Else, Meets, Advance
    <3>2. Len(frames) > 0
      BY <2>1, <3>1, InIfAtElse
    <3>3. Inner'
      BY <2>1, <2>9, <3>1, <3>2, ElseKeeps
    <3>4. Len(frames') = Len(frames) + Depth(program, at, at)
      <4>1. Depth(program, at, at) = 0
        <5>1. program[at].op \notin Opening \cup {"end"}
          BY <3>1 DEF Opening, UnitOp
        <5> QED
          BY <2>1, <3>1, <5>1, Here, DepthOne
      <4>2. Len(frames') = Len(frames) /\ Len(frames) \in Nat
        BY <2>1, <3>1, <3>2
      <4> QED
        BY <4>1, <4>2
    <3> QED
      BY <3>1, <3>3, <3>4, AdvanceKeeps DEF UnitOp
  <2>10. CASE EndIf /\ PathEndIf
    <3>1. ~ Done /\ at < Close(unit) /\ program[at].op = "end" /\ at' = at + 1
          /\ UNCHANGED <<program, unit>>
          /\ frames' = SubSeq(frames, 1, Len(frames) - 1)
      BY <2>10 DEF EndIf, Meets, Advance
    <3>2. Len(frames) > 0
      BY <2>1, <3>1, InIfAtEnd
    <3>3. Inner'
      BY <2>1, <2>10, <3>1, <3>2, EndIfKeeps
    <3>4. Len(frames') = Len(frames) + Depth(program, at, at)
      <4>1. Depth(program, at, at) = -1
        BY <2>1, <3>1, Here, DepthOne
      <4>2. Len(frames') = Len(frames) - 1 /\ Len(frames) \in Nat
        BY <2>1, <3>1, <3>2, FrontOfSeq
      <4> QED
        BY <4>1, <4>2
    <3> QED
      BY <3>1, <3>3, <3>4, AdvanceKeeps DEF UnitOp
  <2>11. CASE CreateFunction /\ PathCreate
    <3> DEFINE free == Free(CreatedAt(at))
    <3>1. ~ Done /\ at < Close(unit) /\ program[at].op = "fun" /\ at' = Close(at) + 1
          /\ UNCHANGED <<program, unit, frames, branches, initialized, initCurScope>>
          /\ paths' = Captured(free)
      BY <2>11 DEF CreateFunction, PathCreate, Meets, Captured
    <3>2. free \in SUBSET Var
      BY <2>1, <3>1, VarTyped
    <3> HIDE DEF free
    <3>3. AssignedToo(paths', {})
      BY <2>1, <3>1, <3>2, PathsAfter
    <3> QED
      BY <3>1, <3>3, SkipKeeps DEF UnitOp
  <2>12. CASE Instantiate /\ PathCreate
    <3> DEFINE free == Free(CreatedAt(at))
    <3>1. ~ Done /\ at < Close(unit) /\ program[at].op = "new" /\ at' = at + 1
          /\ UNCHANGED <<program, unit, frames, branches, initialized, initCurScope>>
          /\ paths' = Captured(free)
      BY <2>12 DEF Instantiate, PathCreate, Meets, Advance, Captured
    <3>2. free \in SUBSET Var
      BY <2>1, <3>1, VarTyped
    <3> HIDE DEF free
    <3>3. AssignedToo(paths', none)
      BY <2>1, <3>1, <3>2, PathsAfter
    <3>4. /\ initialized' = initialized \cup none
          /\ initCurScope' = initCurScope \cup (none \ initialized)
          /\ program[at].op \notin Opening \cup {"end"}
      BY <3>1 DEF Opening, UnitOp
    <3> HIDE DEF none
    <3> QED
      BY <1>1, <3>1, <3>3, <3>4, ItemKeeps
  <2>13. CASE SkipClass /\ UNCHANGED <<paths, branches, faults, needsBox, mixed>>
    <3>1. ~ Done /\ at < Close(unit) /\ program[at].op = "class" /\ at' = Close(at) + 1
          /\ UNCHANGED <<program, unit, frames, branches, initialized, initCurScope, paths>>
      BY <2>13 DEF SkipClass, Meets, flags
    <3>2. AssignedToo(paths', {})
      BY <1>1, <2>1, <3>1, PathsAfter
    <3> QED
      BY <3>1, <3>2, SkipKeeps DEF UnitOp
  <2>14. CASE EndUnit /\ PathEnd
    BY <2>14, EndUnitKeeps
  <2>15. CASE Done /\ UNCHANGED vars
    BY <1>2, <2>15
  <2> QED
    BY <1>3, <2>3, <2>4, <2>5, <2>6, <2>7, <2>8, <2>9, <2>10, <2>11, <2>12, <2>13, <2>14, <2>15
       DEF Next
<1> QED
  BY <1>2, <1>3

(* The flag is set exactly where every way has assigned the variable, for  *)
(* every program the grammar allows.                                       *)
THEOREM FlagIffAssigned == Spec => []InitializedOnEveryPath
<1>1. Init => AssignmentInvariant
  BY InitAssigned
<1>2. AssignmentInvariant /\ [Next]_vars => AssignmentInvariant'
  BY NextKeeps
<1>3. AssignmentInvariant => InitializedOnEveryPath
  BY DEF AssignmentInvariant, WaysInvariant, AssignedOnAll, InitializedOnEveryPath
<1> QED
  BY <1>1, <1>2, <1>3, PTL DEF Spec
-----------------------------------------------------------------------------
(* How units lie in one another *)

\* Where a unit opens and closes, and that it is open in between.
LEMMA UnitSpan ==
    ASSUME WellFormed(program), NEW u \in Units
    PROVE  /\ Len(program) \in Nat /\ u \in Nat /\ Close(u) \in Nat
           /\ u < Close(u) /\ Close(u) <= Len(program) + 1
           /\ u = 0 => Close(u) = Len(program) + 1
           /\ u # 0 => /\ u \in 1..Len(program) /\ program[u].op \in UnitOp
                       /\ Close(u) \in 1..Len(program) /\ program[Close(u)].op = "end"
                       /\ Depth(program, u, Close(u)) = 0
                       /\ \A m \in u..(Close(u) - 1) : Depth(program, u, m) > 0
<1>1. Len(program) \in Nat
  BY DEF WellFormed
<1>2. CASE u = 0
  BY <1>1, <1>2 DEF Close
<1>3. CASE u # 0
  <2>1. u \in 1..Len(program) /\ program[u].op \in UnitOp
    BY <1>3 DEF Units
  <2>2. /\ Close(u) \in (u + 1)..Len(program) /\ program[Close(u)].op = "end"
        /\ Depth(program, u, Close(u)) = 0
        /\ \A m \in u..(Close(u) - 1) : Depth(program, u, m) > 0
    BY <2>1, BlockCloses DEF Opening
  <2> QED
    BY <1>1, <1>3, <2>1, <2>2
<1> QED
  BY <1>2, <1>3

(* Units that overlap lie one in the other.                                *)
LEMMA UnitsNest ==
    ASSUME WellFormed(program), NEW u \in Units, NEW v \in Units, u < v, v < Close(u)
    PROVE  Close(v) < Close(u)
<1>1. /\ Len(program) \in Nat /\ u \in Nat /\ v \in Nat /\ v # 0 /\ Close(u) \in Nat /\ Close(v) \in Nat
      /\ v < Close(v) /\ Close(v) <= Len(program)
      /\ Depth(program, v, Close(v)) = 0 /\ \A m \in v..(Close(v) - 1) : Depth(program, v, m) > 0
      /\ u = 0 => Close(u) = Len(program) + 1
  BY UnitSpan
<1>2. CASE u = 0
  BY <1>1, <1>2
<1>3. CASE u # 0
  <2>1. Depth(program, u, Close(u)) = 0 /\ \A m \in u..(Close(u) - 1) : Depth(program, u, m) > 0
    BY <1>3, UnitSpan
  <2>2. Depth(program, u, v - 1) > 0
    BY <1>1, <2>1
  <2>3. ASSUME Close(u) <= Close(v) PROVE FALSE
    <3> DEFINE c == Close(u)
               b == v - 1
    <3>1. u \in Int /\ b \in Int /\ c \in Int /\ u <= b + 1 /\ b <= c /\ b + 1 = v
      BY <1>1
    <3>2. Depth(program, v, c) \in Int /\ Depth(program, v, c) >= 0
      <4>1. Depth(program, v, c) \in Int
        BY <1>1, DepthCounts
      <4>2. CASE c = Close(v)
        BY <1>1, <4>2
      <4>3. CASE c # Close(v)
        <5>1. c \in v..(Close(v) - 1)
          BY <1>1, <2>3, <4>3
        <5> QED
          BY <1>1, <4>1, <5>1
      <4> QED
        BY <4>1, <4>2, <4>3
    <3>3. Depth(program, u, c) = 0 /\ Depth(program, u, b) > 0
      BY <2>1, <2>2
    <3> HIDE DEF b, c
    <3>4. /\ Depth(program, u, c) = Depth(program, u, b) + Depth(program, b + 1, c)
          /\ Depth(program, u, b) \in Int
      <4>1. DepthAdds(program, u, b, c)
        BY <3>1, DepthSplit
      <4> QED
        BY <3>1, <4>1 DEF DepthAdds
    <3> QED
      BY <3>1, <3>2, <3>3, <3>4
  <2> QED
    BY <1>1, <2>3
<1> QED
  BY <1>2, <1>3

\* Every item is in a unit, and UnitOf is the innermost.
LEMMA UnitOfIs ==
    ASSUME WellFormed(program), NEW i \in 1..Len(program)
    PROVE  /\ UnitOf(i) \in Units /\ UnitOf(i) < i /\ i < Close(UnitOf(i))
           /\ \A u \in Units : u < i /\ i < Close(u) => u <= UnitOf(i)
<1> DEFINE S == {u \in Units : u < i /\ i < Close(u)}
           B == {k \in Nat : \A u \in S : u <= k}
<1>1. Len(program) \in Nat /\ Units \subseteq Nat
  BY UnitSpan DEF WellFormed
<1>2. 0 \in S
  BY <1>1 DEF Units, Close
<1>3. B \in SUBSET Nat /\ i \in B
  BY <1>1
<1>4. PICK b \in B : \A c \in B : b <= c
  <2> HIDE DEF B
  <2> QED
    BY <1>3, LeastElement
<1>5. b \in S
  <2>1. CASE b = 0
    BY <1>2, <2>1
  <2>2. CASE b # 0
    <3>1. b - 1 \in Nat /\ ~ (b <= b - 1)
      BY <2>2
    <3>2. b - 1 \notin B
      BY <1>4, <3>1
    <3>3. PICK u \in S : ~ (u <= b - 1)
      BY <3>1, <3>2
    <3>4. u \in Nat /\ u <= b
      BY <1>1, <3>3
    <3>5. u = b
      BY <3>3, <3>4
    <3> QED
      BY <3>5
  <2> QED
    BY <2>1, <2>2
<1>6. \A u \in S : u <= b
  OBVIOUS
<1>7. \A x \in S : (\A y \in S : x >= y) => x = b
  BY <1>1, <1>5, <1>6
<1>8. Max(S) = b
  <2>1. \A y \in S : b >= y
    BY <1>1, <1>6
  <2> HIDE DEF S
  <2> QED
    BY <1>5, <1>7, <2>1 DEF Max
<1>9. UnitOf(i) = b
  BY <1>8 DEF UnitOf
<1> QED
  BY <1>5, <1>6, <1>9

(* An item within a unit belongs to it, or to one that closes before it.   *)
LEMMA WithinUnit ==
    ASSUME WellFormed(program), NEW u \in Units, NEW i \in Within(u)
    PROVE  /\ i \in 1..Len(program) /\ u < i /\ i < Close(u)
           /\ UnitOf(i) # u => /\ UnitOf(i) \in Within(u) /\ UnitOf(i) \in Units \ {0}
                              /\ Close(UnitOf(i)) < Close(u)
<1>1. i \in 1..Len(program) /\ u < i /\ i < Close(u)
  BY DEF Within
<1>2. UnitOf(i) \in Units /\ UnitOf(i) < i /\ u <= UnitOf(i)
  BY <1>1, UnitOfIs
<1>3. ASSUME UnitOf(i) # u
      PROVE  /\ UnitOf(i) \in Within(u) /\ UnitOf(i) \in Units \ {0}
             /\ Close(UnitOf(i)) < Close(u)
  <2>1. u \in Nat /\ UnitOf(i) \in Nat /\ Close(u) \in Nat /\ Len(program) \in Nat
    BY <1>2, UnitSpan
  <2>2. u < UnitOf(i) /\ UnitOf(i) < Close(u) /\ UnitOf(i) \in 1..Len(program)
    BY <1>1, <1>2, <1>3, <2>1
  <2>3. Close(UnitOf(i)) < Close(u)
    BY <1>2, <2>2, UnitsNest
  <2> QED
    BY <1>2, <2>1, <2>2, <2>3 DEF Within
<1> QED
  BY <1>1, <1>3

(* The units directly in a unit.                                           *)
LEMMA ChildUnit ==
    ASSUME WellFormed(program), NEW u, NEW v \in NestedIn(u)
    PROVE  /\ u \in Units /\ v \in Units \ {0} /\ UnitOf(v) = u /\ v \in Within(u)
           /\ Close(v) < Close(u) /\ Within(v) \subseteq Within(u)
<1>1. v \in Units \ {0} /\ UnitOf(v) = u
  BY DEF NestedIn
<1>2. v \in 1..Len(program)
  BY <1>1, UnitSpan
<1>3. u \in Units /\ u < v /\ v < Close(u)
  BY <1>1, <1>2, UnitOfIs
<1>4. Close(v) < Close(u)
  BY <1>1, <1>3, UnitsNest
<1>5. u \in Nat /\ v \in Nat /\ Close(u) \in Nat /\ Close(v) \in Nat
  BY <1>1, <1>3, UnitSpan
<1> QED
  BY <1>1, <1>2, <1>3, <1>4, <1>5 DEF Within

(* What is within a unit, but not directly, is within one directly in it.  *)
LEMMA ChildOf ==
    ASSUME WellFormed(program), NEW u \in Units, NEW i \in Within(u), UnitOf(i) # u
    PROVE  \E v \in NestedIn(u) : i \in Within(v)
<1> DEFINE S == {v \in Units : u < v /\ v < i /\ i < Close(v)}
<1>1. Units \subseteq Nat /\ \A v \in Units : Close(v) \in Nat
  BY UnitSpan
<1>2. i \in 1..Len(program) /\ u < i /\ i < Close(u) /\ UnitOf(i) \in Within(u) /\ UnitOf(i) \in Units
  BY WithinUnit
<1>3. UnitOf(i) \in S
  BY <1>2, UnitOfIs DEF Within
<1>4. PICK v \in S : \A w \in S : v <= w
  <2>1. S \in SUBSET Nat /\ S # {}
    BY <1>1, <1>3
  <2> HIDE DEF S
  <2> QED
    BY <2>1, LeastElement
<1>5. v \in Nat /\ v # 0 /\ v \in 1..Len(program) /\ v < Close(u)
  <2>1. u \in Nat /\ v \in Nat /\ Close(u) \in Nat
    BY <1>1
  <2>2. v # 0 /\ v < Close(u)
    BY <1>2, <2>1
  <2> QED
    BY <2>1, <2>2, UnitSpan
<1>6. /\ UnitOf(v) \in Units /\ UnitOf(v) < v /\ v < Close(UnitOf(v)) /\ u <= UnitOf(v)
  BY <1>5, UnitOfIs
<1>7. UnitOf(v) = u
  <2>1. ASSUME u < UnitOf(v) PROVE FALSE
    <3>1. Close(v) < Close(UnitOf(v))
      BY <1>6, UnitsNest
    <3>2. UnitOf(v) \in Nat /\ Close(v) \in Nat /\ Close(UnitOf(v)) \in Nat
      BY <1>1, <1>6
    <3>3. UnitOf(v) < i /\ i < Close(UnitOf(v))
      BY <1>2, <1>5, <1>6, <3>1, <3>2
    <3>4. UnitOf(v) \in S
      BY <1>6, <2>1, <3>3
    <3> QED
      BY <1>4, <1>5, <1>6, <3>2, <3>4
  <2>2. u \in Nat /\ UnitOf(v) \in Nat
    BY <1>1, <1>6
  <2> QED
    BY <1>6, <2>1, <2>2
<1> QED
  BY <1>2, <1>5, <1>7 DEF NestedIn, Within
-----------------------------------------------------------------------------
(* Names and their declarations *)

\* Item j is the declaration of the variable that item i names.
Resolves(j, i) ==
    /\ program[i].op \in Naming /\ program[j].op \in Declaring
    /\ program[j].of = program[i].of /\ Reaches(program, j, i)
    /\ \A k \in 1..Len(program) :
          program[k].op \in Declaring /\ program[k].of = program[i].of => k = j

\* A variable is declared.
LEMMA DeclarationOf ==
    ASSUME Resolved(program), NEW i \in 1..Len(program), program[i].op \in Naming
    PROVE  \E j \in 1..Len(program) : Resolves(j, i)
<1>1. PICK j \in 1..Len(program) :
         /\ Declares(program, j, i) /\ Reaches(program, j, i)
         /\ \A k \in 1..Len(program) : Declares(program, k, i) => k = j
  BY DEF Resolved
<1>2. \A k \in 1..Len(program) :
         Declares(program, k, i) <=> program[k].op \in Declaring /\ program[k].of = program[i].of
  BY DEF Declares, Naming, Declaring
<1> QED
  BY <1>1, <1>2 DEF Resolves

(* What names something is in the unit that declares it.                   *)
LEMMA ReachesWithin ==
    ASSUME WellFormed(program), NEW i \in 1..Len(program), NEW j \in 1..Len(program),
           program[i].op # "end", Reaches(program, j, i)
    PROVE  i \in Within(UnitOf(j))
<1> DEFINE w == UnitOf(j)
           c == Close(w)
<1>1. w \in Units /\ w < j /\ j < c /\ Len(program) \in Nat
  BY UnitOfIs DEF WellFormed
<1>2. /\ w \in Nat /\ c \in Nat /\ c <= Len(program) + 1
      /\ w = 0 => c = Len(program) + 1
      /\ w # 0 => /\ program[c].op = "end" /\ Depth(program, w, c) = 0
                  /\ \A m \in w..(c - 1) : Depth(program, w, m) > 0
  BY <1>1, UnitSpan
<1> HIDE DEF w, c
<1>3. CASE w = 0
  BY <1>1, <1>2, <1>3 DEF Within, w, c
<1>4. CASE w # 0 /\ j < i
  <2>1. ASSUME c < i PROVE FALSE
    <3>1. Depth(program, j, c) >= 0
      BY <1>1, <1>2, <1>4, <2>1 DEF Reaches
    <3> DEFINE b == j - 1
    <3>2. w \in Int /\ b \in Int /\ c \in Int /\ w <= b + 1 /\ b <= c /\ b + 1 = j /\ b \in w..(c - 1)
      BY <1>1, <1>2
    <3> HIDE DEF b
    <3>3. /\ Depth(program, w, c) = Depth(program, w, b) + Depth(program, b + 1, c)
          /\ Depth(program, w, b) \in Int /\ Depth(program, b + 1, c) \in Int
      <4>1. DepthAdds(program, w, b, c)
        BY <3>2, DepthSplit
      <4> QED
        BY <3>2, <4>1 DEF DepthAdds
    <3>4. Depth(program, w, b) > 0 /\ Depth(program, w, c) = 0
      BY <1>2, <1>4, <3>2
    <3> QED
      BY <3>1, <3>2, <3>3, <3>4
  <2>2. c # i
    BY <1>2, <1>4
  <2>3. w < i /\ i < c
    BY <1>1, <1>2, <1>4, <2>1, <2>2
  <2> QED
    BY <2>3 DEF Within, w, c
<1>5. CASE w # 0 /\ ~ (j < i)
  <2>1. ASSUME i <= w PROVE FALSE
    <3>1. Depth(program, w, j - 1) <= 0
      BY <1>1, <1>2, <1>5, <2>1 DEF Reaches
    <3>2. Depth(program, w, j - 1) > 0
      BY <1>1, <1>2, <1>5
    <3>3. w \in Int /\ j - 1 \in Int
      BY <1>2
    <3>4. Depth(program, w, j - 1) \in Int
      BY <3>3, DepthCounts
    <3> QED
      BY <3>1, <3>2, <3>4
  <2>2. w < i /\ i < c
    BY <1>1, <1>2, <1>5, <2>1
  <2> QED
    BY <2>2 DEF Within, w, c
<1> QED
  BY <1>3, <1>4, <1>5

(* What is free in a unit is named there, and declared by a unit around.   *)
LEMMA FreeDeclared ==
    ASSUME WellFormed(program), Resolved(program), NEW u \in Units, NEW v \in Free(u)
    PROVE  \E i \in Within(u), j \in 1..Len(program) :
              /\ i \in 1..Len(program) /\ Resolves(j, i) /\ program[i].of = v
              /\ j \notin Within(u) /\ UnitOf(j) \in Units
              /\ UnitOf(j) < u /\ u < Close(UnitOf(j)) /\ Close(u) < Close(UnitOf(j))
<1>1. PICK i \in Within(u) : program[i].op \in Naming /\ program[i].of = v
  BY DEF Free
<1>2. i \in 1..Len(program) /\ u < i /\ i < Close(u)
  BY WithinUnit
<1>3. PICK j \in 1..Len(program) : Resolves(j, i)
  BY <1>1, <1>2, DeclarationOf
<1>4. j \notin Within(u)
  BY <1>1, <1>3 DEF Free, Resolves
<1>5. UnitOf(j) \in Units /\ UnitOf(j) < j /\ j < Close(UnitOf(j))
  BY UnitOfIs
<1>6. UnitOf(j) < i /\ i < Close(UnitOf(j))
  <2>1. program[i].op # "end"
    BY <1>1 DEF Naming, Declaring
  <2> QED
    BY <1>2, <1>3, <2>1, ReachesWithin DEF Resolves, Within
<1>7. /\ u \in Nat /\ Close(u) \in Nat /\ UnitOf(j) \in Nat /\ Close(UnitOf(j)) \in Nat
  BY <1>5, UnitSpan
<1>8. UnitOf(j) < u
  <2>1. UnitOf(j) # u
    BY <1>4, <1>5 DEF Within
  <2>2. ASSUME u < UnitOf(j) PROVE FALSE
    <3>1. UnitOf(j) < Close(u)
      BY <1>2, <1>6, <1>7
    <3>2. Close(UnitOf(j)) < Close(u)
      BY <1>5, <2>2, <3>1, UnitsNest
    <3>3. u < j /\ j < Close(u)
      BY <1>5, <1>7, <2>2, <3>2
    <3> QED
      BY <1>4, <3>3 DEF Within
  <2> QED
    BY <1>7, <2>1, <2>2
<1>9. u < Close(UnitOf(j))
  BY <1>2, <1>6, <1>7
<1>10. Close(u) < Close(UnitOf(j))
  BY <1>5, <1>8, <1>9, UnitsNest
<1> QED
  BY <1>1, <1>2, <1>3, <1>4, <1>5, <1>8, <1>9, <1>10

ItemsOf(u) == {i \in 1..Len(program) : UnitOf(i) = u}

(* What is free in a unit: what is free in the units directly in it, or    *)
(* named directly in it, and not declared directly in it.                  *)
LEMMA FreeSplit ==
    ASSUME WellFormed(program), Resolved(program), NEW u \in Units
    PROVE  Free(u) = ((UNION {Free(v) : v \in NestedIn(u)}) \cup NamedBy(ItemsOf(u), {"assign", "use"}))
                     \ DeclaredIn(u)
<1> DEFINE Inside == UNION {Free(v) : v \in NestedIn(u)}
           Named == NamedBy(ItemsOf(u), {"assign", "use"})
<1>1. ASSUME NEW i \in 1..Len(program), UnitOf(i) = u PROVE i \in Within(u)
  BY <1>1, UnitOfIs DEF Within
<1>2. ASSUME NEW x \in Free(u) PROVE x \in (Inside \cup Named) \ DeclaredIn(u)
  <2>1. PICK i \in Within(u) : program[i].op \in Naming /\ program[i].of = x
    BY DEF Free
  <2>2. \A j \in Within(u) : program[j].op \in Declaring => program[j].of # x
    BY DEF Free
  <2>3. x \notin DeclaredIn(u)
    BY <1>1, <2>2 DEF DeclaredIn
  <2>4. i \in 1..Len(program)
    BY WithinUnit
  <2>5. CASE UnitOf(i) = u
    <3>1. program[i].op \in {"assign", "use"}
      BY <2>1, <2>2 DEF Naming
    <3> QED
      BY <2>1, <2>3, <2>4, <2>5, <3>1 DEF NamedBy, ItemsOf
  <2>6. CASE UnitOf(i) # u
    <3>1. PICK v \in NestedIn(u) : i \in Within(v)
      BY <2>6, ChildOf
    <3>2. Within(v) \subseteq Within(u)
      BY ChildUnit
    <3>3. x \in Free(v)
      BY <2>1, <2>2, <3>1, <3>2 DEF Free
    <3> QED
      BY <2>3, <3>3
  <2> QED
    BY <2>5, <2>6
<1>3. ASSUME NEW v \in NestedIn(u), NEW x \in Free(v), x \notin DeclaredIn(u) PROVE x \in Free(u)
  <2>1. /\ v \in Units \ {0} /\ UnitOf(v) = u /\ v \in Within(u) /\ Within(v) \subseteq Within(u)
        /\ Close(v) < Close(u)
    BY ChildUnit
  <2>2. PICK i \in Within(v), j \in 1..Len(program) :
           /\ i \in 1..Len(program) /\ Resolves(j, i) /\ program[i].of = x
           /\ UnitOf(j) \in Units /\ UnitOf(j) < v /\ v < Close(UnitOf(j))
    BY <2>1, FreeDeclared
  <2>3. UnitOf(j) # u
    BY <1>3, <2>2 DEF DeclaredIn, Resolves
  <2>4. v \in 1..Len(program)
    BY <2>1, UnitSpan
  <2>5. UnitOf(j) <= u
    BY <2>1, <2>2, <2>4, UnitOfIs
  <2>6. j \notin Within(u)
    <3>1. ASSUME j \in Within(u) PROVE FALSE
      <4>1. u < j /\ j < Close(u)
        BY <3>1 DEF Within
      <4>2. u <= UnitOf(j)
        BY <4>1, UnitOfIs
      <4>3. u \in Nat /\ UnitOf(j) \in Nat
        BY <2>2, UnitSpan
      <4> QED
        BY <2>3, <2>5, <4>2, <4>3
    <3> QED
      BY <3>1
  <2>7. \A k \in Within(u) : program[k].op \in Declaring => program[k].of # x
    BY <2>2, <2>6 DEF Resolves, Within
  <2>8. i \in Within(u) /\ program[i].op \in Naming
    BY <2>1, <2>2 DEF Resolves
  <2> QED
    BY <2>2, <2>7, <2>8 DEF Free
<1>4. ASSUME NEW x \in Named, x \notin DeclaredIn(u) PROVE x \in Free(u)
  <2>1. PICK i \in 1..Len(program) : UnitOf(i) = u /\ program[i].op \in {"assign", "use"} /\ program[i].of = x
    BY DEF NamedBy, ItemsOf
  <2>2. PICK j \in 1..Len(program) : Resolves(j, i)
    BY <2>1, DeclarationOf DEF Naming
  <2>3. UnitOf(j) # u
    BY <1>4, <2>1, <2>2 DEF DeclaredIn, Resolves
  <2>4. i \in Within(UnitOf(j)) /\ UnitOf(j) \in Units
    BY <2>1, <2>2, ReachesWithin, UnitOfIs DEF Resolves
  <2>5. UnitOf(j) <= u
    BY <2>1, <2>4, UnitOfIs DEF Within
  <2>6. j \notin Within(u)
    <3>1. ASSUME j \in Within(u) PROVE FALSE
      <4>1. u <= UnitOf(j)
        BY <3>1, UnitOfIs DEF Within
      <4>2. u \in Nat /\ UnitOf(j) \in Nat
        BY <2>4, UnitSpan
      <4> QED
        BY <2>3, <2>5, <4>1, <4>2
    <3> QED
      BY <3>1
  <2>7. \A k \in Within(u) : program[k].op \in Declaring => program[k].of # x
    BY <2>1, <2>2, <2>6 DEF Resolves, Within
  <2>8. i \in Within(u) /\ program[i].op \in Naming
    BY <1>1, <2>1 DEF Naming
  <2> QED
    BY <2>1, <2>7, <2>8 DEF Free
<1>5. Free(u) \subseteq (Inside \cup Named) \ DeclaredIn(u)
  BY <1>2
<1>6. (Inside \cup Named) \ DeclaredIn(u) \subseteq Free(u)
  <2> HIDE DEF Named
  <2> QED
    BY <1>3, <1>4
<1> HIDE DEF Inside, Named
<1>7. Free(u) = (Inside \cup Named) \ DeclaredIn(u)
  BY <1>5, <1>6
<1> QED
  BY <1>7 DEF Inside, Named
-----------------------------------------------------------------------------
(* Passing an item *)

(* The analysis passes an item that opens no unit, or a unit as a whole.   *)
Passes ==
    /\ PositionInvariant /\ at < Close(unit) /\ UnitOf(at) = unit
    /\ UNCHANGED <<program, unit>>
    /\ \/ at' = at + 1 /\ program[at].op \notin UnitOp
       \/ at' = Close(at) + 1 /\ program[at].op \in UnitOp

\* What only depends on the program stays.
LEMMA SameProgram ==
    ASSUME UNCHANGED program
    PROVE  /\ Units' = Units /\ \A u : Close(u)' = Close(u) /\ UnitOf(u)' = UnitOf(u)
           /\ \A u : DeclaredIn(u)' = DeclaredIn(u)
           /\ \A u : NestedIn(u)' = NestedIn(u) /\ Free(u)' = Free(u)
           /\ \A i : CreatedAt(i)' = CreatedAt(i) /\ OtherUnit(i)' = OtherUnit(i)
                     /\ CapturesTooEarly(i)' = CapturesTooEarly(i)
<1>1. Units' = Units /\ \A u : Close(u)' = Close(u)
  BY DEF Units, Close
<1>2. \A u : UnitOf(u)' = UnitOf(u)
  BY <1>1 DEF UnitOf
<1>3. \A u : DeclaredIn(u)' = DeclaredIn(u) /\ NestedIn(u)' = NestedIn(u) /\ Within(u)' = Within(u)
  BY <1>1, <1>2 DEF DeclaredIn, NestedIn, Within
<1>4. \A u : Free(u)' = Free(u)
  BY <1>3 DEF Free
<1>5. \A i : CreatedAt(i)' = CreatedAt(i)
  BY DEF CreatedAt, ClassAt
<1>6. \A i : OtherUnit(i)' = OtherUnit(i)
  BY <1>2, <1>5 DEF OtherUnit
<1>7. \A i : CapturesTooEarly(i)' = CapturesTooEarly(i)
  BY <1>4, <1>5 DEF CapturesTooEarly
<1> QED
  BY <1>1, <1>2, <1>3, <1>4, <1>5, <1>6, <1>7

(* The item passed, and only that, has been visited; the next one is in    *)
(* the same unit again.                                                    *)
LEMMA PassVisits ==
    ASSUME Passes
    PROVE  /\ at \in 1..Len(program) /\ unit \in Units /\ at' \in (at + 1)..Close(unit)
           /\ at' < Close(unit) => UnitOf(at') = unit
           /\ ~ Direct(at) /\ ~ Visited(at)
           /\ \A i \in 1..Len(program) : i = at => Direct(i)' /\ Visited(i)'
           /\ \A i \in 1..Len(program) : (Direct(i) => Direct(i)') /\ (Visited(i) => Visited(i)')
           /\ \A i \in 1..Len(program) : i # at /\ program[i].op # "end" =>
                 (Direct(i)' <=> Direct(i)) /\ (Visited(i)' <=> Visited(i))
<1>1. WellFormed(program) /\ unit \in Units /\ at < Close(unit) /\ UnitOf(at) = unit
  BY DEF Passes, PositionInvariant
<1>2. at \in 1..Len(program) /\ at \in Nat /\ unit \in Nat /\ unit < at /\ Len(program) \in Nat
  BY Here, UnitSpan DEF Passes, PositionInvariant
<1>3. Close(unit) \in Nat /\ Close(unit) <= Len(program) + 1
  BY <1>1, UnitSpan
<1>4. ASSUME program[at].op \in UnitOp
      PROVE  /\ at \in Units /\ Close(at) \in Nat /\ at < Close(at) /\ Close(at) < Close(unit)
             /\ Close(at) \in 1..Len(program) /\ program[Close(at)].op = "end"
             /\ \A k \in (at + 1)..(Close(at) - 1) : UnitOf(k) # unit
  <2>1. at \in Units /\ at # 0
    BY <1>2, <1>4 DEF Units
  <2>2. /\ Close(at) \in Nat /\ at < Close(at) /\ Close(at) \in 1..Len(program)
        /\ program[Close(at)].op = "end"
    BY <1>1, <2>1, UnitSpan
  <2>3. Close(at) < Close(unit)
    BY <1>1, <1>2, <2>1, UnitsNest
  <2>4. ASSUME NEW k \in (at + 1)..(Close(at) - 1) PROVE UnitOf(k) # unit
    <3>1. k \in 1..Len(program) /\ at < k /\ k < Close(at)
      BY <1>2, <2>2
    <3>2. at <= UnitOf(k)
      BY <1>1, <2>1, <3>1, UnitOfIs
    <3> QED
      BY <1>2, <3>2
  <2> QED
    BY <2>1, <2>2, <2>3, <2>4
<1>5. /\ at' \in (at + 1)..Close(unit)
      /\ \A k \in 1..Len(program) : UnitOf(k) = unit /\ at <= k /\ k < at' => k = at \/ program[k].op = "end"
  <2>1. CASE at' = at + 1
    BY <1>1, <1>2, <1>3, <2>1
  <2>2. CASE at' = Close(at) + 1 /\ program[at].op \in UnitOp
    <3>1. at' \in (at + 1)..Close(unit)
      BY <1>2, <1>3, <1>4, <2>2
    <3>2. ASSUME NEW k \in 1..Len(program), UnitOf(k) = unit, at <= k, k < at', k # at
          PROVE  program[k].op = "end"
      <4>1. k \notin (at + 1)..(Close(at) - 1)
        BY <1>4, <2>2, <3>2
      <4>2. k = Close(at)
        BY <1>2, <1>4, <2>2, <3>2, <4>1
      <4> QED
        BY <1>4, <2>2, <4>2
    <3> QED
      BY <3>1, <3>2
  <2> QED
    BY <2>1, <2>2 DEF Passes
<1>6. ASSUME at' < Close(unit) PROVE UnitOf(at') = unit
  <2> DEFINE b == at'
             w == UnitOf(b)
  <2>1. b \in 1..Len(program) /\ unit < b /\ b < Close(unit) /\ at < b
    BY <1>2, <1>3, <1>5, <1>6
  <2>2. w \in Units /\ w < b /\ b < Close(w) /\ unit <= w
    BY <1>1, <2>1, UnitOfIs
  <2>3. w \in Nat /\ Close(w) \in Nat /\ (w # 0 => w \in 1..Len(program) /\ program[w].op \in UnitOp)
    BY <1>1, <2>2, UnitSpan
  <2> HIDE DEF w
  <2>4. ASSUME unit < w PROVE FALSE
    <3>1. ~ (w < at)
      <4>1. w < at => at < Close(w)
        BY <1>2, <2>1, <2>2, <2>3
      <4>2. w < at => w <= unit
        BY <1>1, <1>2, <2>2, <4>1, UnitOfIs
      <4> QED
        BY <1>2, <2>3, <2>4, <4>2
    <3>2. program[w].op \in UnitOp /\ w \in 1..Len(program)
      BY <1>2, <2>3, <2>4
    <3>3. CASE b = at + 1 /\ program[at].op \notin UnitOp
      <4>1. w = at
        BY <1>2, <2>2, <2>3, <3>1, <3>3
      <4> QED
        BY <3>2, <3>3, <4>1
    <3>4. CASE b = Close(at) + 1 /\ program[at].op \in UnitOp
      <4>1. Close(at) \in Nat /\ at \in Units /\ program[Close(at)].op = "end"
        BY <1>4, <3>4
      <4>2. w # at
        BY <2>2, <2>3, <3>4, <4>1
      <4>3. w # Close(at)
        BY <3>2, <4>1 DEF UnitOp
      <4>4. at < w /\ w < Close(at)
        BY <1>2, <2>2, <2>3, <3>1, <3>4, <4>1, <4>2, <4>3
      <4>5. Close(w) < Close(at)
        BY <1>1, <2>2, <4>1, <4>4, UnitsNest
      <4> QED
        BY <2>2, <2>3, <3>4, <4>1, <4>5
    <3> QED
      BY <3>3, <3>4 DEF Passes
  <2>5. w = unit
    BY <1>2, <2>2, <2>3, <2>4
  <2> QED
    BY <2>5 DEF w
<1>7. \A i : /\ Direct(i)' <=> UnitOf(i) = unit /\ i < at'
             /\ Visited(i)' <=> Close(UnitOf(i)) < Close(unit) \/ Direct(i)'
  BY SameProgram DEF Direct, Visited, Passes
<1>8. /\ ~ Direct(at) /\ ~ Visited(at)
      /\ \A i \in 1..Len(program) : i = at => Direct(i)' /\ Visited(i)'
  BY <1>1, <1>2, <1>3, <1>5, <1>7 DEF Direct, Visited
<1>9. \A i \in 1..Len(program) : (Direct(i) => Direct(i)') /\ (Visited(i) => Visited(i)')
  BY <1>2, <1>3, <1>5, <1>7 DEF Direct, Visited
<1>10. ASSUME NEW i \in 1..Len(program), i # at, program[i].op # "end"
       PROVE  (Direct(i)' <=> Direct(i)) /\ (Visited(i)' <=> Visited(i))
  <2>1. UnitOf(i) = unit => (i < at' <=> i < at)
    BY <1>2, <1>3, <1>5, <1>10
  <2> QED
    BY <1>7, <2>1 DEF Direct, Visited
<1> QED
  BY <1>1, <1>2, <1>5, <1>6, <1>8, <1>9, <1>10

\* What is named by the items passed grows by what the item names.
LEMMA PassNames ==
    ASSUME Passes, NEW ops, "end" \notin ops
    PROVE  LET here == IF program[at].op \in ops THEN {var} ELSE {}
           IN  /\ NamedBy(VisitedItems, ops)' = NamedBy(VisitedItems, ops) \cup here
               /\ NamedBy(DirectItems, ops)' = NamedBy(DirectItems, ops) \cup here
<1> DEFINE here == IF program[at].op \in ops THEN {var} ELSE {}
           V == {i \in VisitedItems : program[i].op \in ops}
           D == {i \in DirectItems : program[i].op \in ops}
           H == IF program[at].op \in ops THEN {at} ELSE {}
<1>1. program' = program /\ at \in 1..Len(program)
  BY PassVisits DEF Passes
<1>2. V' = V \cup H
  <2>1. ASSUME NEW i \in 1..Len(program), program[i].op \in ops
        PROVE  Visited(i)' <=> Visited(i) \/ i = at
    BY <2>1, PassVisits
  <2> QED
    BY <1>1, <2>1 DEF VisitedItems
<1>3. D' = D \cup H
  <2>1. ASSUME NEW i \in 1..Len(program), program[i].op \in ops
        PROVE  Direct(i)' <=> Direct(i) \/ i = at
    BY <2>1, PassVisits
  <2> QED
    BY <1>1, <2>1 DEF DirectItems
<1>4. /\ NamedBy(VisitedItems, ops) = {program[i].of : i \in V}
      /\ NamedBy(DirectItems, ops) = {program[i].of : i \in D}
      /\ NamedBy(VisitedItems, ops)' = {program[i].of : i \in V'}
      /\ NamedBy(DirectItems, ops)' = {program[i].of : i \in D'}
  BY <1>1 DEF NamedBy
<1>5. here = {program[i].of : i \in H}
  BY DEF var
<1> HIDE DEF V, D, H, here
<1>6. /\ NamedBy(VisitedItems, ops)' = NamedBy(VisitedItems, ops) \cup here
      /\ NamedBy(DirectItems, ops)' = NamedBy(DirectItems, ops) \cup here
  BY <1>2, <1>3, <1>4, <1>5
<1> QED
  BY <1>6 DEF here
-----------------------------------------------------------------------------
(* What is declared *)

\* A declaration that is in this unit or in one around it.
Around(j) == UnitOf(j) = unit \/ Close(unit) < Close(UnitOf(j))

\* The variable has been declared if the declaration has been passed.
LEMMA DeclaredIffDirect ==
    ASSUME PositionInvariant, NamesInvariant, NEW i \in 1..Len(program), NEW j \in 1..Len(program),
           Resolves(j, i), Around(j)
    PROVE  /\ program[i].of \in declared <=> Direct(j)
           /\ program[i].of \in NamedBy(DirectItems, Declaring) <=> Direct(j)
           /\ program[i].of \in DeclaredIn(unit) <=> UnitOf(j) = unit
<1>1. \A k \in 1..Len(program) : program[k].op \in Declaring /\ program[k].of = program[i].of <=> k = j
  BY DEF Resolves
<1>2. Visited(j) => Direct(j)
  <2>1. Close(unit) \in Nat /\ Close(UnitOf(j)) \in Nat
    BY UnitSpan, UnitOfIs DEF PositionInvariant
  <2> QED
    BY <2>1 DEF Visited, Around
<1>3. program[i].of \in NamedBy(VisitedItems, Declaring) <=> Visited(j)
  BY <1>1 DEF NamedBy, VisitedItems
<1>4. program[i].of \in NamedBy(DirectItems, Declaring) <=> Direct(j)
  BY <1>1 DEF NamedBy, DirectItems
<1>5. program[i].of \in DeclaredIn(unit) <=> UnitOf(j) = unit
  BY <1>1 DEF DeclaredIn
<1> QED
  BY <1>2, <1>3, <1>4, <1>5 DEF NamesInvariant, Visited

\* What an item of the unit names is declared there, or in a unit around.
LEMMA NamedHere ==
    ASSUME WellFormed(program), unit \in Units, NEW i \in 1..Len(program), NEW j \in 1..Len(program),
           Resolves(j, i), UnitOf(i) = unit
    PROVE  Around(j)
<1>1. UnitOf(j) \in Units /\ i \in Within(UnitOf(j))
  <2>1. program[i].op # "end"
    BY DEF Resolves, Naming, Declaring
  <2> QED
    BY <2>1, UnitOfIs, ReachesWithin DEF Resolves
<1>2. UnitOf(i) # UnitOf(j) => Close(UnitOf(i)) < Close(UnitOf(j))
  BY <1>1, WithinUnit
<1> QED
  BY <1>2 DEF Around

(* Passing an item keeps what is known of names.                           *)
LEMMA PassKeepsNames ==
    ASSUME Passes, Resolved(program), NamesInvariant, UNCHANGED captures,
           declared' = declared \cup (IF program[at].op \in Declaring THEN {var} ELSE {}),
           program[at].op \in Declaring => undeclared' = undeclared \ {var} /\ pending' = pending,
           program[at].op \in {"assign", "use"} => NoteUndeclared,
           program[at].op \notin Naming => UNCHANGED <<undeclared, pending>>
    PROVE  NamesInvariant'
<1> DEFINE D == NamedBy(DirectItems, Declaring)
           N == NamedBy(DirectItems, {"assign", "use"})
           I == UNION {Free(v) : v \in NestedIn(unit)}
<1>1. /\ at \in 1..Len(program) /\ UnitOf(at) = unit /\ program' = program /\ unit' = unit
      /\ PositionInvariant /\ WellFormed(program) /\ unit \in Units
  BY PassVisits DEF Passes, PositionInvariant
<1>2. /\ NamedBy(VisitedItems, Declaring)'
            = NamedBy(VisitedItems, Declaring) \cup IF program[at].op \in Declaring THEN {var} ELSE {}
      /\ D' = D \cup IF program[at].op \in Declaring THEN {var} ELSE {}
      /\ N' = N \cup IF program[at].op \in {"assign", "use"} THEN {var} ELSE {}
  <2>1. "end" \notin Declaring /\ "end" \notin {"assign", "use"}
    BY DEF Declaring
  <2> QED
    BY <2>1, PassNames
<1>3. (at < Close(unit))' => UnitOf(at)' = unit'
  <2>1. \A i : UnitOf(i)' = UnitOf(i) /\ Close(i)' = Close(i)
    BY <1>1, SameProgram
  <2> QED
    BY <1>1, <2>1, PassVisits
<1>4. declared' = NamedBy(VisitedItems, Declaring)'
  BY <1>2 DEF NamesInvariant
<1>5. ClosedUnits' = ClosedUnits /\ \A u : Free(u)' = Free(u)
  BY <1>1, SameProgram DEF ClosedUnits
<1>6. (DOMAIN captures = ClosedUnits /\ \A u \in ClosedUnits : captures[u] = Free(u))'
  BY <1>5 DEF NamesInvariant
<1>7. I' = I
  <2>1. NestedIn(unit)' = NestedIn(unit)
    BY <1>1, SameProgram
  <2> QED
    BY <1>5, <2>1
<1>8. undeclared = (I \cup N) \ D
  BY DEF NamesInvariant
<1>9. undeclared' = (I' \cup N') \ D'
  <2> HIDE DEF I, N, D
  <2>1. CASE program[at].op \in Declaring
    <3>1. program[at].op \notin {"assign", "use"}
      BY <2>1 DEF Declaring
    <3> QED
      BY <1>2, <1>7, <1>8, <2>1, <3>1
  <2>2. CASE program[at].op \in {"assign", "use"}
    <3>1. program[at].op \notin Declaring
      BY <2>2 DEF Declaring
    <3>2. PICK j \in 1..Len(program) : Resolves(j, at)
      BY <1>1, <2>2, DeclarationOf DEF Naming
    <3>3. Around(j)
      BY <1>1, <3>2, NamedHere
    <3>4. var \in declared <=> var \in D
      BY <1>1, <3>2, <3>3, DeclaredIffDirect DEF var, D
    <3> QED
      BY <1>2, <1>7, <1>8, <2>2, <3>1, <3>4 DEF NoteUndeclared
  <2>3. CASE program[at].op \notin Naming
    BY <1>2, <1>7, <1>8, <2>3 DEF Naming
  <2> QED
    BY <2>1, <2>2, <2>3 DEF Naming
<1>10. (pending \subseteq {i \in DirectItems : program[i].op \in {"assign", "use"}})'
  <2> DEFINE P == {i \in DirectItems : program[i].op \in {"assign", "use"}}
  <2>1. P \subseteq P'
    BY <1>1, PassVisits DEF DirectItems
  <2>2. program[at].op \in {"assign", "use"} => at \in P'
    BY <1>1, PassVisits DEF DirectItems
  <2>3. pending \subseteq P
    BY DEF NamesInvariant
  <2>4. \/ pending' = pending
        \/ program[at].op \in {"assign", "use"} /\ pending' = pending \cup {at}
    <3>1. program[at].op \in {"assign", "use"} => pending' = pending \/ pending' = pending \cup {at}
      BY DEF NoteUndeclared
    <3>2. program[at].op \notin {"assign", "use"} => pending' = pending
      BY DEF Naming
    <3> QED
      BY <3>1, <3>2
  <2>5. pending' \subseteq P'
    <3> HIDE DEF P
    <3> QED
      BY <2>1, <2>2, <2>3, <2>4
  <2> QED
    BY <1>1, <2>5
<1> QED
  BY <1>3, <1>4, <1>6, <1>9, <1>10 DEF NamesInvariant

(* The unit that closes next, once this one is closed.                     *)
LEMMA NextUnitIs ==
    ASSUME WellFormed(program), unit \in Units, unit # 0
    PROVE  /\ NextUnit(unit) \in Units
           /\ \A u \in Units : Close(u) < Close(NextUnit(unit)) <=> u = unit \/ Close(u) < Close(unit)
<1> DEFINE later == {v \in Units : Close(v) > Close(unit)}
<1>1. \A u \in Units : Close(u) \in Nat /\ u \in Nat /\ u < Close(u)
  BY UnitSpan
<1>2. 0 \in later
  <2>1. 0 \in Units /\ Close(0) = Len(program) + 1 /\ Close(unit) \in 1..Len(program) /\ Len(program) \in Nat
    BY UnitSpan DEF Units
  <2> QED
    BY <2>1
<1>3. \E v \in later : \A w \in later : Close(v) <= Close(w)
  <2>1. later \in SUBSET Units /\ later # {}
    BY <1>2
  <2> HIDE DEF later
  <2> QED
    BY <2>1, UnitsClose
<1>4. NextUnit(unit) \in later /\ \A w \in later : Close(NextUnit(unit)) <= Close(w)
  <2>1. NextUnit(unit) = CHOOSE v \in later : \A w \in later : Close(v) <= Close(w)
    BY DEF NextUnit
  <2> HIDE DEF later
  <2> QED
    BY <1>3, <2>1
<1>5. ASSUME NEW u \in Units, Close(u) = Close(unit) PROVE u = unit
  <2>1. ASSUME NEW x \in Units, NEW y \in Units, Close(x) = Close(y), x < y PROVE FALSE
    <3>1. Close(y) < Close(x)
      BY <1>1, <2>1, UnitsNest
    <3> QED
      BY <1>1, <2>1, <3>1
  <2>2. ~ (u < unit) /\ ~ (unit < u)
    BY <1>5, <2>1
  <2> QED
    BY <1>1, <2>2
<1>6. ASSUME NEW u \in Units
      PROVE  Close(u) < Close(NextUnit(unit)) <=> u = unit \/ Close(u) < Close(unit)
  <2>1. Close(u) \in Nat /\ Close(unit) \in Nat /\ Close(NextUnit(unit)) \in Nat
    BY <1>1, <1>4
  <2>2. Close(NextUnit(unit)) > Close(unit)
    BY <1>4
  <2>3. Close(u) > Close(unit) => Close(NextUnit(unit)) <= Close(u)
    BY <1>4
  <2> QED
    BY <1>5, <2>1, <2>2, <2>3
<1> QED
  BY <1>4, <1>6

(* At the end of a unit all its items are visited, all it declares is      *)
(* declared, and what is left undeclared is what is free in it.            *)
LEMMA AllDirect ==
    ASSUME PositionInvariant, Resolved(program), NamesInvariant, at = Close(unit)
    PROVE  /\ DirectItems = ItemsOf(unit) /\ undeclared = Free(unit)
           /\ DeclaredIn(unit) \subseteq declared
           /\ \A i \in 1..Len(program) : Visited(i) <=> UnitOf(i) = unit \/ Close(UnitOf(i)) < Close(unit)
<1>1. WellFormed(program) /\ unit \in Units
  BY DEF PositionInvariant
<1>2. \A i \in 1..Len(program) : UnitOf(i) = unit => i < at
  BY <1>1, UnitOfIs
<1>3. DirectItems = ItemsOf(unit)
  BY <1>2 DEF DirectItems, ItemsOf, Direct
<1>4. NamedBy(ItemsOf(unit), Declaring) = DeclaredIn(unit)
  BY DEF NamedBy, ItemsOf, DeclaredIn
<1>5. undeclared = Free(unit)
  BY <1>1, <1>3, <1>4, FreeSplit DEF NamesInvariant
<1>6. DeclaredIn(unit) \subseteq declared
  <2>1. ASSUME NEW j \in 1..Len(program), program[j].op \in Declaring, UnitOf(j) = unit
        PROVE  program[j].of \in declared
    BY <1>2, <2>1 DEF NamesInvariant, NamedBy, VisitedItems, Visited, Direct
  <2> QED
    BY <2>1 DEF DeclaredIn
<1> QED
  BY <1>2, <1>3, <1>5, <1>6 DEF Visited, Direct

(* What is known of names where a unit is entered: nothing of it is        *)
(* visited, and what was captured in the units in it is not declared.      *)
EntersNames ==
    /\ WellFormed(program) /\ unit \in Units /\ at = unit + 1
    /\ declared = NamedBy({i \in 1..Len(program) : Close(UnitOf(i)) < Close(unit)}, Declaring)
    /\ DOMAIN captures = ClosedUnits /\ \A u \in ClosedUnits : captures[u] = Free(u)
    /\ undeclared = UNION {captures[v] : v \in NestedIn(unit)}
    /\ pending = {}

\* Nothing of a unit is visited where it is entered.
LEMMA NoneDirect ==
    ASSUME WellFormed(program), at = unit + 1, unit \in Units
    PROVE  /\ DirectItems = {} /\ VisitedItems = {i \in 1..Len(program) : Close(UnitOf(i)) < Close(unit)}
<1>1. \A i \in 1..Len(program) : ~ Direct(i)
  <2>1. ASSUME NEW i \in 1..Len(program), UnitOf(i) = unit, i < unit + 1 PROVE FALSE
    BY <2>1, UnitOfIs, UnitSpan
  <2> QED
    BY <2>1 DEF Direct
<1> QED
  BY <1>1 DEF DirectItems, VisitedItems, Visited

\* So what is known of names holds.
LEMMA EnterNames == EntersNames => NamesInvariant
<1> SUFFICES ASSUME EntersNames PROVE NamesInvariant
  OBVIOUS
<1>1. WellFormed(program) /\ unit \in Units /\ at = unit + 1
  BY DEF EntersNames
<1>2. at < Close(unit) => UnitOf(at) = unit
  <2>1. /\ unit \in Nat /\ Close(unit) \in Nat /\ Close(unit) <= Len(program) + 1 /\ Len(program) \in Nat
    BY <1>1, UnitSpan
  <2>2. ASSUME at < Close(unit) PROVE UnitOf(at) = unit
    <3>1. at \in 1..Len(program)
      BY <1>1, <2>1, <2>2
    <3>2. UnitOf(at) \in Units /\ UnitOf(at) < at /\ unit <= UnitOf(at)
      BY <1>1, <2>1, <2>2, <3>1, UnitOfIs
    <3> QED
      BY <1>1, <2>1, <3>2, UnitSpan
  <2> QED
    BY <2>2
<1>3. \A ops : NamedBy(DirectItems, ops) = {}
  BY <1>1, NoneDirect DEF NamedBy
<1>4. declared = NamedBy(VisitedItems, Declaring)
  BY <1>1, NoneDirect DEF EntersNames
<1>5. \A v \in NestedIn(unit) : captures[v] = Free(v)
  BY <1>1, ChildUnit DEF EntersNames, ClosedUnits
<1>6. UNION {captures[v] : v \in NestedIn(unit)} = UNION {Free(v) : v \in NestedIn(unit)}
  BY <1>5
<1> QED
  BY <1>2, <1>3, <1>4, <1>6 DEF EntersNames, NamesInvariant

\* The same for the next state.
LEMMA EnterNamesNext == EntersNames' => NamesInvariant'
  BY EnterNames, PTL

(* Nothing is known of names where the first unit is entered.              *)
LEMMA InitNames ==
    ASSUME WellFormed(program), AnalysisInit
    PROVE  NamesInvariant
<1>1. unit \in Units /\ \A v \in Units : Close(unit) <= Close(v)
  <2>1. Units \in SUBSET Units /\ Units # {}
    BY DEF Units
  <2>2. \E u \in Units : \A v \in Units : Close(u) <= Close(v)
    BY <2>1, UnitsClose
  <2> QED
    BY <2>2 DEF AnalysisInit, FirstUnit
<1>2. \A u \in Units : ~ (Close(u) < Close(unit))
  <2>1. \A u \in Units : Close(u) \in Nat
    BY UnitSpan
  <2> QED
    BY <1>1, <2>1
<1>3. ClosedUnits = {} /\ NestedIn(unit) = {}
  <2>1. NestedIn(unit) = {}
    BY <1>2, ChildUnit
  <2> QED
    BY <1>2, <2>1 DEF ClosedUnits
<1>4. {i \in 1..Len(program) : Close(UnitOf(i)) < Close(unit)} = {}
  BY <1>2, UnitOfIs
<1>5. EntersNames
  <2>1. NamedBy({}, Declaring) = {}
    BY DEF NamedBy
  <2> QED
    BY <1>1, <1>3, <1>4, <2>1 DEF AnalysisInit, EntersNames
<1> QED
  BY <1>5, EnterNames

(* The analysis goes on with the next unit.                                *)
LEMMA EndKeepsNames ==
    ASSUME PositionInvariant, Resolved(program), NamesInvariant, EndUnit, unit # 0
    PROVE  /\ NamesInvariant' /\ unit' \in Units /\ at' = unit' + 1
           /\ VisitedItems' = VisitedItems /\ DirectItems' = {}
<1>1. /\ WellFormed(program) /\ unit \in Units /\ at = Close(unit) /\ program' = program
      /\ unit' = NextUnit(unit) /\ at' = unit' + 1 /\ declared' = declared /\ pending' = {}
      /\ undeclared' = UNION {captures'[v] : v \in NestedIn(unit')}
      /\ captures' = [u \in DOMAIN captures \cup {unit} |-> IF u = unit THEN undeclared ELSE captures[u]]
  BY DEF EndUnit, PositionInvariant
<1>2. /\ unit' \in Units
      /\ \A u \in Units : Close(u) < Close(unit') <=> u = unit \/ Close(u) < Close(unit)
  BY <1>1, NextUnitIs
<1>3. Units' = Units /\ \A u : Close(u)' = Close(u) /\ UnitOf(u)' = UnitOf(u) /\ NestedIn(u)' = NestedIn(u)
                              /\ Free(u)' = Free(u)
  BY <1>1, SameProgram
<1>4. ClosedUnits' = ClosedUnits \cup {unit}
  BY <1>1, <1>2, <1>3 DEF ClosedUnits
<1>5. (DOMAIN captures = ClosedUnits /\ \A u \in ClosedUnits : captures[u] = Free(u))'
  <2>1. undeclared = Free(unit)
    BY <1>1, AllDirect
  <2>2. DOMAIN captures' = ClosedUnits'
    BY <1>1, <1>4 DEF NamesInvariant
  <2>3. \A u \in ClosedUnits' : captures'[u] = Free(u)
    BY <1>1, <1>4, <2>1 DEF NamesInvariant
  <2> QED
    BY <1>3, <2>2, <2>3
<1>6. \A i \in 1..Len(program) : Close(UnitOf(i)) < Close(unit') <=> Visited(i)
  BY <1>1, <1>2, AllDirect, UnitOfIs
<1>7. {i \in 1..Len(program') : Close(UnitOf(i))' < Close(unit)'} = VisitedItems
  <2>1. \A i : Close(UnitOf(i))' = Close(UnitOf(i)) /\ Close(unit)' = Close(unit')
    BY <1>1 DEF Close, UnitOf, Units
  <2> QED
    BY <1>1, <1>6, <2>1 DEF VisitedItems
<1>8. NamedBy(VisitedItems, Declaring)' = NamedBy(VisitedItems', Declaring)
  BY <1>1 DEF NamedBy
<1>9. EntersNames'
  <2>1. declared' = NamedBy({i \in 1..Len(program) : Close(UnitOf(i)) < Close(unit)}, Declaring)'
    <3>1. NamedBy({i \in 1..Len(program) : Close(UnitOf(i)) < Close(unit)}, Declaring)'
             = NamedBy(VisitedItems, Declaring)
      BY <1>1, <1>7 DEF NamedBy
    <3> QED
      BY <1>1, <3>1 DEF NamesInvariant
  <2>2. undeclared' = (UNION {captures[v] : v \in NestedIn(unit)})'
    <3>1. NestedIn(unit)' = NestedIn(unit')
      BY <1>1, <1>3 DEF NestedIn
    <3> QED
      BY <1>1, <3>1
  <2> QED
    BY <1>1, <1>2, <1>3, <1>5, <2>1, <2>2 DEF EntersNames
<1>10. NamesInvariant'
  BY <1>9, EnterNamesNext
<1>11. VisitedItems' = VisitedItems /\ DirectItems' = {}
  <2>1. /\ (WellFormed(program) /\ at = unit + 1 /\ unit \in Units)'
    BY <1>1, <1>2, <1>3
  <2>2. (WellFormed(program) /\ at = unit + 1 /\ unit \in Units
           => DirectItems = {} /\ VisitedItems = {i \in 1..Len(program) : Close(UnitOf(i)) < Close(unit)})'
    BY NoneDirect, PTL
  <2> QED
    BY <1>7, <2>1, <2>2
<1> QED
  BY <1>1, <1>2, <1>10, <1>11
-----------------------------------------------------------------------------
(* What the ways declare *)

\* What passing an item does to the depth, seen from an item before.
LEMMA PassDepth ==
    ASSUME Passes, NEW j \in DirectItems
    PROVE  /\ j \in 1..Len(program) /\ j < at /\ j \in Int /\ at \in Int /\ at' \in Int /\ at < at'
           /\ Reaches(program, j, at') => Reaches(program, j, at)
           /\ Depth(program, j, at' - 1) = Depth(program, j, at - 1) + Depth(program, at, at' - 1)
           /\ Depth(program, j, at - 1) \in Int /\ Depth(program, at, at' - 1) \in Int
           /\ Reaches(program, j, at') => /\ Depth(program, j, at) >= 0
                                          /\ program[at].op = "else" => Depth(program, j, at) > 0
<1> DEFINE next == at'
           b == at - 1
           c == next - 1
<1>1. /\ j \in 1..Len(program) /\ j < at /\ at \in 1..Len(program)
      /\ next \in (at + 1)..Close(unit) /\ Close(unit) \in Nat
  BY PassVisits, UnitSpan DEF DirectItems, Direct, Passes, PositionInvariant
<1> HIDE DEF next
<1>2. j \in Int /\ at \in Int /\ next \in Int /\ at < next
  BY <1>1
<1>3. b \in Int /\ c \in Int /\ j <= b + 1 /\ b <= c /\ b + 1 = at
  BY <1>1, <1>2
<1> HIDE DEF b, c
<1>4. /\ Depth(program, j, c) = Depth(program, j, b) + Depth(program, b + 1, c)
      /\ Depth(program, j, b) \in Int /\ Depth(program, b + 1, c) \in Int
  <2>1. DepthAdds(program, j, b, c)
    BY <1>2, <1>3, DepthSplit
  <2> QED
    BY <1>2, <1>3, <2>1 DEF DepthAdds
<1>5. Reaches(program, j, next) => Reaches(program, j, at)
  BY <1>1, <1>2 DEF Reaches
<1>6. Reaches(program, j, next) => /\ Depth(program, j, at) >= 0
                                   /\ program[at].op = "else" => Depth(program, j, at) > 0
  BY <1>1, <1>2 DEF Reaches
<1> QED
  BY <1>1, <1>2, <1>3, <1>4, <1>5, <1>6 DEF b, c, next

\* An if opens a block and its end closes it; all else that is passed is level.
LEMMA PassLevel ==
    ASSUME Passes
    PROVE  /\ program[at].op = "if" => Depth(program, at, at' - 1) = 1 /\ at' = at + 1
           /\ program[at].op = "end" => Depth(program, at, at' - 1) = -1 /\ at' = at + 1
           /\ program[at].op \notin {"if", "end"} => Depth(program, at, at' - 1) = 0
           /\ program[at].op \notin UnitOp => at' = at + 1 /\ at' - 1 = at
<1>1. at \in Int /\ at \in 1..Len(program)
  BY PassVisits
<1>2. CASE program[at].op \notin UnitOp
  <2>1. at' = at + 1 /\ at' - 1 = at
    BY <1>1, <1>2 DEF Passes
  <2> QED
    BY <1>1, <1>2, <2>1, DepthOne DEF Opening
<1>3. CASE program[at].op \in UnitOp
  <2>1. at' = Close(at) + 1 /\ at \in Units /\ at # 0
    BY <1>1, <1>3 DEF Passes, Units
  <2>2. Close(at) \in Nat /\ Depth(program, at, Close(at)) = 0
    BY <2>1, UnitSpan DEF Passes, PositionInvariant
  <2>3. at' - 1 = Close(at)
    BY <2>1, <2>2
  <2> QED
    BY <1>3, <2>2, <2>3 DEF UnitOp
<1> QED
  BY <1>2, <1>3

\* The ways in T are those so far, with more declared, assigned and captured.
Grown(T, D, A, C) ==
    /\ T # {}
    /\ \A q \in T : \E p \in paths : /\ q.declared = p.declared \cup D
                                     /\ q.assigned = p.assigned \cup A
                                     /\ q.captured = p.captured \cup C

\* What an item does to the ways.
LEMMA WaysGrow ==
    ASSUME paths \subseteq Path, paths # {}, NEW W
    PROVE  /\ Grown(Declared(W), W, {}, {}) /\ Grown(Defined(W), W, W, {})
           /\ Grown(Assigned(W), {}, W, {}) /\ Grown(Captured(W), {}, {}, W)
           /\ Grown(paths, {}, {}, {})
<1> DEFINE d(p) == [p EXCEPT !.declared = @ \cup W]
           a(p) == [p EXCEPT !.assigned = @ \cup W]
           b(p) == [p EXCEPT !.declared = @ \cup W, !.assigned = @ \cup W]
           c(p) == [p EXCEPT !.captured = @ \cup W]
<1>1. \A p \in Path : /\ d(p).declared = p.declared \cup W /\ d(p).assigned = p.assigned \cup {}
                      /\ d(p).captured = p.captured \cup {}
  BY DEF Path
<1>2. \A p \in Path : /\ a(p).declared = p.declared \cup {} /\ a(p).assigned = p.assigned \cup W
                      /\ a(p).captured = p.captured \cup {}
  BY DEF Path
<1>3. \A p \in Path : /\ b(p).declared = p.declared \cup W /\ b(p).assigned = p.assigned \cup W
                      /\ b(p).captured = p.captured \cup {}
  BY DEF Path
<1>4. \A p \in Path : /\ c(p).declared = p.declared \cup {} /\ c(p).assigned = p.assigned \cup {}
                      /\ c(p).captured = p.captured \cup W
  BY DEF Path
<1>5. /\ Declared(W) = {d(p) : p \in paths} /\ Assigned(W) = {a(p) : p \in paths}
      /\ Defined(W) = {b(p) : p \in paths} /\ Captured(W) = {c(p) : p \in paths}
  BY DEF Declared, Assigned, Defined, Captured
<1> HIDE DEF a, b, c, d
<1>6. Grown(Declared(W), W, {}, {})
  BY <1>1, <1>5 DEF Grown
<1>7. Grown(Assigned(W), {}, W, {})
  BY <1>2, <1>5 DEF Grown
<1>8. Grown(Defined(W), W, W, {})
  BY <1>3, <1>5 DEF Grown
<1>9. Grown(Captured(W), {}, {}, W)
  BY <1>4, <1>5 DEF Grown
<1>10. Grown(paths, {}, {}, {})
  BY DEF Grown
<1> QED
  BY <1>6, <1>7, <1>8, <1>9, <1>10

\* The parts of the invariant: what is so on one way, and what reaches it.
WayOK(p) ==
    /\ Var \ DeclaredIn(unit) \subseteq p.declared \cap p.assigned
    /\ p.declared \cap DeclaredIn(unit) \subseteq declared
    /\ faults = {} => p.captured \cap DeclaredIn(unit) \subseteq p.assigned
ReachOK(j) ==
    /\ \A p \in paths : program[j].of \in p.declared
    /\ \A k \in 1..Len(frames) : k > Len(frames) - Depth(program, j, at - 1) =>
          \A p \in WaysOf(k) : program[j].of \in p.declared

\* Way by way, and declaration by declaration.
LEMMA DeclarationsParts ==
    DeclarationsInvariant <=>
        /\ paths # {} /\ \A k \in 1..Len(frames) : branches[k].into # {}
        /\ \A p \in paths : WayOK(p)
        /\ \A k \in 1..Len(frames) : \A p \in WaysOf(k) : WayOK(p)
        /\ \A j \in DirectItems : program[j].op \in Declaring /\ Reaches(program, j, at) => ReachOK(j)
  BY DEF DeclarationsInvariant, AllWays, WayOK, ReachOK

\* The same for the next state.
LEMMA DeclarationsNext ==
    ASSUME (/\ paths # {} /\ \A k \in 1..Len(frames) : branches[k].into # {}
            /\ \A p \in paths : WayOK(p)
            /\ \A k \in 1..Len(frames) : \A p \in WaysOf(k) : WayOK(p)
            /\ \A j \in DirectItems : program[j].op \in Declaring /\ Reaches(program, j, at) => ReachOK(j))'
    PROVE  DeclarationsInvariant'
  BY DEF DeclarationsInvariant, AllWays, WayOK, ReachOK

(* An item that is no part of an if keeps it.                              *)
LEMMA PassKeepsDeclarations ==
    ASSUME Passes, DeclarationsInvariant, AnalysisTypeOK, UNCHANGED <<frames, branches>>,
           NEW D, NEW A, NEW C,
           D = (IF program[at].op \in Declaring THEN {var} ELSE {}),
           program[at].op \notin {"if", "else", "end"},
           Grown(paths', D, A, C), declared' = declared \cup D,
           faults' = {} => /\ faults = {}
                           /\ \A p \in paths : C \cap DeclaredIn(unit) \subseteq p.assigned
    PROVE  DeclarationsInvariant'
<1>1. /\ program' = program /\ unit' = unit /\ DeclaredIn(unit)' = DeclaredIn(unit)
      /\ at \in 1..Len(program)
  BY PassVisits, SameUnit DEF Passes
<1>2. \A k : WaysOf(k)' = WaysOf(k)
  BY DEF WaysOf
<1>3. ASSUME NEW p, WayOK(p) PROVE WayOK(p)'
  BY <1>1, <1>3 DEF WayOK
<1>4. ASSUME NEW q \in paths' PROVE WayOK(q)'
  <2>1. PICK p \in paths : /\ q.declared = p.declared \cup D /\ q.assigned = p.assigned \cup A
                           /\ q.captured = p.captured \cup C
    BY DEF Grown
  <2>2. WayOK(p)
    BY DeclarationsParts
  <2> QED
    BY <1>1, <2>1, <2>2 DEF WayOK
<1>5. ASSUME NEW j \in DirectItems', program[j].op \in Declaring, Reaches(program, j, at')
      PROVE  ReachOK(j)'
  <2>1. j \in 1..Len(program)
    BY <1>1 DEF DirectItems
  <2>2. CASE j = at
    <3>1. program[j].of \in D
      BY <1>5, <2>2 DEF var
    <3>2. \A p \in paths' : program[j].of \in p.declared
      BY <3>1 DEF Grown
    <3>3. Depth(program, j, at' - 1) = 0
      BY <1>5, <2>2, PassLevel
    <3> DEFINE n == Len(frames)
               m == at' - 1
    <3>4. ASSUME NEW k \in 1..n, k > n - Depth(program, j, m) PROVE FALSE
      <4> DEFINE e == Depth(program, j, m)
      <4>1. e = 0 /\ n \in Nat
        BY <3>3 DEF AnalysisTypeOK
      <4> HIDE DEF n, e
      <4>2. ~ (k > n - e)
        BY <4>1
      <4> QED
        BY <3>4, <4>2 DEF e
    <3> QED
      BY <1>1, <3>2, <3>4 DEF ReachOK
  <2>3. CASE j # at
    <3>1. j \in DirectItems
      <4>1. program[j].op # "end"
        BY <1>5 DEF Declaring
      <4> QED
        BY <1>1, <2>1, <2>3, <4>1, PassVisits DEF DirectItems
    <3>2. ReachOK(j)
      BY <1>5, <3>1, PassDepth, DeclarationsParts
    <3>3. Depth(program, j, at' - 1) = Depth(program, j, at - 1)
      BY <3>1, PassDepth, PassLevel
    <3>4. \A q \in paths' : program[j].of \in q.declared
      BY <3>2 DEF Grown, ReachOK
    <3> QED
      BY <1>1, <1>2, <3>2, <3>3, <3>4 DEF ReachOK
  <2> QED
    BY <2>2, <2>3
<1>6. paths' # {}
  BY DEF Grown
<1> QED
  BY <1>1, <1>2, <1>3, <1>4, <1>5, <1>6, DeclarationsParts, DeclarationsNext

\* Entering an if: the ways into it are kept.
LEMMA IfKeepsDeclarations ==
    ASSUME Passes, DeclarationsInvariant, AnalysisTypeOK, program[at].op = "if",
           NEW f, frames' = Append(frames, f), PathIf, UNCHANGED declared
    PROVE  DeclarationsInvariant'
<1> DEFINE n == Len(frames)
           b == [into |-> paths, through |-> paths]
           Branch == [into : SUBSET Path, through : SUBSET Path]
<1>1. /\ program' = program /\ unit' = unit /\ DeclaredIn(unit)' = DeclaredIn(unit)
      /\ at \in 1..Len(program) /\ paths' = paths /\ faults' = faults
      /\ branches' = Append(branches, b)
  BY PassVisits, SameUnit DEF Passes, PathIf
<1>2. /\ frames \in Seq(Frame) /\ branches \in Seq(Branch) /\ Len(branches) = n /\ n \in Nat
  BY DEF AnalysisTypeOK
<1>3. b.into = paths /\ b.through = paths
  OBVIOUS
<1> HIDE DEF b, Branch
<1>4. /\ Len(frames') = n + 1
      /\ \A k \in 1..n : branches'[k] = branches[k]
      /\ branches'[n + 1] = b
  BY <1>1, <1>2
<1> HIDE DEF n
<1>5. /\ \A k \in 1..n : WaysOf(k)' = WaysOf(k)
      /\ \A k : k = n + 1 => WaysOf(k)' = paths
  BY <1>3, <1>4 DEF WaysOf
<1>6. ASSUME NEW p, WayOK(p) PROVE WayOK(p)'
  BY <1>1, <1>6 DEF WayOK
<1>7. \A k \in 1..(n + 1) : k \in 1..n \/ k = n + 1
  BY <1>2
<1>8. \A k \in 1..Len(frames') : branches'[k].into # {}
  BY <1>3, <1>4, <1>7, DeclarationsParts DEF n
<1>9. \A k \in 1..Len(frames') : \A p \in WaysOf(k)' : WayOK(p)'
  BY <1>4, <1>5, <1>6, <1>7, DeclarationsParts DEF n
<1>10. ASSUME NEW j \in DirectItems', program[j].op \in Declaring, Reaches(program, j, at')
       PROVE  ReachOK(j)'
  <2>1. j \in 1..Len(program) /\ j # at
    BY <1>1, <1>10 DEF DirectItems, Declaring
  <2>2. j \in DirectItems
    <3>1. program[j].op # "end"
      BY <1>10 DEF Declaring
    <3> QED
      BY <1>1, <2>1, <3>1, PassVisits DEF DirectItems
  <2>3. ReachOK(j)
    BY <1>10, <2>2, PassDepth, DeclarationsParts
  <2>4. /\ Depth(program, j, at' - 1) = Depth(program, j, at - 1) + 1 /\ Depth(program, j, at - 1) \in Int
    BY <2>2, PassDepth, PassLevel
  <2> DEFINE e == Depth(program, j, at - 1)
             g == Depth(program, j, at' - 1)
  <2>5. ASSUME NEW k \in 1..(n + 1), k > (n + 1) - g PROVE k = n + 1 \/ (k \in 1..n /\ k > n - e)
    <3>1. g = e + 1 /\ e \in Int
      BY <2>4
    <3> HIDE DEF e, g
    <3> QED
      BY <1>2, <2>5, <3>1
  <2>6. ASSUME NEW k \in 1..(n + 1), k > (n + 1) - g, NEW p \in WaysOf(k)' PROVE program[j].of \in p.declared
    <3>1. CASE k = n + 1
      BY <1>5, <2>3, <2>6, <3>1 DEF ReachOK
    <3>2. CASE k # n + 1
      <4>1. k \in 1..n /\ k > n - e
        BY <2>5, <2>6, <3>2
      <4> QED
        BY <1>5, <2>3, <2>6, <4>1 DEF ReachOK, n
    <3> QED
      BY <3>1, <3>2
  <2> QED
    BY <1>1, <1>4, <2>3, <2>6 DEF ReachOK
<1>11. \A p \in paths' : WayOK(p)'
  BY <1>1, <1>6, DeclarationsParts
<1>12. paths' # {}
  BY <1>1, DeclarationsParts
<1> QED
  BY <1>1, <1>8, <1>9, <1>10, <1>11, <1>12, DeclarationsNext

\* From the first branch of an if to the second: back to the ways into it.
LEMMA ElseKeepsDeclarations ==
    ASSUME Passes, DeclarationsInvariant, AnalysisTypeOK, program[at].op = "else",
           Len(frames) > 0, Len(frames') = Len(frames), PathElse, UNCHANGED declared
    PROVE  DeclarationsInvariant'
<1> DEFINE n == Len(frames)
           b == [into |-> branches[n].into, through |-> paths]
           Branch == [into : SUBSET Path, through : SUBSET Path]
<1>1. /\ program' = program /\ unit' = unit /\ DeclaredIn(unit)' = DeclaredIn(unit)
      /\ at \in 1..Len(program) /\ faults' = faults
  BY PassVisits, SameUnit DEF Passes, PathElse
<1>2. /\ branches \in Seq(Branch) /\ Len(branches) = n /\ n \in Nat /\ n > 0 /\ n \in 1..n
  BY DEF AnalysisTypeOK
<1>3. branches[n] \in Branch
  <2> HIDE DEF Branch
  <2> QED
    BY <1>2
<1>4. /\ branches' = [branches EXCEPT ![n] = b] /\ paths' = branches[n].into
  <2>1. branches[n] = [into |-> branches[n].into, through |-> branches[n].through]
    BY <1>3
  <2>2. [branches[n] EXCEPT !.through = paths] = b
    BY <2>1
  <2>3. branches' = [branches EXCEPT ![n] = [branches[n] EXCEPT !.through = paths]]
    BY <1>2 DEF PathElse
  <2>4. paths' = branches[n].into
    BY <1>2 DEF PathElse
  <2> HIDE DEF b
  <2> QED
    BY <2>2, <2>3, <2>4
<1>5. b.into = branches[n].into /\ b.through = paths
  OBVIOUS
<1> HIDE DEF b
<1>6. branches'[n] = b /\ \A k \in 1..n : k # n => branches'[k] = branches[k]
  <2> HIDE DEF Branch
  <2> QED
    BY <1>2, <1>4
<1> HIDE DEF Branch, n
<1>7. \A k \in 1..n : \A p \in WaysOf(k)' : p \in WaysOf(k) \/ p \in paths
  BY <1>2, <1>5, <1>6 DEF WaysOf
<1>8. ASSUME NEW p, WayOK(p) PROVE WayOK(p)'
  BY <1>1, <1>8 DEF WayOK
<1>9. Len(frames') = n
  BY DEF n
<1>10. \A k \in 1..Len(frames') : branches'[k].into # {}
  BY <1>5, <1>6, <1>9, DeclarationsParts DEF n
<1>11. \A k \in 1..Len(frames') : \A p \in WaysOf(k)' : WayOK(p)'
  BY <1>7, <1>8, <1>9, DeclarationsParts DEF n
<1>12. paths' # {} /\ paths' \subseteq WaysOf(n)
  BY <1>2, <1>4, DeclarationsParts DEF n, WaysOf
<1>13. \A p \in paths' : WayOK(p)'
  BY <1>2, <1>8, <1>12, DeclarationsParts DEF n
<1>14. ASSUME NEW j \in DirectItems', program[j].op \in Declaring, Reaches(program, j, at')
       PROVE  ReachOK(j)'
  <2>1. j \in 1..Len(program) /\ j # at
    BY <1>1, <1>14 DEF DirectItems, Declaring
  <2>2. j \in DirectItems
    <3>1. program[j].op # "end"
      BY <1>14 DEF Declaring
    <3> QED
      BY <1>1, <2>1, <3>1, PassVisits DEF DirectItems
  <2>3. ReachOK(j)
    BY <1>14, <2>2, PassDepth, DeclarationsParts
  <2> DEFINE e == Depth(program, j, at - 1)
             g == Depth(program, j, at' - 1)
  <2>4. g = e /\ e \in Int /\ g = Depth(program, j, at)
    BY <1>1, <2>2, PassDepth, PassLevel DEF UnitOp
  <2>5. g > 0
    BY <1>14, <2>2, <2>4, PassDepth
  <2>6. \A k \in 1..n : k > n - e => \A p \in WaysOf(k) : program[j].of \in p.declared
    BY <2>3 DEF ReachOK, n
  <2>7. \A p \in paths : program[j].of \in p.declared
    BY <2>3 DEF ReachOK
  <2> HIDE DEF e, g
  <2>8. n > n - e
    BY <1>2, <2>4, <2>5
  <2>9. \A p \in paths' : program[j].of \in p.declared
    BY <1>2, <1>12, <2>6, <2>8
  <2>10. \A k \in 1..n : k > n - g => \A p \in WaysOf(k)' : program[j].of \in p.declared
    BY <1>7, <2>4, <2>6, <2>7
  <2> QED
    BY <1>1, <1>9, <2>9, <2>10 DEF ReachOK, g
<1> QED
  BY <1>1, <1>10, <1>11, <1>12, <1>13, <1>14, DeclarationsNext

\* Leaving an if: the ways through both branches.
LEMMA EndIfKeepsDeclarations ==
    ASSUME Passes, DeclarationsInvariant, AnalysisTypeOK, program[at].op = "end",
           Len(frames) > 0, Len(frames') = Len(frames) - 1, PathEndIf, UNCHANGED declared
    PROVE  DeclarationsInvariant'
<1> DEFINE n == Len(frames)
           Branch == [into : SUBSET Path, through : SUBSET Path]
<1>1. /\ program' = program /\ unit' = unit /\ DeclaredIn(unit)' = DeclaredIn(unit)
      /\ at \in 1..Len(program) /\ faults' = faults
  BY PassVisits, SameUnit DEF Passes, PathEndIf
<1>2. /\ branches \in Seq(Branch) /\ Len(branches) = n /\ n \in Nat /\ n > 0 /\ n \in 1..n
  BY DEF AnalysisTypeOK
<1>3. \A k \in 1..(n - 1) : branches'[k] = branches[k] /\ k \in 1..n
  <2>1. branches' = SubSeq(branches, 1, n - 1)
    BY <1>2 DEF PathEndIf
  <2> HIDE DEF Branch
  <2> QED
    BY <1>2, <2>1, FrontOfSeq
<1>4. paths' = paths \cup branches[n].through
  BY <1>2 DEF PathEndIf
<1> HIDE DEF n, Branch
<1>5. Len(frames') = n - 1
  BY DEF n
<1>6. \A k \in 1..(n - 1) : WaysOf(k)' = WaysOf(k)
  BY <1>3 DEF WaysOf
<1>7. ASSUME NEW p, WayOK(p) PROVE WayOK(p)'
  BY <1>1, <1>7 DEF WayOK
<1>8. \A k \in 1..Len(frames') : branches'[k].into # {}
  BY <1>3, <1>5, DeclarationsParts DEF n
<1>9. \A k \in 1..Len(frames') : \A p \in WaysOf(k)' : WayOK(p)'
  BY <1>3, <1>5, <1>6, <1>7, DeclarationsParts DEF n
<1>10. \A p \in paths' : p \in paths \/ p \in WaysOf(n)
  BY <1>4 DEF WaysOf
<1>11. paths' # {}
  BY <1>4, DeclarationsParts
<1>12. \A p \in paths' : WayOK(p)'
  BY <1>2, <1>7, <1>10, DeclarationsParts DEF n
<1>13. ASSUME NEW j \in DirectItems', program[j].op \in Declaring, Reaches(program, j, at')
       PROVE  ReachOK(j)'
  <2>1. j \in 1..Len(program) /\ j # at
    BY <1>1, <1>13 DEF DirectItems, Declaring
  <2>2. j \in DirectItems
    <3>1. program[j].op # "end"
      BY <1>13 DEF Declaring
    <3> QED
      BY <1>1, <2>1, <3>1, PassVisits DEF DirectItems
  <2>3. ReachOK(j)
    BY <1>13, <2>2, PassDepth, DeclarationsParts
  <2> DEFINE e == Depth(program, j, at - 1)
             g == Depth(program, j, at' - 1)
  <2>4. g = e - 1 /\ e \in Int /\ g = Depth(program, j, at)
    <3>1. g = e + Depth(program, at, at' - 1) /\ e \in Int /\ Depth(program, at, at' - 1) = -1
      BY <2>2, PassDepth, PassLevel
    <3>2. g = Depth(program, j, at)
      BY PassLevel DEF UnitOp
    <3> HIDE DEF e, g
    <3> QED
      BY <3>1, <3>2
  <2>5. g >= 0
    BY <1>13, <2>2, <2>4, PassDepth
  <2>6. \A k \in 1..n : k > n - e => \A p \in WaysOf(k) : program[j].of \in p.declared
    BY <2>3 DEF ReachOK, n
  <2>7. \A p \in paths : program[j].of \in p.declared
    BY <2>3 DEF ReachOK
  <2> HIDE DEF e, g
  <2>8. n > n - e /\ n - 1 - g = n - e
    BY <1>2, <2>4, <2>5
  <2>9. \A p \in paths' : program[j].of \in p.declared
    BY <1>2, <1>10, <2>6, <2>7, <2>8
  <2>10. \A k \in 1..(n - 1) : k > n - 1 - g => \A p \in WaysOf(k)' : program[j].of \in p.declared
    BY <1>3, <1>6, <2>6, <2>8
  <2> QED
    BY <1>1, <1>5, <2>9, <2>10 DEF ReachOK, g
<1> QED
  BY <1>1, <1>8, <1>9, <1>11, <1>12, <1>13, DeclarationsNext

\* Where a unit is entered there is one way, with the variables around it.
EntersWays ==
    WellFormed(program) /\ at = unit + 1 /\ unit \in Units /\ frames = << >> /\ paths = Enter(unit)

\* So what the ways declare is known there.
LEMMA EnterDeclarations == EntersWays => DeclarationsInvariant
<1> SUFFICES ASSUME EntersWays PROVE DeclarationsInvariant
  OBVIOUS
<1>1. Len(frames) = 0 /\ \A k \in 1..Len(frames) : FALSE
  BY DEF EntersWays
<1>2. DirectItems = {}
  BY NoneDirect DEF EntersWays
<1>3. paths # {} /\ \A p \in paths : WayOK(p)
  BY DEF Enter, WayOK, EntersWays
<1> QED
  BY <1>1, <1>2, <1>3, DeclarationsParts

\* The same for the next state.
LEMMA EnterDeclarationsNext == EntersWays' => DeclarationsInvariant'
  BY EnterDeclarations, PTL
-----------------------------------------------------------------------------
(* What has to be mutable *)

\* A declaration: what inner units assigned is mutable.
LEMMA DeclaringKeepsBoxes ==
    ASSUME BoxesInvariant, UNCHANGED <<program, needsBox, mixed, faults>>,
           declared' = declared \cup {var}, assigned \subseteq assigned',
           mutable \cup DeclaredMutable \subseteq mutable'
    PROVE  BoxesInvariant'
<1>1. NamedBy(1..Len(program), Naming)' = NamedBy(1..Len(program), Naming)
  BY DEF NamedBy
<1>2. assigned \ declared \subseteq mutable' \cup (assigned' \ declared')
  BY DEF DeclaredMutable
<1> QED
  BY <1>1, <1>2 DEF BoxesInvariant

\* Steps that assign no variable.
LEMMA OthersKeepBoxes ==
    ASSUME BoxesInvariant, UNCHANGED <<program, needsBox, mixed, declared, mutable, assigned>>,
           faults \subseteq faults'
    PROVE  BoxesInvariant'
<1>1. NamedBy(1..Len(program), Naming)' = NamedBy(1..Len(program), Naming)
  BY DEF NamedBy
<1> QED
  BY <1>1 DEF BoxesInvariant

(* An assignment of a captured variable: if it is this unit's, some or all *)
(* ways have assigned it; otherwise its declaration is still to come.      *)
LEMMA AssignKeepsBoxes ==
    ASSUME Passes, Resolved(program), NamesInvariant, DeclarationsInvariant, BoxesInvariant,
           AssignedOnAll(paths, initialized), Assign, PathAssign
    PROVE  BoxesInvariant'
<1>1. /\ at \in 1..Len(program) /\ UnitOf(at) = unit /\ program' = program
      /\ PositionInvariant /\ WellFormed(program) /\ unit \in Units /\ program[at].op = "assign"
  BY PassVisits DEF Passes, PositionInvariant, Assign, Meets
<1>2. /\ declared' = declared /\ assigned' = assigned \cup {var}
      /\ mutable' = mutable \cup (IF var \in initialized THEN {var} ELSE {})
      /\ needsBox' = IF \E p \in paths : var \in p.captured THEN needsBox \cup {var} ELSE needsBox
      /\ mixed' = IF \E p, q \in paths : var \in p.assigned /\ var \notin q.assigned
                  THEN mixed \cup {var} ELSE mixed
      /\ faults \subseteq faults'
  BY DEF Assign, AssignVariable, PathAssign, Fault
<1>3. NamedBy(1..Len(program), Naming)' = NamedBy(1..Len(program), Naming)
  BY <1>1 DEF NamedBy
<1>4. var \in NamedBy(1..Len(program), Naming)
  BY <1>1 DEF NamedBy, Naming, var
<1>5. ASSUME faults' = {}, NEW p \in paths, var \in p.captured
      PROVE  var \in mutable' \cup mixed' \cup (assigned' \ declared')
  <2>1. PICK j \in 1..Len(program) : Resolves(j, at)
    BY <1>1, DeclarationOf DEF Naming
  <2>2. Around(j)
    BY <1>1, <2>1, NamedHere
  <2>3. CASE var \in DeclaredIn(unit)
    <3>1. var \in p.assigned
      BY <1>2, <1>5, <2>3, DeclarationsParts DEF WayOK
    <3>2. CASE \A q \in paths : var \in q.assigned
      BY <1>2, <2>3, <3>2 DEF AssignedOnAll
    <3>3. CASE ~ \A q \in paths : var \in q.assigned
      BY <1>2, <3>1, <3>3
    <3> QED
      BY <3>2, <3>3
  <2>4. CASE var \notin DeclaredIn(unit)
    <3>1. UnitOf(j) # unit
      BY <1>1, <2>1, <2>2, <2>4, DeclaredIffDirect DEF var
    <3>2. var \notin declared
      BY <1>1, <2>1, <2>2, <3>1, DeclaredIffDirect DEF var, Direct
    <3> QED
      BY <1>2, <3>2
  <2> QED
    BY <2>3, <2>4
<1>6. needsBox' \subseteq NamedBy(1..Len(program), Naming)
  BY <1>2, <1>4 DEF BoxesInvariant
<1>7. ASSUME faults' = {} PROVE needsBox' \subseteq mutable' \cup mixed' \cup (assigned' \ declared')
  <2>1. faults = {}
    BY <1>2, <1>7
  <2>2. needsBox \subseteq mutable' \cup mixed' \cup (assigned' \ declared')
    BY <1>2, <2>1 DEF BoxesInvariant
  <2>3. CASE \E p \in paths : var \in p.captured
    BY <1>2, <1>5, <1>7, <2>2, <2>3
  <2>4. CASE ~ \E p \in paths : var \in p.captured
    BY <1>2, <2>2, <2>4
  <2> QED
    BY <2>3, <2>4
<1> QED
  BY <1>3, <1>6, <1>7 DEF BoxesInvariant
-----------------------------------------------------------------------------
(* What is reported *)

(* What a declaration reaches within a unit, it reaches wherever the       *)
(* unit's own name reaches.                                                *)
LEMMA ReachesAcross ==
    ASSUME WellFormed(program), NEW c \in Units \ {0}, NEW k \in Within(c),
           NEW j \in 1..Len(program), j \notin Within(c), j # c, program[j].op # "end",
           Reaches(program, j, k),
           NEW i \in 1..Len(program), j < i, Reaches(program, c, i)
    PROVE  Reaches(program, j, i)
<1>1. /\ c \in 1..Len(program) /\ c \in Nat /\ Close(c) \in Nat /\ c < Close(c) /\ Len(program) \in Nat
      /\ Depth(program, c, Close(c)) = 0 /\ program[Close(c)].op = "end"
  BY UnitSpan
<1>2. k \in Int /\ c < k /\ k < Close(c) /\ j \in Int /\ i \in Int
  BY <1>1 DEF Within
<1>3. j < c \/ Close(c) < j
  BY <1>1 DEF Within
<1>4. SUFFICES ASSUME NEW m \in j..(i - 1)
               PROVE  Depth(program, j, m) >= 0 /\ (program[m].op = "else" => Depth(program, j, m) > 0)
  BY DEF Reaches
<1>5. m \in Int /\ j <= m /\ m < i
  BY <1>2
<1>6. CASE j < c /\ m < c
  <2>1. m \in j..(k - 1) /\ j < k
    BY <1>1, <1>2, <1>5, <1>6
  <2> QED
    BY <2>1 DEF Reaches
<1>7. CASE j < c /\ c <= m
  <2> DEFINE b == c - 1
  <2>1. j \in Int /\ b \in Int /\ m \in Int /\ j <= b + 1 /\ b <= m /\ b + 1 = c
    BY <1>1, <1>2, <1>5, <1>7
  <2>2. b \in j..(k - 1) /\ j < k /\ m \in c..(i - 1) /\ c < i
    BY <1>1, <1>2, <1>5, <1>7
  <2> HIDE DEF b
  <2>3. /\ Depth(program, j, m) = Depth(program, j, b) + Depth(program, b + 1, m)
        /\ Depth(program, j, b) \in Int /\ Depth(program, b + 1, m) \in Int
    <3>1. DepthAdds(program, j, b, m)
      BY <2>1, DepthSplit
    <3> QED
      BY <2>1, <3>1 DEF DepthAdds
  <2>4. Depth(program, j, b) >= 0
    BY <2>2 DEF Reaches
  <2>5. Depth(program, c, m) >= 0 /\ (program[m].op = "else" => Depth(program, c, m) > 0)
    BY <2>2 DEF Reaches
  <2> QED
    BY <2>1, <2>3, <2>4, <2>5
<1>8. CASE Close(c) < j
  <2> DEFINE b == j - 1
             e == Close(c)
             f == e + 1
  <2>1. /\ c \in Int /\ b \in Int /\ m \in Int /\ c <= b + 1 /\ b <= m /\ b + 1 = j
        /\ e \in Int /\ f \in Int /\ c <= e + 1 /\ e <= b /\ e + 1 = f
    BY <1>1, <1>2, <1>5, <1>8
  <2>2. m \in c..(i - 1) /\ c < i /\ k < j /\ ~ (j < k)
    BY <1>1, <1>2, <1>5, <1>8
  <2>3. f \in k..(j - 1) \/ f = b + 1
    BY <1>1, <1>2, <1>8
  <2>4. Depth(program, c, e) = 0
    BY <1>1
  <2>5. Depth(program, f, b) <= 0
    <3>1. CASE f \in k..(j - 1)
      BY <2>2, <3>1 DEF Reaches
    <3>2. CASE f = b + 1
      <4>1. f - 1 = b
        BY <2>1, <3>2
      <4>2. Depth(program, f, f - 1) = 0
        BY <2>1, DepthOne
      <4> QED
        BY <4>1, <4>2
    <3> QED
      BY <2>3, <3>1, <3>2
  <2> HIDE DEF b, e, f
  <2>6. /\ Depth(program, c, m) = Depth(program, c, b) + Depth(program, b + 1, m)
        /\ Depth(program, c, b) \in Int /\ Depth(program, b + 1, m) \in Int
    <3>1. DepthAdds(program, c, b, m)
      BY <2>1, DepthSplit
    <3> QED
      BY <2>1, <3>1 DEF DepthAdds
  <2>7. /\ Depth(program, c, b) = Depth(program, c, e) + Depth(program, e + 1, b)
        /\ Depth(program, c, e) \in Int /\ Depth(program, e + 1, b) \in Int
    <3>1. DepthAdds(program, c, e, b)
      BY <2>1, DepthSplit
    <3> QED
      BY <2>1, <3>1 DEF DepthAdds
  <2>8. Depth(program, c, m) >= 0 /\ (program[m].op = "else" => Depth(program, c, m) > 0)
    BY <2>2 DEF Reaches
  <2>9. e + 1 = f /\ b + 1 = j
    BY <2>1
  <2>10. Depth(program, c, b) = Depth(program, f, b) /\ Depth(program, f, b) \in Int
    BY <2>4, <2>7, <2>9
  <2>11. /\ Depth(program, c, m) = Depth(program, f, b) + Depth(program, j, m)
         /\ Depth(program, f, b) \in Int /\ Depth(program, j, m) \in Int
    BY <2>6, <2>9, <2>10
  <2>12. Depth(program, c, m) <= Depth(program, j, m)
    BY <2>5, <2>11
  <2> QED
    BY <2>8, <2>11, <2>12
<1> QED
  BY <1>1, <1>2, <1>3, <1>5, <1>6, <1>7, <1>8

\* Something is created here out of the unit c, which this unit contains, and
\* no variable that is free in c is declared further on.
CreatesSettled(c) ==
    /\ c \in Units \ {0} /\ UnitOf(c) = unit /\ program[at].op \notin Declaring
    /\ c = at \/ Reaches(program, c, at)
    /\ \A j \in 1..Len(program) : program[j].op \in Declaring /\ program[j].of \in Free(c) => ~ (j > at)

\* Then each such variable is declared on every way, or by a unit around.
LEMMA FreeSettled ==
    ASSUME Passes, Resolved(program), NamesInvariant, DeclarationsInvariant,
           NEW c, CreatesSettled(c), NEW v \in Free(c)
    PROVE  \/ v \in DeclaredIn(unit) /\ v \in declared /\ \A p \in paths : v \in p.declared
           \/ v \in Var \ DeclaredIn(unit) /\ v \notin declared
<1>1. /\ WellFormed(program) /\ unit \in Units /\ PositionInvariant /\ at \in 1..Len(program)
      /\ c \in Units \ {0} /\ c \in Units /\ UnitOf(c) = unit
  BY PassVisits DEF Passes, PositionInvariant, CreatesSettled
<1>2. PICK i \in Within(c), j \in 1..Len(program) :
         /\ i \in 1..Len(program) /\ Resolves(j, i) /\ program[i].of = v
         /\ j \notin Within(c) /\ UnitOf(j) \in Units
         /\ UnitOf(j) < c /\ c < Close(UnitOf(j)) /\ Close(c) < Close(UnitOf(j))
  BY <1>1, FreeDeclared
<1>3. c \in 1..Len(program) /\ unit < c /\ c < Close(unit)
  BY <1>1, UnitSpan, UnitOfIs
<1>4. UnitOf(j) <= unit
  BY <1>1, <1>2, <1>3, UnitOfIs
<1>5. Around(j)
  <2>1. /\ unit \in Nat /\ UnitOf(j) \in Nat /\ Close(UnitOf(j)) \in Nat /\ c \in Nat
    BY <1>1, <1>2, UnitSpan
  <2>2. ASSUME UnitOf(j) < unit PROVE Close(unit) < Close(UnitOf(j))
    <3>1. unit < Close(UnitOf(j))
      BY <1>2, <1>3, <2>1
    <3> QED
      BY <1>1, <1>2, <2>2, <3>1, UnitsNest
  <2> QED
    BY <1>4, <2>1, <2>2 DEF Around
<1>6. /\ v \in declared <=> Direct(j)
      /\ v \in DeclaredIn(unit) <=> UnitOf(j) = unit
  BY <1>1, <1>2, <1>5, DeclaredIffDirect
<1>7. CASE UnitOf(j) = unit
  <2>1. ~ (j > at) /\ j # at
    BY <1>2 DEF CreatesSettled, Resolves
  <2>2. j < at /\ j \in DirectItems
    BY <1>1, <1>7, <2>1 DEF DirectItems, Direct
  <2>3. Reaches(program, j, at)
    <3>1. CASE c = at
      <4>1. j \in Int /\ i \in Int /\ at \in Int /\ j < at /\ at < i
        BY <1>1, <1>2, <2>2, <3>1 DEF Within
      <4> QED
        BY <1>2, <4>1 DEF Reaches, Resolves
    <3>2. CASE Reaches(program, c, at)
      <4>1. j # c /\ program[j].op # "end"
        <5>1. program[c].op \in UnitOp
          BY <1>1, UnitSpan
        <5> QED
          BY <1>2, <5>1 DEF Resolves, Declaring, UnitOp
      <4> QED
        BY <1>1, <1>2, <2>2, <3>2, <4>1, ReachesAcross DEF Resolves
    <3> QED
      BY <3>1, <3>2 DEF CreatesSettled
  <2>4. ReachOK(j)
    BY <1>2, <2>2, <2>3, DeclarationsParts DEF Resolves
  <2>5. Direct(j)
    BY <1>7, <2>2 DEF Direct
  <2> QED
    BY <1>2, <1>6, <1>7, <2>4, <2>5 DEF ReachOK, Resolves
<1>8. CASE UnitOf(j) # unit
  <2>1. v \in Var
    BY <1>1, <1>2, VarTyped DEF Resolves
  <2> QED
    BY <1>6, <1>8, <2>1 DEF Direct
<1> QED
  BY <1>7, <1>8

\* So some way lacks one exactly if one that is declared is not initialized.
LEMMA CreationReported ==
    ASSUME Passes, Resolved(program), NamesInvariant, DeclarationsInvariant,
           AssignedOnAll(paths, initialized), NEW c, CreatesSettled(c)
    PROVE  (\E p \in paths : ~ (Free(c) \subseteq p.declared \cap p.assigned))
              <=> ~ (Free(c) \cap declared \subseteq initialized)
<1>1. ASSUME NEW p \in paths, NEW v \in Free(c), v \notin p.declared \cap p.assigned
      PROVE  v \in declared \ initialized
  <2>1. CASE v \in DeclaredIn(unit) /\ v \in declared /\ \A q \in paths : v \in q.declared
    BY <1>1, <2>1 DEF AssignedOnAll
  <2>2. CASE v \in Var \ DeclaredIn(unit)
    BY <1>1, <2>2, DeclarationsParts DEF WayOK
  <2> QED
    BY <2>1, <2>2, FreeSettled
<1>2. ASSUME NEW v \in Free(c), v \in declared, v \notin initialized
      PROVE  \E p \in paths : v \notin p.assigned
  BY <1>2, FreeSettled DEF AssignedOnAll
<1> QED
  BY <1>1, <1>2

(* The item passed is reported if it is at fault; for the others nothing   *)
(* changes, except that uses too early are reported by the declaration.    *)
LEMMA PassKeepsErrors ==
    ASSUME Passes, Resolved(program), NamesInvariant, ErrorsInvariant,
           program[at].op \notin Declaring, UNCHANGED declared,
           faults \subseteq faults', faults' \subseteq faults \cup {at},
           errors \subseteq errors', errors' \subseteq errors \cup {at},
           pending \subseteq pending', pending' \subseteq pending \cup {at},
           \A i : i = at => Reported(i)'
    PROVE  ErrorsInvariant'
<1>1. at \in 1..Len(program) /\ program' = program /\ unit' = unit
  BY PassVisits DEF Passes
<1>2. VisitedItems \subseteq VisitedItems' /\ at \in VisitedItems'
  BY <1>1, PassVisits DEF VisitedItems
<1>3. \A i : Free(CreatedAt(i))' = Free(CreatedAt(i)) /\ OtherUnit(i)' = OtherUnit(i)
             /\ CapturesTooEarly(i)' = CapturesTooEarly(i)
  <2>1. \A i : CreatedAt(i)' = CreatedAt(i) /\ OtherUnit(i)' = OtherUnit(i)
               /\ CapturesTooEarly(i)' = CapturesTooEarly(i)
    BY <1>1, SameProgram
  <2>2. \A i : Within(i)' = Within(i)
    BY <1>1, SameProgram DEF Within
  <2>3. \A i : Free(CreatedAt(i))' = Free(CreatedAt(i))
    BY <1>1, <2>1, <2>2 DEF Free
  <2> QED
    BY <2>1, <2>3
<1>4. DeclaredIn(unit)' = DeclaredIn(unit)
  BY <1>1, SameUnit
<1>5. ASSUME NEW i \in VisitedItems', i # at PROVE Reported(i)'
  <2>1. i \in 1..Len(program)
    BY <1>1 DEF VisitedItems
  <2>2. (i \in errors' <=> i \in errors) /\ (i \in faults' <=> i \in faults)
    BY <1>5
  <2>3. Awaits(i)' <=> Awaits(i)
    BY <1>1, <1>4, <1>5 DEF Awaits
  <2>4. CASE i \in VisitedItems
    BY <1>1, <1>3, <2>2, <2>3, <2>4 DEF ErrorsInvariant, Reported
  <2>5. CASE i \notin VisitedItems
    <3>1. program[i].op = "end"
      BY <1>1, <1>5, <2>1, <2>5, PassVisits DEF VisitedItems
    <3>2. i \notin errors' /\ i \notin faults'
      BY <2>2, <2>5 DEF ErrorsInvariant
    <3>3. ~ OtherUnit(i)
      BY <3>1 DEF OtherUnit
    <3> QED
      BY <1>1, <1>3, <3>1, <3>2, <3>3 DEF Reported
  <2> QED
    BY <2>4, <2>5
<1>6. errors' \cup faults' \subseteq VisitedItems'
  BY <1>2 DEF ErrorsInvariant
<1> QED
  BY <1>5, <1>6 DEF ErrorsInvariant

\* A declaration reports the uses before it; they were waiting for it.
LEMMA DeclaringKeepsErrors ==
    ASSUME Passes, Resolved(program), NamesInvariant, ErrorsInvariant,
           program[at].op \in Declaring, declared' = declared \cup {var},
           errors' = errors \cup TooEarly, UNCHANGED <<faults, pending>>
    PROVE  ErrorsInvariant'
<1>1. /\ at \in 1..Len(program) /\ program' = program /\ unit' = unit /\ UnitOf(at) = unit
      /\ PositionInvariant
  BY PassVisits DEF Passes
<1>2. VisitedItems \subseteq VisitedItems' /\ at \in VisitedItems' /\ at \notin VisitedItems
  BY <1>1, PassVisits DEF VisitedItems
<1>3. \A i : Free(CreatedAt(i))' = Free(CreatedAt(i)) /\ OtherUnit(i)' = OtherUnit(i)
             /\ CapturesTooEarly(i)' = CapturesTooEarly(i)
  <2>1. \A i : CreatedAt(i)' = CreatedAt(i) /\ OtherUnit(i)' = OtherUnit(i)
               /\ CapturesTooEarly(i)' = CapturesTooEarly(i)
    BY <1>1, SameProgram
  <2>2. \A i : Within(i)' = Within(i)
    BY <1>1, SameProgram DEF Within
  <2>3. \A i : Free(CreatedAt(i))' = Free(CreatedAt(i))
    BY <1>1, <2>1, <2>2 DEF Free
  <2> QED
    BY <2>1, <2>3
<1>4. DeclaredIn(unit)' = DeclaredIn(unit)
  BY <1>1, SameUnit
<1>5. pending \subseteq VisitedItems /\ \A i \in pending : program[i].op \in {"assign", "use"}
  BY DEF NamesInvariant, DirectItems, VisitedItems, Visited
<1>6. var \in DeclaredIn(unit) /\ var \notin declared
  <2>1. program[at].op \in Naming
    BY DEF Naming
  <2>2. PICK j \in 1..Len(program) : Resolves(j, at)
    BY <1>1, <2>1, DeclarationOf
  <2>3. j = at
    BY <1>1, <2>2 DEF Resolves
  <2>4. Around(j) /\ ~ Direct(j)
    BY <1>1, <2>3, PassVisits DEF Around
  <2> QED
    BY <1>1, <2>2, <2>3, <2>4, DeclaredIffDirect DEF var
<1>7. ASSUME NEW i \in VisitedItems', i \in VisitedItems PROVE Reported(i)'
  <2>1. CASE i \in TooEarly
    <3>1. Awaits(i)
      BY <1>6, <2>1 DEF Awaits, TooEarly
    <3>2. program[i].op \in {"assign", "use"} /\ ~ OtherUnit(i)
      BY <1>5, <2>1 DEF TooEarly, OtherUnit
    <3>3. i \in faults' /\ i \in errors'
      BY <1>7, <2>1, <3>1, <3>2 DEF ErrorsInvariant, Reported
    <3> QED
      BY <1>1, <1>3, <3>2, <3>3 DEF Reported
  <2>2. CASE i \notin TooEarly
    <3>1. Awaits(i)' <=> Awaits(i)
      BY <1>1, <1>4, <2>2 DEF Awaits, TooEarly
    <3>2. i \in errors' <=> i \in errors
      BY <2>2
    <3> QED
      BY <1>1, <1>3, <1>7, <3>1, <3>2 DEF ErrorsInvariant, Reported
  <2> QED
    BY <2>1, <2>2
<1>8. ASSUME NEW i \in VisitedItems', i \notin VisitedItems PROVE Reported(i)'
  <2>1. i \in 1..Len(program)
    BY <1>1 DEF VisitedItems
  <2>2. i \notin errors' /\ i \notin faults'
    BY <1>5, <1>8 DEF ErrorsInvariant, TooEarly
  <2>3. program[i].op \in Declaring \cup {"end"}
    BY <1>1, <1>8, <2>1, PassVisits DEF VisitedItems
  <2>4. program[i].op \notin {"assign", "use", "fun", "new"} /\ ~ OtherUnit(i)
    BY <2>3 DEF Declaring, OtherUnit
  <2> QED
    BY <1>1, <1>3, <2>2, <2>4 DEF Reported
<1>9. errors' \cup faults' \subseteq VisitedItems'
  BY <1>2, <1>5 DEF ErrorsInvariant, TooEarly
<1> QED
  BY <1>7, <1>8, <1>9 DEF ErrorsInvariant
-----------------------------------------------------------------------------
(* Each item is reported as it should be *)

\* A variable of this unit is declared on every way or on none.
LEMMA NameReported ==
    ASSUME Passes, Resolved(program), NamesInvariant, DeclarationsInvariant,
           AssignedOnAll(paths, initialized), program[at].op \in {"assign", "use"}
    PROVE  /\ (\E p \in paths : var \notin p.declared) <=> var \in DeclaredIn(unit) \ declared
           /\ (\E p \in paths : var \notin p.declared \cap p.assigned)
                 <=> var \in (DeclaredIn(unit) \ declared) \cup (declared \ initialized)
<1>1. /\ WellFormed(program) /\ unit \in Units /\ PositionInvariant
      /\ at \in 1..Len(program) /\ UnitOf(at) = unit /\ program[at].op \in Naming
  BY PassVisits DEF Passes, PositionInvariant, Naming
<1>2. PICK j \in 1..Len(program) : Resolves(j, at)
  BY <1>1, DeclarationOf
<1>3. Around(j)
  BY <1>1, <1>2, NamedHere
<1>4. /\ var \in declared <=> Direct(j)
      /\ var \in DeclaredIn(unit) <=> UnitOf(j) = unit
  BY <1>1, <1>2, <1>3, DeclaredIffDirect DEF var
<1>5. CASE var \notin DeclaredIn(unit)
  <2>1. var \in Var
    BY <1>1, VarTyped DEF var
  <2>2. \A p \in paths : var \in p.declared \cap p.assigned
    BY <1>5, <2>1, DeclarationsParts DEF WayOK
  <2>3. var \notin declared
    BY <1>4, <1>5 DEF Direct
  <2> QED
    BY <1>5, <2>2, <2>3
<1>6. CASE var \in DeclaredIn(unit) /\ var \in declared
  <2>1. j \in DirectItems /\ j < at /\ program[j].of = var /\ program[j].op \in Declaring
    BY <1>2, <1>4, <1>6 DEF DirectItems, Direct, Resolves, var
  <2>2. ReachOK(j)
    BY <1>2, <2>1, DeclarationsParts DEF Resolves
  <2>3. \A p \in paths : var \in p.declared
    BY <2>1, <2>2 DEF ReachOK
  <2>4. var \in initialized <=> \A p \in paths : var \in p.assigned
    BY <1>6 DEF AssignedOnAll
  <2> QED
    BY <1>6, <2>3, <2>4
<1>7. CASE var \in DeclaredIn(unit) /\ var \notin declared
  <2>1. paths # {} /\ \A p \in paths : var \notin p.declared
    BY <1>7, DeclarationsParts DEF WayOK
  <2> QED
    BY <1>7, <2>1
<1> QED
  BY <1>5, <1>6, <1>7

\* The item to be passed has not been reported before.
LEMMA NotYetReported ==
    ASSUME Passes, NamesInvariant, ErrorsInvariant
    PROVE  at \notin errors /\ at \notin faults /\ at \notin pending
<1>1. at \notin VisitedItems /\ at \notin DirectItems
  BY PassVisits DEF VisitedItems, DirectItems
<1> QED
  BY <1>1 DEF ErrorsInvariant, NamesInvariant

\* A use is an error now, or once the variable is declared.
LEMMA UseReported ==
    ASSUME Passes, Resolved(program), NamesInvariant, DeclarationsInvariant, ErrorsInvariant,
           AssignedOnAll(paths, initialized), Use, PathUse, NEW i, i = at
    PROVE  Reported(i)'
<1>1. /\ program[i].op = "use" /\ program' = program /\ unit' = unit /\ declared' = declared
      /\ NoteUndeclared /\ errors' = errors \cup (IF var \in declared \ initialized THEN {at} ELSE {})
      /\ Fault(\E p \in paths : var \notin p.declared \cap p.assigned)
  BY DEF Use, Meets, PathUse, Passes
<1>2. at \notin errors /\ at \notin faults /\ at \notin pending
  BY NotYetReported
<1>3. i \in faults' <=> var \in (DeclaredIn(unit) \ declared) \cup (declared \ initialized)
  BY <1>1, <1>2, NameReported DEF Fault
<1>4. i \in errors' <=> var \in declared \ initialized
  BY <1>1, <1>2
<1>5. i \in pending' <=> var \notin declared
  BY <1>1, <1>2 DEF NoteUndeclared
<1>6. DeclaredIn(unit)' = DeclaredIn(unit)
  BY <1>1, SameUnit
<1>7. Awaits(i)' <=> var \in DeclaredIn(unit) \ declared
  BY <1>1, <1>5, <1>6 DEF Awaits, var
<1> QED
  BY <1>1, <1>3, <1>4, <1>7 DEF Reported, OtherUnit

\* An assignment is one once the variable is declared, or not at all.
LEMMA AssignReported ==
    ASSUME Passes, Resolved(program), NamesInvariant, DeclarationsInvariant, ErrorsInvariant,
           AssignedOnAll(paths, initialized), Assign, PathAssign, NEW i, i = at
    PROVE  Reported(i)'
<1>1. /\ program[i].op = "assign" /\ program' = program /\ unit' = unit /\ declared' = declared
      /\ NoteUndeclared /\ errors' = errors
      /\ Fault(\E p \in paths : var \notin p.declared)
  BY DEF Assign, Meets, PathAssign, Passes
<1>2. at \notin errors /\ at \notin faults /\ at \notin pending
  BY NotYetReported
<1>3. i \in faults' <=> var \in DeclaredIn(unit) \ declared
  BY <1>1, <1>2, NameReported DEF Fault
<1>4. i \notin errors'
  BY <1>1, <1>2
<1>5. i \in pending' <=> var \notin declared
  BY <1>1, <1>2 DEF NoteUndeclared
<1>6. DeclaredIn(unit)' = DeclaredIn(unit)
  BY <1>1, SameUnit
<1>7. Awaits(i)' <=> var \in DeclaredIn(unit) \ declared
  BY <1>1, <1>5, <1>6 DEF Awaits, var
<1> QED
  BY <1>1, <1>3, <1>4, <1>7 DEF Reported, OtherUnit

\* What else only moves on reports nothing.
LEMMA NothingReported ==
    ASSUME Passes, NamesInvariant, ErrorsInvariant, program[at].op \in {"if", "else", "end", "class"},
           UNCHANGED <<errors, faults>>, NEW i, i = at
    PROVE  Reported(i)'
<1>1. /\ i \notin errors' /\ i \notin faults' /\ program' = program
      /\ program[i].op \in {"if", "else", "end", "class"}
  BY NotYetReported DEF Passes
<1> QED
  BY <1>1 DEF Reported, OtherUnit

\* The unit whose variables an item captures is there, and has been analysed
\* if it lies in this one.
LEMMA CreatedUnit ==
    ASSUME Passes, Resolved(program), NamesInvariant, program[at].op \in {"fun", "new"}
    PROVE  LET c == CreatedAt(at)
           IN  /\ c \in Units \ {0}
               /\ c \in DOMAIN captures => captures[c] = Free(c)
               /\ ~ OtherUnit(at) => UnitOf(c) = unit /\ c \in DOMAIN captures
               /\ ~ OtherUnit(at) /\ ~ CapturesTooEarly(at) => CreatesSettled(c)
               /\ program[at].op = "fun" => c = at
               /\ program[at].op = "new" => c = ClassAt(var)
<1> DEFINE c == CreatedAt(at)
<1>1. /\ WellFormed(program) /\ unit \in Units /\ at \in 1..Len(program) /\ UnitOf(at) = unit
  BY PassVisits DEF Passes, PositionInvariant
<1>2. /\ c \in Units \ {0} /\ (c = at \/ Reaches(program, c, at))
      /\ ~ OtherUnit(at) => UnitOf(c) = unit
  <2>1. program[at].op = "fun" => c = at /\ c \in Units \ {0} /\ UnitOf(c) = unit
    BY <1>1 DEF CreatedAt, Units, UnitOp
  <2>2. ASSUME program[at].op = "new" PROVE c \in Units \ {0} /\ Reaches(program, c, at)
    <3>1. PICK j \in 1..Len(program) :
             /\ Declares(program, j, at) /\ Reaches(program, j, at)
             /\ \A k \in 1..Len(program) : Declares(program, k, at) => k = j
      BY <1>1, <2>2 DEF Resolved
    <3>2. \A k : Declares(program, k, at) <=> program[k].op = "class" /\ program[k].of = program[at].of
      BY <2>2 DEF Declares, Naming, Declaring
    <3>3. c = j
      BY <2>2, <3>1, <3>2 DEF CreatedAt, ClassAt
    <3> QED
      BY <3>1, <3>2, <3>3 DEF Units, UnitOp
  <2>3. program[at].op = "new" /\ ~ OtherUnit(at) => UnitOf(c) = unit
    BY <1>1 DEF OtherUnit
  <2> QED
    BY <2>1, <2>2, <2>3
<1>3. UnitOf(c) = unit => c \in ClosedUnits
  <2>1. UnitOf(c) = unit => c \in NestedIn(unit)
    BY <1>2 DEF NestedIn
  <2> QED
    BY <1>1, <2>1, ChildUnit DEF ClosedUnits
<1>4. /\ c \in DOMAIN captures <=> c \in ClosedUnits
      /\ c \in ClosedUnits => captures[c] = Free(c)
  BY DEF NamesInvariant
<1>5. ~ OtherUnit(at) /\ ~ CapturesTooEarly(at) => CreatesSettled(c)
  <2>1. program[at].op \notin Declaring
    BY DEF Declaring
  <2>2. ~ CapturesTooEarly(at) =>
           \A j \in 1..Len(program) : program[j].op \in Declaring /\ program[j].of \in Free(c) => ~ (j > at)
    BY DEF CapturesTooEarly
  <2> QED
    BY <1>2, <2>1, <2>2 DEF CreatesSettled
<1>6. /\ program[at].op = "fun" => c = at
      /\ program[at].op = "new" => c = ClassAt(var)
  BY DEF CreatedAt, var
<1> QED
  BY <1>2, <1>3, <1>4, <1>5, <1>6

\* An item that creates a function or an object.
LEMMA CreateReported ==
    ASSUME Passes, Resolved(program), NamesInvariant, DeclarationsInvariant, ErrorsInvariant,
           AssignedOnAll(paths, initialized), program[at].op \in {"fun", "new"},
           UseCaptured(CreatedAt(at)), PathCreate, NEW i, i = at
    PROVE  Reported(i)'
<1> DEFINE c == CreatedAt(at)
           lacks == \E p \in paths : ~ (Free(c) \subseteq p.declared \cap p.assigned)
           captured == IF c \in DOMAIN captures THEN captures[c] ELSE {}
<1>1. /\ program' = program /\ program[i].op \in {"fun", "new"}
      /\ i \in faults' <=> lacks \/ (OtherUnit(at) /\ Free(c) # {})
      /\ i \in errors' <=> ~ (captured \cap declared \subseteq initialized)
  <2>1. at \notin errors /\ at \notin faults
    BY NotYetReported
  <2>2. Fault(lacks \/ (OtherUnit(at) /\ Free(c) # {}))
    BY DEF PathCreate, OtherUnit
  <2>3. errors' = errors \cup (IF captured \cap declared \subseteq initialized THEN {} ELSE {at})
    BY DEF UseCaptured
  <2> HIDE DEF captured, lacks
  <2> QED
    BY <2>1, <2>2, <2>3 DEF Fault, Passes
<1>2. /\ OtherUnit(i)' = OtherUnit(at) /\ CapturesTooEarly(i)' = CapturesTooEarly(at)
      /\ Free(CreatedAt(i))' = Free(c)
  <2>1. /\ OtherUnit(i)' = OtherUnit(i) /\ CapturesTooEarly(i)' = CapturesTooEarly(i)
        /\ CreatedAt(i)' = CreatedAt(i)
    BY <1>1, SameProgram
  <2>2. \A u : Within(u)' = Within(u)
    BY <1>1, SameProgram DEF Within
  <2>3. Free(CreatedAt(i))' = Free(CreatedAt(i))
    BY <1>1, <2>1, <2>2 DEF Free
  <2> QED
    BY <2>1, <2>3
<1>3. ASSUME ~ OtherUnit(at), ~ CapturesTooEarly(at) PROVE i \in faults' <=> i \in errors'
  <2>1. CreatesSettled(c) /\ captured = Free(c)
    BY <1>3, CreatedUnit
  <2>2. lacks <=> ~ (Free(c) \cap declared \subseteq initialized)
    BY <2>1, CreationReported
  <2> HIDE DEF captured, lacks, c
  <2> QED
    BY <1>1, <1>3, <2>1, <2>2
<1>4. captured \in {{}, Free(c)}
  BY CreatedUnit
<1>5. i \in errors' => Free(c) # {}
  <2> HIDE DEF captured, lacks
  <2> QED
    BY <1>1, <1>4
<1>6. OtherUnit(at) => (i \in faults' <=> Free(c) # {})
  <2>1. lacks => Free(c) # {}
    OBVIOUS
  <2> HIDE DEF captured, lacks
  <2> QED
    BY <1>1, <2>1
<1>7. program'[i].op \in {"fun", "new"}
  BY <1>1
<1> HIDE DEF c, captured, lacks
<1> QED
  BY <1>2, <1>3, <1>5, <1>6, <1>7 DEF Reported
-----------------------------------------------------------------------------
(* Each step keeps the invariant *)

\* A unit is being analysed, and the invariants hold.
Analysing ==
    /\ ~ Done /\ Resolved(program) /\ AnalysisTypeOK /\ AssignedOnAll(paths, initialized)
    /\ NamesInvariant /\ DeclarationsInvariant /\ BoxesInvariant /\ ErrorsInvariant

\* So it is until the analysis is done.
LEMMA AnalysingIs ==
    ASSUME ~ Done, Resolved(program), AssignmentInvariant, ReportsInvariant
    PROVE  Analysing /\ PositionInvariant
BY DEF Analysing, AssignmentInvariant, WaysInvariant, ReportsInvariant

\* The analysis comes to an item, and passes it.
LEMMA ItemPasses ==
    ASSUME Analysing, PositionInvariant, at < Close(unit), UNCHANGED <<program, unit>>,
           \/ at' = at + 1 /\ program[at].op \notin UnitOp
           \/ at' = Close(at) + 1 /\ program[at].op \in UnitOp
    PROVE  Passes
BY DEF Analysing, Passes, NamesInvariant

(* A declaration.                                                          *)
LEMMA DeclaringKeepsReports ==
    ASSUME Analysing, PositionInvariant,
           \/ Declare /\ PathDeclare
           \/ (Param \/ Define) /\ PathDefine
    PROVE  ReportsInvariant'
<1>1. /\ program[at].op \in Declaring /\ Passes
      /\ declared' = declared \cup {var} /\ undeclared' = undeclared \ {var}
      /\ errors' = errors \cup TooEarly
      /\ UNCHANGED captures /\ UNCHANGED pending /\ UNCHANGED <<frames, branches>>
      /\ UNCHANGED <<faults, needsBox, mixed>>
      /\ mutable \cup DeclaredMutable \subseteq mutable'
      /\ assigned \subseteq assigned'
      /\ paths' = Declared({var}) \/ paths' = Defined({var})
  <2>1. /\ program[at].op \in Declaring /\ program[at].op \notin UnitOp /\ at < Close(unit)
        /\ UNCHANGED <<program, unit>> /\ at' = at + 1
    BY DEF Declare, Param, Define, Meets, Declaring, UnitOp, Advance
  <2>2. Passes
    BY <2>1, ItemPasses
  <2>3. CASE Declare /\ PathDeclare
    BY <2>1, <2>2, <2>3 DEF Declare, PathDeclare, Advance, Declared
  <2>4. CASE Param /\ PathDefine
    BY <2>1, <2>2, <2>4 DEF Param, PathDefine, Advance, Defined
  <2>5. CASE Define /\ PathDefine
    BY <2>1, <2>2, <2>5 DEF Define, PathDefine, Advance, Defined, AssignVariable
  <2> QED
    BY <2>3, <2>4, <2>5
<1>2. NamesInvariant'
  <2>1. program[at].op \notin {"assign", "use"} /\ program[at].op \in Naming
    BY <1>1 DEF Declaring, Naming
  <2> QED
    BY <1>1, <2>1, PassKeepsNames DEF Analysing
<1>3. DeclarationsInvariant'
  <2> DEFINE D == {var}
             none == {}
  <2>1. paths \subseteq Path /\ paths # {}
    BY DEF Analysing, AnalysisTypeOK, DeclarationsInvariant
  <2>2. Grown(paths', D, none, none) \/ Grown(paths', D, D, none)
    BY <1>1, <2>1, WaysGrow
  <2>3. program[at].op \notin {"if", "else", "end"}
    BY <1>1 DEF Declaring
  <2>4. /\ D = (IF program[at].op \in Declaring THEN {var} ELSE {})
        /\ declared' = declared \cup D
        /\ faults' = {} => faults = {} /\ \A p \in paths : none \cap DeclaredIn(unit) \subseteq p.assigned
    BY <1>1
  <2> HIDE DEF D, none
  <2> QED
    BY <1>1, <2>2, <2>3, <2>4, PassKeepsDeclarations DEF Analysing
<1>4. BoxesInvariant'
  BY <1>1, DeclaringKeepsBoxes DEF Analysing, Passes
<1>5. ErrorsInvariant'
  BY <1>1, DeclaringKeepsErrors DEF Analysing
<1> QED
  BY <1>2, <1>3, <1>4, <1>5 DEF ReportsInvariant

(* A use and an assignment of a variable.                                  *)
LEMMA NamingKeepsReports ==
    ASSUME Analysing, PositionInvariant, (Use /\ PathUse) \/ (Assign /\ PathAssign)
    PROVE  ReportsInvariant'
<1> DEFINE none == {}
<1>1. /\ program[at].op \in {"assign", "use"} /\ Passes /\ NoteUndeclared
      /\ UNCHANGED declared /\ UNCHANGED captures /\ UNCHANGED <<frames, branches>>
      /\ paths' = paths \/ paths' = Assigned({var})
      /\ faults \subseteq faults' /\ faults' \subseteq faults \cup {at}
      /\ errors \subseteq errors' /\ errors' \subseteq errors \cup {at}
  <2>1. /\ program[at].op \in {"assign", "use"} /\ program[at].op \notin UnitOp /\ at < Close(unit)
        /\ UNCHANGED <<program, unit>> /\ at' = at + 1
    BY DEF Use, Assign, Meets, UnitOp, Advance
  <2>2. Passes
    BY <2>1, ItemPasses
  <2>3. CASE Use /\ PathUse
    BY <2>1, <2>2, <2>3 DEF Use, PathUse, Advance, Fault
  <2>4. CASE Assign /\ PathAssign
    BY <2>1, <2>2, <2>4 DEF Assign, PathAssign, Advance, Fault, Assigned
  <2> QED
    BY <2>3, <2>4
<1>2. /\ program[at].op \notin Declaring /\ program[at].op \in Naming
      /\ program[at].op \notin {"if", "else", "end"}
  BY <1>1 DEF Declaring, Naming
<1>3. NamesInvariant'
  BY <1>1, <1>2, PassKeepsNames DEF Analysing
<1>4. DeclarationsInvariant'
  <2>1. paths \subseteq Path /\ paths # {}
    BY DEF Analysing, AnalysisTypeOK, DeclarationsInvariant
  <2> DEFINE A == {var}
  <2>2. Grown(paths', none, none, none) \/ Grown(paths', none, A, none)
    BY <1>1, <2>1, WaysGrow
  <2>3. /\ none = (IF program[at].op \in Declaring THEN {var} ELSE {})
        /\ declared' = declared \cup none
        /\ faults' = {} => faults = {} /\ \A p \in paths : none \cap DeclaredIn(unit) \subseteq p.assigned
    BY <1>1, <1>2
  <2> HIDE DEF A, none
  <2> QED
    BY <1>1, <1>2, <2>2, <2>3, PassKeepsDeclarations DEF Analysing
<1>5. BoxesInvariant'
  <2>1. CASE Use /\ PathUse
    BY <1>1, <2>1, OthersKeepBoxes DEF Analysing, Use, PathUse, Passes
  <2>2. CASE Assign /\ PathAssign
    BY <1>1, <2>2, AssignKeepsBoxes DEF Analysing
  <2> QED
    BY <2>1, <2>2
<1>6. ErrorsInvariant'
  <2>1. \A i : i = at => Reported(i)'
    BY <1>1, UseReported, AssignReported DEF Analysing
  <2>2. pending \subseteq pending' /\ pending' \subseteq pending \cup {at}
    BY <1>1 DEF NoteUndeclared
  <2> QED
    BY <1>1, <1>2, <2>1, <2>2, PassKeepsErrors DEF Analysing
<1> QED
  BY <1>3, <1>4, <1>5, <1>6 DEF ReportsInvariant

(* The creation of a function or an object.                                *)
LEMMA CreatingKeepsReports ==
    ASSUME Analysing, PositionInvariant, (CreateFunction \/ Instantiate) /\ PathCreate
    PROVE  ReportsInvariant'
<1> DEFINE none == {}
           free == Free(CreatedAt(at))
           lacks == \E p \in paths : ~ (free \subseteq p.declared \cap p.assigned)
<1>1. /\ program[at].op \in {"fun", "new"} /\ Passes
      /\ UNCHANGED <<declared, mutable, assigned>> /\ UNCHANGED captures /\ UNCHANGED <<frames, branches>>
      /\ UNCHANGED <<undeclared, pending>> /\ UNCHANGED <<needsBox, mixed>>
  <2>1. CASE CreateFunction
    <3>1. /\ program[at].op = "fun" /\ program[at].op \in UnitOp /\ at < Close(unit)
          /\ UNCHANGED <<program, unit>> /\ at' = Close(at) + 1
      BY <2>1 DEF CreateFunction, Meets, UnitOp
    <3>2. Passes
      BY <3>1, ItemPasses
    <3> QED
      BY <2>1, <3>1, <3>2 DEF CreateFunction, PathCreate
  <2>2. CASE Instantiate
    <3>1. /\ program[at].op = "new" /\ program[at].op \notin UnitOp /\ at < Close(unit)
          /\ UNCHANGED <<program, unit>> /\ at' = at + 1
      BY <2>2 DEF Instantiate, Meets, UnitOp, Advance
    <3>2. Passes
      BY <3>1, ItemPasses
    <3> QED
      BY <2>2, <3>1, <3>2 DEF Instantiate, PathCreate, Advance
  <2> QED
    BY <2>1, <2>2
<1>2. UseCaptured(CreatedAt(at))
  <2>1. /\ program[at].op = "fun" => CreatedAt(at) = at
        /\ program[at].op = "new" => CreatedAt(at) = ClassAt(var)
    BY DEF CreatedAt, var
  <2> QED
    BY <2>1 DEF CreateFunction, Instantiate, Meets
<1>3. /\ program[at].op \notin Declaring /\ program[at].op \notin Naming
      /\ program[at].op \notin {"if", "else", "end"}
  BY <1>1 DEF Declaring, Naming
<1>4. /\ paths' = Captured(free) /\ faults \subseteq faults' /\ faults' \subseteq faults \cup {at}
      /\ faults' = {} => faults = {} /\ ~ lacks
  <2>1. PICK e \in BOOLEAN : Fault(lacks \/ e)
    BY DEF PathCreate
  <2>2. paths' = Captured(free)
    BY DEF PathCreate, Captured
  <2> HIDE DEF lacks, free
  <2> QED
    BY <2>1, <2>2 DEF Fault
<1>5. NamesInvariant'
  BY <1>1, <1>3, PassKeepsNames DEF Analysing, Naming
<1>6. DeclarationsInvariant'
  <2>1. paths \subseteq Path /\ paths # {}
    BY DEF Analysing, AnalysisTypeOK, DeclarationsInvariant
  <2>2. Grown(paths', none, none, free)
    <3> HIDE DEF free
    <3> QED
      BY <1>4, <2>1, WaysGrow
  <2>3. /\ none = (IF program[at].op \in Declaring THEN {var} ELSE {})
        /\ declared' = declared \cup none
    BY <1>1, <1>3
  <2>4. faults' = {} => faults = {} /\ \A p \in paths : free \cap DeclaredIn(unit) \subseteq p.assigned
    <3> HIDE DEF free
    <3> QED
      BY <1>4
  <2> HIDE DEF free, none
  <2> QED
    BY <1>1, <1>3, <2>2, <2>3, <2>4, PassKeepsDeclarations DEF Analysing
<1>7. BoxesInvariant'
  BY <1>1, <1>4, OthersKeepBoxes DEF Analysing, Passes
<1>8. ErrorsInvariant'
  <2>1. \A i : i = at => Reported(i)'
    BY <1>1, <1>2, CreateReported DEF Analysing
  <2>2. errors \subseteq errors' /\ errors' \subseteq errors \cup {at}
    BY <1>2 DEF UseCaptured
  <2> QED
    BY <1>1, <1>3, <1>4, <2>1, <2>2, PassKeepsErrors DEF Analysing
<1> QED
  BY <1>5, <1>6, <1>7, <1>8 DEF ReportsInvariant

(* An if, and a class that is passed over.                                 *)
LEMMA MovingKeepsReports ==
    ASSUME Analysing, PositionInvariant,
           \/ If /\ PathIf
           \/ Else /\ PathElse
           \/ EndIf /\ PathEndIf
           \/ SkipClass /\ UNCHANGED <<paths, branches, faults, needsBox, mixed>>
    PROVE  ReportsInvariant'
<1> DEFINE none == {}
<1>1. /\ program[at].op \in {"if", "else", "end", "class"} /\ Passes
      /\ UNCHANGED <<declared, mutable, assigned>> /\ UNCHANGED captures
      /\ UNCHANGED <<undeclared, pending>> /\ UNCHANGED <<needsBox, mixed>> /\ UNCHANGED <<errors, faults>>
  <2>1. CASE If /\ PathIf
    <3>1. /\ program[at].op = "if" /\ program[at].op \notin UnitOp /\ at < Close(unit)
          /\ UNCHANGED <<program, unit>> /\ at' = at + 1
      BY <2>1 DEF If, Meets, UnitOp, Advance
    <3>2. Passes
      BY <3>1, ItemPasses
    <3> QED
      BY <2>1, <3>1, <3>2 DEF If, PathIf, Advance, flags
  <2>2. CASE Else /\ PathElse
    <3>1. /\ program[at].op = "else" /\ program[at].op \notin UnitOp /\ at < Close(unit)
          /\ UNCHANGED <<program, unit>> /\ at' = at + 1
      BY <2>2 DEF Else, Meets, UnitOp, Advance
    <3>2. Passes
      BY <3>1, ItemPasses
    <3> QED
      BY <2>2, <3>1, <3>2 DEF Else, PathElse, Advance
  <2>3. CASE EndIf /\ PathEndIf
    <3>1. /\ program[at].op = "end" /\ program[at].op \notin UnitOp /\ at < Close(unit)
          /\ UNCHANGED <<program, unit>> /\ at' = at + 1
      BY <2>3 DEF EndIf, Meets, UnitOp, Advance
    <3>2. Passes
      BY <3>1, ItemPasses
    <3> QED
      BY <2>3, <3>1, <3>2 DEF EndIf, PathEndIf, Advance
  <2>4. CASE SkipClass /\ UNCHANGED <<paths, branches, faults, needsBox, mixed>>
    <3>1. /\ program[at].op = "class" /\ program[at].op \in UnitOp /\ at < Close(unit)
          /\ UNCHANGED <<program, unit>> /\ at' = Close(at) + 1
      BY <2>4 DEF SkipClass, Meets, UnitOp
    <3>2. Passes
      BY <3>1, ItemPasses
    <3> QED
      BY <2>4, <3>1, <3>2 DEF SkipClass, flags
  <2> QED
    BY <2>1, <2>2, <2>3, <2>4
<1>2. program[at].op \notin Declaring /\ program[at].op \notin Naming
  BY <1>1 DEF Declaring, Naming
<1>3. NamesInvariant'
  BY <1>1, <1>2, PassKeepsNames DEF Analysing, Naming
<1>4. DeclarationsInvariant'
  <2>1. frames \in Seq(Frame) /\ paths \subseteq Path /\ paths # {} /\ at < Close(unit)
    BY <1>1 DEF Analysing, AnalysisTypeOK, DeclarationsInvariant, Passes
  <2>2. CASE If /\ PathIf
    BY <1>1, <2>2, IfKeepsDeclarations DEF Analysing, If, Meets
  <2>3. CASE Else /\ PathElse
    <3>1. program[at].op = "else"
      BY <2>3 DEF Else, Meets
    <3>2. Len(frames) > 0
      BY <2>1, <3>1, InIfAtElse
    <3>3. Len(frames') = Len(frames)
      BY <2>1, <2>3 DEF Else
    <3> QED
      BY <1>1, <2>3, <3>1, <3>2, <3>3, ElseKeepsDeclarations DEF Analysing
  <2>4. CASE EndIf /\ PathEndIf
    <3>1. program[at].op = "end" /\ frames' = SubSeq(frames, 1, Len(frames) - 1)
      BY <2>4 DEF EndIf, Meets
    <3>2. Len(frames) > 0
      BY <2>1, <3>1, InIfAtEnd
    <3>3. Len(frames') = Len(frames) - 1
      BY <2>1, <3>1, <3>2, FrontOfSeq
    <3> QED
      BY <1>1, <2>4, <3>1, <3>2, <3>3, EndIfKeepsDeclarations DEF Analysing
  <2>5. CASE SkipClass /\ UNCHANGED <<paths, branches, faults, needsBox, mixed>>
    <3>1. program[at].op = "class" /\ UNCHANGED <<frames, branches>> /\ paths' = paths
      BY <2>5 DEF SkipClass, Meets
    <3>2. Grown(paths', none, none, none)
      BY <2>1, <3>1, WaysGrow
    <3>3. /\ none = (IF program[at].op \in Declaring THEN {var} ELSE {})
          /\ declared' = declared \cup none
          /\ faults' = {} => faults = {} /\ \A p \in paths : none \cap DeclaredIn(unit) \subseteq p.assigned
          /\ program[at].op \notin {"if", "else", "end"}
      BY <1>1, <1>2, <3>1
    <3> HIDE DEF none
    <3> QED
      BY <1>1, <3>1, <3>2, <3>3, PassKeepsDeclarations DEF Analysing
  <2> QED
    BY <2>2, <2>3, <2>4, <2>5
<1>5. BoxesInvariant'
  BY <1>1, OthersKeepBoxes DEF Analysing, Passes
<1>6. ErrorsInvariant'
  <2>1. \A i : i = at => Reported(i)'
    BY <1>1, NothingReported DEF Analysing
  <2> QED
    BY <1>1, <1>2, <2>1, PassKeepsErrors DEF Analysing
<1> QED
  BY <1>3, <1>4, <1>5, <1>6 DEF ReportsInvariant

(* The analysis goes on with another unit: what was declared in this one   *)
(* is declared, so that nothing is waiting for a declaration any more.     *)
LEMMA EndKeepsReports ==
    ASSUME Analysing, PositionInvariant, EndUnit, PathEnd, unit # 0
    PROVE  ReportsInvariant'
<1>1. /\ WellFormed(program) /\ unit \in Units /\ at = Close(unit) /\ program' = program
      /\ frames' = frames /\ branches' = branches /\ errors' = errors /\ faults' = faults
      /\ pending' = {} /\ unit' = NextUnit(unit) /\ paths' = Enter(unit')
      /\ UNCHANGED <<needsBox, mixed, declared, mutable, assigned>>
  BY DEF EndUnit, PathEnd, PositionInvariant
<1>2. NamesInvariant' /\ unit' \in Units /\ at' = unit' + 1 /\ VisitedItems' = VisitedItems
  BY EndKeepsNames DEF Analysing
<1>3. DeclarationsInvariant'
  <2>1. frames' = << >>
    BY <1>1, InNoIfAtClose DEF Analysing, AnalysisTypeOK
  <2>2. Units' = Units /\ Enter(unit)' = Enter(unit')
    <3>1. Units' = Units /\ \A i : Close(i)' = Close(i)
      BY <1>1 DEF Units, Close
    <3>2. \A i : UnitOf(i)' = UnitOf(i)
      BY <3>1 DEF UnitOf
    <3>3. DeclaredIn(unit)' = DeclaredIn(unit')
      BY <1>1, <3>2 DEF DeclaredIn
    <3> QED
      BY <3>1, <3>3 DEF Enter
  <2>3. EntersWays'
    BY <1>1, <1>2, <2>1, <2>2 DEF EntersWays
  <2> QED
    BY <2>3, EnterDeclarationsNext
<1>4. BoxesInvariant'
  BY <1>1, OthersKeepBoxes DEF Analysing
<1>5. ErrorsInvariant'
  <2>1. \A i : OtherUnit(i)' = OtherUnit(i) /\ CapturesTooEarly(i)' = CapturesTooEarly(i)
               /\ Free(CreatedAt(i))' = Free(CreatedAt(i))
    <3>1. \A i : CreatedAt(i)' = CreatedAt(i) /\ OtherUnit(i)' = OtherUnit(i)
                 /\ CapturesTooEarly(i)' = CapturesTooEarly(i)
      BY <1>1, SameProgram
    <3>2. \A u : Within(u)' = Within(u)
      BY <1>1, SameProgram DEF Within
    <3>3. \A i : Free(CreatedAt(i))' = Free(CreatedAt(i))
      BY <1>1, <3>1, <3>2 DEF Free
    <3> QED
      BY <3>1, <3>3
  <2>2. \A i : ~ Awaits(i) /\ ~ Awaits(i)'
    BY <1>1, AllDirect DEF Awaits, Analysing
  <2>3. ASSUME NEW i \in VisitedItems PROVE Reported(i)'
    <3>1. Reported(i)
      BY DEF Analysing, ErrorsInvariant
    <3> QED
      BY <1>1, <2>1, <2>2, <3>1 DEF Reported
  <2> QED
    BY <1>1, <1>2, <2>3 DEF Analysing, ErrorsInvariant
<1> QED
  BY <1>2, <1>3, <1>4, <1>5 DEF ReportsInvariant

(* At the end of the last unit all items are visited, and what every unit  *)
(* captures is known.                                                      *)
LEMMA AllVisited ==
    ASSUME Analysing, PositionInvariant, EndUnit, unit = 0
    PROVE  /\ VisitedItems = 1..Len(program) /\ \A i : ~ Awaits(i)
           /\ \A u \in Units : captures'[u] = Free(u)
<1>1. WellFormed(program) /\ unit \in Units /\ at = Close(unit) /\ Close(unit) = Len(program) + 1
  BY UnitSpan DEF EndUnit, PositionInvariant
<1>2. \A u \in Units : u # 0 => Close(u) < Close(unit)
  BY <1>1, UnitSpan
<1>3. VisitedItems = 1..Len(program)
  BY <1>1, <1>2, AllDirect, UnitOfIs DEF VisitedItems, Analysing
<1>4. \A i : ~ Awaits(i)
  BY <1>1, AllDirect DEF Awaits, Analysing
<1>5. \A u \in Units : captures'[u] = Free(u)
  <2>1. undeclared = Free(unit)
    BY <1>1, AllDirect DEF Analysing
  <2>2. captures' = [u \in DOMAIN captures \cup {unit} |-> IF u = unit THEN undeclared ELSE captures[u]]
    BY DEF EndUnit
  <2>3. \A u \in Units : u # unit => u \in DOMAIN captures /\ captures[u] = Free(u)
    BY <1>2 DEF Analysing, NamesInvariant, ClosedUnits
  <2> QED
    BY <2>1, <2>2, <2>3
<1> QED
  BY <1>3, <1>4, <1>5

\* The errors are then the faults, with those found out of reach.
LEMMA DoneErrors ==
    ASSUME Analysing, PositionInvariant, EndUnit, PathEnd, unit = 0
    PROVE  ErrorsAreFaults'
<1>1. /\ program' = program /\ faults' = faults /\ errors' = errors \cup OutOfReach(captures')
      /\ WellFormed(program) /\ Resolved(program)
  BY DEF EndUnit, PathEnd, PositionInvariant, Analysing
<1>2. \A i : CapturesTooEarly(i)' = CapturesTooEarly(i)
  BY <1>1, SameProgram
<1>3. ASSUME NEW i \in 1..Len(program), program[i].op = "new"
      PROVE  CreatedAt(i) \in Units /\ CreatedAt(i) = ClassAt(program[i].of)
  <2>1. PICK j \in 1..Len(program) :
           Declares(program, j, i) /\ \A k \in 1..Len(program) : Declares(program, k, i) => k = j
    BY <1>1, <1>3 DEF Resolved
  <2>2. \A k : Declares(program, k, i) <=> program[k].op = "class" /\ program[k].of = program[i].of
    BY <1>3 DEF Declares, Naming, Declaring
  <2>3. CreatedAt(i) = j
    BY <1>3, <2>1, <2>2 DEF CreatedAt, ClassAt
  <2> QED
    BY <1>3, <2>1, <2>2, <2>3 DEF CreatedAt, Units, UnitOp
<1>4. \A i : i \in OutOfReach(captures') <=>
             i \in 1..Len(program) /\ OtherUnit(i) /\ Free(CreatedAt(i)) # {}
  <2>1. \A u \in Units : captures'[u] = Free(u)
    BY AllVisited
  <2>2. ASSUME NEW i \in 1..Len(program), program[i].op = "new"
        PROVE  captures'[ClassAt(program[i].of)] = Free(CreatedAt(i))
    BY <1>3, <2>1, <2>2
  <2> DEFINE cap == captures'
  <2>3. \A i \in 1..Len(program) : program[i].op = "new" => cap[ClassAt(program[i].of)] = Free(CreatedAt(i))
    BY <2>2
  <2> HIDE DEF cap
  <2>4. \A i : i \in OutOfReach(cap) <=>
               i \in 1..Len(program) /\ OtherUnit(i) /\ Free(CreatedAt(i)) # {}
    BY <1>3, <2>3 DEF OutOfReach, OtherUnit
  <2> QED
    BY <2>4 DEF cap
<1>5. ASSUME NEW i, ~ CapturesTooEarly(i) PROVE i \in errors' <=> i \in faults'
  <2>1. CASE i \notin 1..Len(program)
    <3>1. i \notin errors /\ i \notin faults
      BY <2>1, AllVisited DEF Analysing, ErrorsInvariant
    <3> QED
      BY <1>1, <1>4, <2>1, <3>1
  <2>2. CASE i \in 1..Len(program)
    <3>1. Reported(i) /\ ~ Awaits(i)
      BY <2>2, AllVisited DEF Analysing, ErrorsInvariant
    <3>2. OtherUnit(i) => program[i].op = "new"
      BY DEF OtherUnit
    <3>3. CASE OtherUnit(i)
      BY <1>1, <1>4, <2>2, <3>1, <3>3 DEF Reported
    <3>4. CASE ~ OtherUnit(i)
      BY <1>1, <1>4, <1>5, <3>1, <3>4 DEF Reported
    <3> QED
      BY <3>3, <3>4
  <2> QED
    BY <2>1, <2>2
<1>6. {i \in errors' : ~ CapturesTooEarly(i)'} = {i \in faults' : ~ CapturesTooEarly(i)'}
  BY <1>2, <1>5
<1> QED
  BY <1>6 DEF ErrorsAreFaults

\* And every declaration has seen what was assigned before it.
LEMMA DoneBoxes ==
    ASSUME Analysing, PositionInvariant, EndUnit, PathEnd, unit = 0
    PROVE  ReassignedIsMutable'
<1>1. UNCHANGED <<faults, needsBox, mixed, mutable>> /\ Resolved(program)
  BY DEF EndUnit, PathEnd, Analysing
<1>2. NamedBy(1..Len(program), Naming) \subseteq declared
  <2>1. ASSUME NEW i \in 1..Len(program), program[i].op \in Naming PROVE program[i].of \in declared
    <3>1. PICK j \in 1..Len(program) : Resolves(j, i)
      BY <1>1, <2>1, DeclarationOf
    <3>2. j \in VisitedItems
      BY AllVisited
    <3> QED
      BY <3>1, <3>2 DEF Resolves, Analysing, NamesInvariant, NamedBy
  <2> QED
    BY <2>1 DEF NamedBy
<1>3. faults = {} => needsBox \subseteq mutable \cup mixed
  BY <1>2 DEF Analysing, BoxesInvariant
<1> QED
  BY <1>1, <1>3 DEF ReassignedIsMutable

\* What is known throughout, of the program, the unit and what is reported.
UsageInvariant ==
    /\ program \in Programs /\ AssignmentInvariant /\ ReportsInvariant
    /\ ErrorsAreFaults /\ ReassignedIsMutable

\* It holds at first: nothing is visited.
LEMMA InitReports ==
    ASSUME Init
    PROVE  UsageInvariant
<1>1. program \in Programs /\ WellFormed(program)
  BY ProgramsAssumption DEF Init, AnalysisInit
<1>2. AssignmentInvariant
  BY InitAssigned
<1>3. /\ unit \in Units /\ at = unit + 1 /\ ~ Done
  <2>1. Units \in SUBSET Units /\ Units # {}
    BY DEF Units
  <2>2. \E u \in Units : \A v \in Units : Close(u) <= Close(v)
    BY <1>1, <2>1, UnitsClose
  <2>3. unit \in Units /\ at = unit + 1
    BY <2>2 DEF Init, AnalysisInit, FirstUnit
  <2>4. unit \in Nat /\ Len(program) \in Nat /\ unit < Close(unit) /\ Close(unit) \in Nat
        /\ Close(unit) <= Len(program) + 1
    BY <1>1, <2>3, UnitSpan
  <2>5. unit # Len(program) + 1
    BY <2>4
  <2> QED
    BY <2>3, <2>5 DEF Done
<1>4. NamesInvariant
  BY <1>1, InitNames DEF Init
<1>5. DeclarationsInvariant
  <2>1. EntersWays
    BY <1>1, <1>3 DEF EntersWays, Init, AnalysisInit, PathInit
  <2> QED
    BY <2>1, EnterDeclarations
<1>6. BoxesInvariant
  BY DEF BoxesInvariant, Init, PathInit
<1>7. ErrorsInvariant
  <2>1. errors = {} /\ faults = {} /\ pending = {} /\ declared = {}
    BY DEF Init, AnalysisInit, PathInit
  <2>2. VisitedItems = {}
    <3>1. \A u \in Units : Close(unit) <= Close(u) /\ Close(u) \in Nat
      <4>1. Units \in SUBSET Units /\ Units # {}
        BY DEF Units
      <4>2. \E u \in Units : \A v \in Units : Close(u) <= Close(v)
        BY <1>1, <4>1, UnitsClose
      <4> QED
        BY <1>1, <4>2, UnitSpan DEF Init, AnalysisInit, FirstUnit
    <3> QED
      BY <1>1, <1>3, <3>1, NoneDirect, UnitOfIs
  <2> QED
    BY <2>1, <2>2 DEF ErrorsInvariant
<1>8. ReportsInvariant
  BY <1>4, <1>5, <1>6, <1>7 DEF ReportsInvariant
<1> QED
  BY <1>1, <1>2, <1>3, <1>8 DEF UsageInvariant, ErrorsAreFaults, ReassignedIsMutable

\* Every step keeps it.
LEMMA NextReports ==
    ASSUME UsageInvariant, [Next]_vars
    PROVE  UsageInvariant'
<1>1. AssignmentInvariant'
  BY NextKeeps DEF UsageInvariant
<1>2. program' = program
  BY DEF Next, Declare, Param, Define, Assign, Use, If, Else, EndIf, CreateFunction, Instantiate,
         SkipClass, EndUnit, Advance, vars, analysisVars
<1>3. Resolved(program)
  BY NamesAssumption DEF UsageInvariant
<1>4. CASE UNCHANGED vars
  <2>1. /\ UNCHANGED <<program, unit>> /\ UNCHANGED at /\ UNCHANGED <<declared, mutable, assigned>>
        /\ UNCHANGED frames /\ UNCHANGED <<undeclared, pending>> /\ UNCHANGED captures
        /\ UNCHANGED <<paths, branches>> /\ UNCHANGED <<faults, needsBox, mixed>> /\ UNCHANGED errors
    BY <1>4 DEF vars, analysisVars, flags
  <2>2. /\ Units' = Units /\ Done' = Done /\ DeclaredIn(unit)' = DeclaredIn(unit)
        /\ Close(unit)' = Close(unit)
    BY <2>1, SameUnit
  <2>3. /\ \A u : Close(u)' = Close(u) /\ Free(u)' = Free(u)
        /\ \A i : UnitOf(i)' = UnitOf(i) /\ OtherUnit(i)' = OtherUnit(i)
                  /\ CapturesTooEarly(i)' = CapturesTooEarly(i)
        /\ NestedIn(unit)' = NestedIn(unit)
        /\ \A i : Free(CreatedAt(i))' = Free(CreatedAt(i))
    <3>1. \A i : CreatedAt(i)' = CreatedAt(i) /\ OtherUnit(i)' = OtherUnit(i)
                 /\ CapturesTooEarly(i)' = CapturesTooEarly(i)
      BY <2>1, SameProgram
    <3>2. \A u : Within(u)' = Within(u)
      BY <2>1, SameProgram DEF Within
    <3>3. \A i : Free(CreatedAt(i))' = Free(CreatedAt(i))
      BY <2>1, <3>1, <3>2 DEF Free
    <3> QED
      BY <2>1, <3>1, <3>3, SameProgram DEF NestedIn
  <2>4. /\ DirectItems' = DirectItems /\ VisitedItems' = VisitedItems /\ ClosedUnits' = ClosedUnits
        /\ at < Close(unit) => UnitOf(at)' = UnitOf(at)
    <3>1. \A i : Direct(i)' = Direct(i)
      BY <2>1, <2>3 DEF Direct
    <3>2. \A i : Close(UnitOf(i))' = Close(UnitOf(i))
      BY <2>1 DEF Close, UnitOf, Units
    <3>3. \A i : Visited(i)' = Visited(i)
      BY <2>2, <3>1, <3>2 DEF Visited
    <3> QED
      BY <2>1, <2>2, <2>3, <3>1, <3>3 DEF DirectItems, VisitedItems, ClosedUnits, UnitOf
  <2>5. NamesInvariant => NamesInvariant'
    BY <2>1, <2>2, <2>3, <2>4 DEF NamesInvariant, NamedBy
  <2>6. DeclarationsInvariant => DeclarationsInvariant'
    BY <2>1, <2>2, <2>4 DEF DeclarationsInvariant, AllWays, WaysOf
  <2>7. BoxesInvariant => BoxesInvariant'
    BY <2>1 DEF BoxesInvariant, NamedBy
  <2>8. ErrorsInvariant => ErrorsInvariant'
    BY <2>1, <2>2, <2>3, <2>4 DEF ErrorsInvariant, Reported, Awaits
  <2>9. /\ ErrorsAreFaults => ErrorsAreFaults'
        /\ ReassignedIsMutable => ReassignedIsMutable'
    BY <2>1, <2>2, <2>3 DEF ErrorsAreFaults, ReassignedIsMutable
  <2> QED
    BY <1>1, <1>2, <2>2, <2>5, <2>6, <2>7, <2>8, <2>9 DEF UsageInvariant, ReportsInvariant
<1>5. CASE Next /\ ~ Done
  <2>1. Analysing /\ PositionInvariant
    BY <1>3, <1>5, AnalysingIs DEF UsageInvariant
  <2>2. CASE EndUnit /\ PathEnd
    <3>1. CASE unit = 0
      <4>1. ErrorsAreFaults' /\ ReassignedIsMutable'
        BY <2>1, <2>2, <3>1, DoneErrors, DoneBoxes
      <4>2. Done'
        BY <1>2, <2>2, <3>1 DEF EndUnit, Done
      <4> QED
        BY <1>1, <1>2, <4>1, <4>2 DEF UsageInvariant, ReportsInvariant
    <3>2. CASE unit # 0
      <4>1. ReportsInvariant'
        BY <2>1, <2>2, <3>2, EndKeepsReports
      <4>2. ~ Done'
        <5>1. /\ unit' \in Units /\ Len(program) \in Nat
          BY <2>1, <2>2, <3>2, EndKeepsNames DEF Analysing, PositionInvariant, WellFormed
        <5>2. unit' # Len(program) + 1
          BY <5>1 DEF Units
        <5> QED
          BY <1>2, <5>2 DEF Done
      <4> QED
        BY <1>1, <1>2, <4>1, <4>2 DEF UsageInvariant, ErrorsAreFaults, ReassignedIsMutable
    <3> QED
      BY <3>1, <3>2
  <2>3. CASE ~ (EndUnit /\ PathEnd)
    <3>1. ReportsInvariant'
      <4>1. \/ (Declare /\ PathDeclare) \/ ((Param \/ Define) /\ PathDefine)
            \/ (Use /\ PathUse) \/ (Assign /\ PathAssign)
            \/ ((CreateFunction \/ Instantiate) /\ PathCreate)
            \/ (If /\ PathIf) \/ (Else /\ PathElse) \/ (EndIf /\ PathEndIf)
            \/ (SkipClass /\ UNCHANGED <<paths, branches, faults, needsBox, mixed>>)
        BY <1>5, <2>3 DEF Next
      <4>2. CASE (Declare /\ PathDeclare) \/ ((Param \/ Define) /\ PathDefine)
        BY <2>1, <4>2, DeclaringKeepsReports
      <4>3. CASE (Use /\ PathUse) \/ (Assign /\ PathAssign)
        BY <2>1, <4>3, NamingKeepsReports
      <4>4. CASE (CreateFunction \/ Instantiate) /\ PathCreate
        BY <2>1, <4>4, CreatingKeepsReports
      <4>5. CASE \/ (If /\ PathIf) \/ (Else /\ PathElse) \/ (EndIf /\ PathEndIf)
                 \/ (SkipClass /\ UNCHANGED <<paths, branches, faults, needsBox, mixed>>)
        BY <2>1, <4>5, MovingKeepsReports
      <4> QED
        BY <4>1, <4>2, <4>3, <4>4, <4>5
    <3>2. ~ Done'
      <4>1. unit' = unit
        BY <1>5, <2>3 DEF Next, Declare, Param, Define, Assign, Use, If, Else, EndIf, CreateFunction,
           Instantiate, SkipClass, Advance
      <4> QED
        BY <1>2, <1>5, <4>1 DEF Done
    <3> QED
      BY <1>1, <1>2, <3>1, <3>2 DEF UsageInvariant, ErrorsAreFaults, ReassignedIsMutable
  <2> QED
    BY <2>2, <2>3
<1>6. CASE Next /\ Done
  BY <1>4, <1>6 DEF Next, Declare, Param, Define, Assign, Use, If, Else, EndIf, CreateFunction,
     Instantiate, SkipClass, EndUnit, Meets
<1> QED
  BY <1>4, <1>5, <1>6

(* The errors reported are the items at which some execution goes wrong:   *)
(* for every program whose names are resolved, no use, capture or creation *)
(* that a way gets to too early goes unreported (but for the creations the *)
(* code leaves out), and none that all ways have prepared is reported.     *)
THEOREM FaultsAreReported == Spec => []ErrorsAreFaults
<1>1. Init => UsageInvariant
  BY InitReports
<1>2. UsageInvariant /\ [Next]_vars => UsageInvariant'
  BY NextReports
<1>3. UsageInvariant => ErrorsAreFaults
  BY DEF UsageInvariant
<1> QED
  BY <1>1, <1>2, <1>3, PTL DEF Spec

(* A variable that is assigned after it was captured, on some way, is      *)
(* marked mutable, so that the pre-transformation boxes it: for every      *)
(* program without faults, but for what only some ways had assigned.       *)
THEOREM ReassignedIsMarked == Spec => []ReassignedIsMutable
<1>1. Init => UsageInvariant
  BY InitReports
<1>2. UsageInvariant /\ [Next]_vars => UsageInvariant'
  BY NextReports
<1>3. UsageInvariant => ReassignedIsMutable
  BY DEF UsageInvariant
<1> QED
  BY <1>1, <1>2, <1>3, PTL DEF Spec
=============================================================================
