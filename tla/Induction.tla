------------------------------ MODULE Induction ------------------------------
(***************************************************************************)
(* Induction over the natural numbers, stated over sets so that it can be  *)
(* cited without a predicate as a parameter, and what follows from it:     *)
(* least elements, that a recursive function has the values its definition *)
(* says, and what it takes to join sequences and to count items.           *)
(***************************************************************************)
EXTENDS Integers, SequencesExt, WellFoundedInduction, SequenceTheorems, FiniteSetTheorems, TLAPS

\* A nonempty set of numbers has a least element.
LEMMA LeastElement ==
    ASSUME NEW S \in SUBSET Nat, S # {}
    PROVE  \E x \in S : \A y \in S : x <= y
<1> DEFINE Smaller == {pair \in Nat \X Nat : pair[1] < pair[2]}
<1>1. IsWellFoundedOn(Smaller, Nat)
  BY NatLessThanWellFounded DEF OpToRel
<1>2. PICK x \in S : \A y \in S : ~ (<<y, x>> \in Smaller)
  <2> HIDE DEF Smaller
  <2> QED
    BY <1>1, WFMin
<1>3. ASSUME NEW y \in S PROVE x <= y
  <2>1. x \in Nat /\ y \in Nat
    OBVIOUS
  <2>2. <<y, x>> \notin Smaller
    BY <1>2
  <2>3. ~ (y < x)
    BY <2>1, <2>2
  <2> QED
    BY <2>1, <2>3
<1> QED
  BY <1>3

\* What holds of 0, and of n + 1 whenever it holds of n, holds of all numbers.
LEMMA NumberInduction ==
    ASSUME NEW T, 0 \in T, \A n \in Nat : n \in T => n + 1 \in T
    PROVE  \A n \in Nat : n \in T
<1> SUFFICES ASSUME Nat \ T # {} PROVE FALSE
  OBVIOUS
<1>1. PICK x \in Nat \ T : \A y \in Nat \ T : x <= y
  BY LeastElement
<1>2. x # 0 /\ x - 1 \in Nat /\ ~ (x <= x - 1)
  OBVIOUS
<1>3. x - 1 \in T
  BY <1>1, <1>2
<1> QED
  BY <1>1, <1>2, <1>3

\* Step functions on X, which are told the number of the step, and what n steps
\* of one of them make of x.
Steps(n, X) == [(1..n) \X X -> X]
Iterates(n, X, F, x, g) ==
    /\ g \in [0..n -> X]
    /\ g[0] = x
    /\ \A k \in 1..n : g[k] = F[<<k, g[k - 1]>>]

\* A step can be repeated any number of times.
LEMMA Iteration ==
    ASSUME NEW n \in Nat, NEW X, NEW F \in Steps(n, X), NEW x \in X
    PROVE  \E g : Iterates(n, X, F, x, g)
<1> DEFINE P(g, m) == g[0] = x /\ \A k \in 1..m : g[k] = F[<<k, g[k - 1]>>]
           T == {m \in Nat : m <= n => \E g \in [0..m -> X] : P(g, m)}
<1>1. 0 \in T
  <2> DEFINE g == [k \in 0..0 |-> x]
  <2>1. g \in [0..0 -> X] /\ P(g, 0)
    OBVIOUS
  <2> HIDE DEF P, g
  <2> QED
    BY <2>1
<1>2. ASSUME NEW m \in Nat, m \in T, m + 1 <= n PROVE \E g \in [0..(m + 1) -> X] : P(g, m + 1)
  <2>1. PICK g \in [0..m -> X] : P(g, m)
    BY <1>2
  <2> DEFINE h == [k \in 0..(m + 1) |-> IF k = m + 1 THEN F[<<m + 1, g[m]>>] ELSE g[k]]
  <2>2. h \in [0..(m + 1) -> X]
    <3>1. <<m + 1, g[m]>> \in (1..n) \X X
      BY <1>2
    <3> QED
      BY <3>1 DEF Steps
  <2>3. h[0] = x
    BY <2>1
  <2>4. ASSUME NEW k \in 1..(m + 1) PROVE h[k] = F[<<k, h[k - 1]>>]
    <3>1. h[k - 1] = g[k - 1]
      OBVIOUS
    <3>2. CASE k = m + 1
      <4>1. h[k] = F[<<m + 1, g[m]>>] /\ k - 1 = m
        BY <3>2
      <4> HIDE DEF h
      <4> QED
        BY <3>1, <3>2, <4>1
    <3>3. CASE k # m + 1
      <4>1. k \in 1..m /\ h[k] = g[k]
        BY <3>3
      <4>2. g[k] = F[<<k, g[k - 1]>>]
        BY <2>1, <4>1
      <4> HIDE DEF h
      <4> QED
        BY <3>1, <4>1, <4>2
    <3> QED
      BY <3>2, <3>3
  <2> HIDE DEF h
  <2> QED
    BY <2>2, <2>3, <2>4
<1>3. \A m \in Nat : m \in T
  <2>1. \A m \in Nat : m \in T => m + 1 \in T
    BY <1>2
  <2> HIDE DEF T
  <2> QED
    BY <1>1, <2>1, NumberInduction
<1> QED
  BY <1>3 DEF Iterates

\* All but the last element of a sequence.
LEMMA FrontOfSeq ==
    ASSUME NEW S, NEW s \in Seq(S), Len(s) > 0
    PROVE  /\ SubSeq(s, 1, Len(s) - 1) \in Seq(S)
           /\ Len(SubSeq(s, 1, Len(s) - 1)) = Len(s) - 1
           /\ \A k \in 1..(Len(s) - 1) : SubSeq(s, 1, Len(s) - 1)[k] = s[k]
<1> DEFINE n == Len(s) - 1
<1>1. n \in Nat /\ n \in Int /\ 1 \in Int /\ n <= Len(s)
  OBVIOUS
<1>2. \A k \in 1..n : s[k] \in S
  BY <1>1, ElementOfSeq
<1> HIDE DEF n
<1>3. /\ SubSeq(s, 1, n) \in Seq(S)
      /\ Len(SubSeq(s, 1, n)) = IF 1 <= n THEN n - 1 + 1 ELSE 0
      /\ \A k \in 1..(n - 1 + 1) : SubSeq(s, 1, n)[k] = s[1 + k - 1]
  BY <1>1, <1>2, SubSeqProperties
<1>4. Len(SubSeq(s, 1, n)) = n /\ \A k \in 1..n : k \in 1..(n - 1 + 1) /\ 1 + k - 1 = k
  BY <1>1, <1>3
<1>5. \A k \in 1..n : SubSeq(s, 1, n)[k] = s[k]
  BY <1>3, <1>4
<1> QED
  BY <1>3, <1>4, <1>5 DEF n

\* A function is defined along the parents of elements, which have lower ranks:
\* it is B where there is no parent, and F of its value for the parent.
Recurs(C, up, B, F, g, S) ==
    \A c \in S : g[c] = IF up[c] \in C THEN F[<<c, g[up[c]]>>] ELSE B[c]

\* What is computed from parent to child along ranks exists.
LEMMA AlongParents ==
    ASSUME NEW C, NEW n \in Nat, NEW rank \in [C -> 0..n], NEW up,
           \A c \in C : up[c] \in C => rank[up[c]] < rank[c],
           NEW X, NEW B \in [C -> X], NEW F \in [C \X X -> X]
    PROVE  \E g \in [C -> X] : Recurs(C, up, B, F, g, C)
<1> DEFINE Below(k) == {c \in C : rank[c] < k}
           T == {k \in Nat : \E g \in [C -> X] : Recurs(C, up, B, F, g, Below(k))}
<1>1. 0 \in T
  BY DEF Recurs
<1>2. ASSUME NEW k \in Nat, k \in T PROVE k + 1 \in T
  <2>1. PICK g \in [C -> X] : Recurs(C, up, B, F, g, Below(k))
    BY <1>2
  <2> DEFINE h == [c \in C |-> IF rank[c] < k THEN g[c]
                               ELSE IF up[c] \in C THEN F[<<c, g[up[c]]>>] ELSE B[c]]
  <2>2. h \in [C -> X]
    OBVIOUS
  <2>3. ASSUME NEW c \in Below(k + 1)
        PROVE  h[c] = IF up[c] \in C THEN F[<<c, h[up[c]]>>] ELSE B[c]
    <3>1. ASSUME up[c] \in C PROVE h[up[c]] = g[up[c]]
      <4>1. rank[up[c]] < k
        BY <3>1
      <4> QED
        BY <3>1, <4>1
    <3>2. h[c] = IF up[c] \in C THEN F[<<c, g[up[c]]>>] ELSE B[c]
      BY <2>1 DEF Recurs
    <3> HIDE DEF h
    <3> QED
      BY <3>1, <3>2
  <2> HIDE DEF h
  <2> QED
    BY <2>2, <2>3 DEF Recurs
<1>3. \A k \in Nat : k \in T
  <2> HIDE DEF T
  <2> QED
    BY <1>1, <1>2, NumberInduction
<1>4. n + 1 \in T
  <2> HIDE DEF T
  <2> QED
    BY <1>3
<1> HIDE DEF Below
<1>6. PICK g \in [C -> X] : Recurs(C, up, B, F, g, Below(n + 1))
  BY <1>4
<1>5. \A c \in C : c \in Below(n + 1)
  BY DEF Below
<1> QED
  BY <1>6, <1>5 DEF Recurs

\* What holds of an element when it holds of its parent holds of all.
LEMMA ParentInduction ==
    ASSUME NEW C, NEW n \in Nat, NEW rank \in [C -> 0..n], NEW up,
           \A c \in C : up[c] \in C => rank[up[c]] < rank[c],
           NEW T, \A c \in C : (up[c] \in C => up[c] \in T) => c \in T
    PROVE  \A c \in C : c \in T
<1> DEFINE K == {k \in Nat : \A c \in C : rank[c] < k => c \in T}
<1>1. 0 \in K
  OBVIOUS
<1>2. ASSUME NEW k \in Nat, k \in K PROVE k + 1 \in K
  BY <1>2
<1>3. \A k \in Nat : k \in K
  <2> HIDE DEF K
  <2> QED
    BY <1>1, <1>2, NumberInduction
<1>4. n + 1 \in K
  BY <1>3
<1> QED
  BY <1>4

-----------------------------------------------------------------------------
(* Sequences put one after the other *)

\* g[k] is the first k of the n sequences q, one after the other.
FirstJoined(S, n, q, g) ==
    /\ g \in [0..n -> Seq(S)]
    /\ g[0] = << >>
    /\ \A k \in 1..n : g[k] = g[k - 1] \o q[k]

\* Sequences can be joined one after the other.
LEMMA PrefixesExist ==
    ASSUME NEW S, NEW n \in Nat, NEW q, \A i \in 1..n : q[i] \in Seq(S)
    PROVE  \E g : FirstJoined(S, n, q, g)
<1> DEFINE X == Seq(S)
           F == [ks \in (1..n) \X X |-> ks[2] \o q[ks[1]]]
           start == << >>
<1>1. \A s \in X, t \in X : s \o t \in X
  BY ConcatProperties
<1>2. start \in X /\ \A i \in 1..n : q[i] \in X
  OBVIOUS
<1> HIDE DEF X
<1>3. F \in Steps(n, X)
  BY <1>1, <1>2 DEF Steps
<1>4. PICK g : Iterates(n, X, F, start, g)
  <2> HIDE DEF F, start
  <2> QED
    BY <1>2, <1>3, Iteration
<1>5. g \in [0..n -> X] /\ g[0] = << >>
  BY <1>4 DEF Iterates
<1>6. ASSUME NEW k \in 1..n PROVE g[k] = g[k - 1] \o q[k]
  <2>1. k - 1 \in 0..n
    OBVIOUS
  <2>2. <<k, g[k - 1]>> \in (1..n) \X X
    BY <1>5, <2>1
  <2>3. g[k] = F[<<k, g[k - 1]>>]
    BY <1>4 DEF Iterates
  <2> QED
    BY <2>2, <2>3
<1> QED
  BY <1>5, <1>6 DEF FirstJoined, X

\* u is s followed by t.
Joined(s, t, u) ==
    /\ Len(s) \in Nat /\ Len(t) \in Nat /\ Len(u) = Len(s) + Len(t)
    /\ \A j \in 1..Len(s) : j \in 1..Len(u) /\ u[j] = s[j]
    /\ \A j \in 1..Len(t) : Len(s) + j \in 1..Len(u) /\ u[Len(s) + j] = t[j]

\* Concatenation joins two sequences.
LEMMA ConcatJoined ==
    ASSUME NEW S, NEW s \in Seq(S), NEW t \in Seq(S)
    PROVE  Joined(s, t, s \o t)
  BY DEF Joined

\* Every prefix joins the one before it and the next sequence.
LEMMA PrefixStep ==
    ASSUME NEW S, NEW n \in Nat, NEW q, \A i \in 1..n : q[i] \in Seq(S),
           NEW g, FirstJoined(S, n, q, g), NEW k \in 1..n
    PROVE  Joined(g[k - 1], q[k], g[k])
<1>1. k - 1 \in 0..n
  OBVIOUS
<1>2. g[k] = g[k - 1] \o q[k] /\ g[k - 1] \in Seq(S) /\ q[k] \in Seq(S)
  BY <1>1 DEF FirstJoined
<1>3. Joined(g[k - 1], q[k], g[k - 1] \o q[k])
  BY <1>2, ConcatJoined
<1> QED
  BY <1>2, <1>3

\* FlattenSeq, which puts q[1] first, comes to the same.
LEMMA FlattenedIsPrefix ==
    ASSUME NEW S, NEW q, Len(q) \in Nat \ {0}, \A i \in 1..Len(q) : q[i] \in Seq(S),
           NEW g, FirstJoined(S, Len(q), q, g)
    PROVE  FlattenSeq(q) = g[Len(q)]
<1> DEFINE n == Len(q)
           flatten[i \in 1..n] == IF i = 1 THEN q[i] ELSE flatten[i - 1] \o q[i]
           h == [i \in 1..n |-> g[i]]
<1>1. FlattenSeq(q) = flatten[n]
  BY DEF FlattenSeq
<1>2. n \in Nat /\ n # 0
  OBVIOUS
<1>3. g[0] = << >> /\ \A k \in 1..n : g[k] = g[k - 1] \o q[k] /\ q[k] \in Seq(S)
  BY DEF FirstJoined
<1> HIDE DEF n
<1>4. g[1] = q[1]
  <2>1. 1 \in 1..n /\ 1 - 1 = 0
    BY <1>2
  <2>2. g[1] = g[1 - 1] \o q[1] /\ q[1] \in Seq(S)
    BY <1>3, <2>1
  <2>3. g[1] = << >> \o q[1]
    BY <1>3, <2>1, <2>2
  <2> QED
    BY <2>2, <2>3, ConcatEmptySeq
<1>5. \A k \in 1..n : g[k] = IF k = 1 THEN q[k] ELSE h[k - 1] \o q[k]
  <2> SUFFICES ASSUME NEW k \in 1..n PROVE g[k] = IF k = 1 THEN q[k] ELSE h[k - 1] \o q[k]
    OBVIOUS
  <2>1. k # 1 => k - 1 \in 1..n
    BY <1>2
  <2> QED
    BY <1>3, <1>4, <2>1
<1>6. flatten = [i \in 1..n |-> IF i = 1 THEN q[i] ELSE flatten[i - 1] \o q[i]]
  <2>1. h = [i \in 1..n |-> IF i = 1 THEN q[i] ELSE h[i - 1] \o q[i]]
    BY <1>5
  <2> HIDE DEF h
  <2> QED
    BY <2>1
<1>7. ASSUME NEW f, f = [i \in 1..n |-> IF i = 1 THEN q[i] ELSE f[i - 1] \o q[i]]
      PROVE  f[n] = g[n]
  <2>1. \A i \in 1..n : f[i] = IF i = 1 THEN q[i] ELSE f[i - 1] \o q[i]
    BY <1>7, Zenon
  <2> DEFINE T == {m \in Nat : m + 1 \in 1..n => f[m + 1] = g[m + 1]}
  <2>2. 0 \in T
    <3>1. 1 \in 1..n => f[1] = q[1]
      BY <2>1
    <3> QED
      BY <1>4, <3>1
  <2>3. ASSUME NEW m \in Nat, m \in T PROVE m + 1 \in T
    <3>1. ASSUME NEW k \in 1..n, k = m + 1 + 1 PROVE f[k] = g[k]
      <4>1. k # 1 /\ k - 1 = m + 1 /\ k - 1 \in 1..n
        BY <1>2, <3>1
      <4>2. f[k] = f[k - 1] \o q[k] /\ g[k] = g[k - 1] \o q[k]
        BY <1>3, <2>1, <4>1
      <4>3. f[k - 1] = g[k - 1]
        BY <2>3, <4>1
      <4> QED
        BY <4>2, <4>3
    <3> QED
      BY <3>1
  <2>4. \A m \in Nat : m \in T
    <3> HIDE DEF T
    <3> QED
      BY <2>2, <2>3, NumberInduction
  <2>5. n - 1 \in Nat /\ n - 1 + 1 = n /\ n \in 1..n
    BY <1>2
  <2>6. n - 1 \in T
    BY <2>4, <2>5
  <2> QED
    BY <2>5, <2>6
<1> HIDE DEF flatten
<1> QED
  BY <1>1, <1>6, <1>7 DEF n

\* off tells where in the flattened sequence each of the n sequences q ends.
Offsets(n, q, off) ==
    /\ off \in [0..n -> Nat]
    /\ off[0] = 0
    /\ \A i \in 1..n : off[i] = off[i - 1] + Len(q[i]) /\ Len(q[i]) \in Nat

\* s is the n sequences q one after the other, which end in s where off says.
Spread(n, q, off, s) ==
    /\ Offsets(n, q, off)
    /\ Len(s) = off[n]
    /\ \A i \in 1..n : \A k \in 1..Len(q[i]) : s[off[i - 1] + k] = q[i][k]

\* What FlattenSeq returns has every sequence, one behind the other.
LEMMA Flattened ==
    ASSUME NEW S, NEW q, Len(q) \in Nat \ {0}, \A i \in 1..Len(q) : q[i] \in Seq(S)
    PROVE  FlattenSeq(q) \in Seq(S) /\ \E off : Spread(Len(q), q, off, FlattenSeq(q))
<1> DEFINE n == Len(q)
<1>1. PICK g : FirstJoined(S, n, q, g)
  <2>1. n \in Nat
    OBVIOUS
  <2> QED
    BY <2>1, PrefixesExist
<1>2. FlattenSeq(q) = g[n]
  BY <1>1, FlattenedIsPrefix
<1>3. n \in Nat /\ n # 0 /\ \A i \in 1..n : q[i] \in Seq(S)
  OBVIOUS
<1> HIDE DEF n
<1>4. ASSUME NEW k \in 1..n PROVE Joined(g[k - 1], q[k], g[k])
  BY <1>1, <1>3, PrefixStep
<1> DEFINE off == [k \in 0..n |-> Len(g[k])]
<1>5. Offsets(n, q, off)
  <2>1. ASSUME NEW i \in 1..n PROVE i \in 0..n /\ i - 1 \in 0..n
    BY <1>3
  <2>2. \A k \in 0..n : Len(g[k]) \in Nat
    BY <1>1 DEF FirstJoined
  <2>3. off[0] = 0
    <3>1. g[0] = << >> /\ 0 \in 0..n
      BY <1>1, <1>3 DEF FirstJoined
    <3> QED
      BY <3>1
  <2>4. \A i \in 1..n : Len(g[i]) = Len(g[i - 1]) + Len(q[i]) /\ Len(q[i]) \in Nat
    BY <1>4 DEF Joined
  <2> QED
    BY <2>1, <2>2, <2>3, <2>4 DEF Offsets
<1>6. \A k \in 0..n : off[k] = Len(g[k])
  OBVIOUS
<1> HIDE DEF off
<1> DEFINE Held(m, i, k) == off[i - 1] + k \in 1..Len(g[m]) /\ g[m][off[i - 1] + k] = q[i][k]
<1>7. \A m \in Nat : m <= n => \A i \in 1..m : \A k \in 1..Len(q[i]) : Held(m, i, k)
  <2> DEFINE T == {m \in Nat : m <= n => \A i \in 1..m : \A k \in 1..Len(q[i]) : Held(m, i, k)}
  <2>1. 0 \in T
    OBVIOUS
  <2>2. ASSUME NEW m \in Nat, m \in T PROVE m + 1 \in T
    <3> SUFFICES ASSUME m + 1 <= n, NEW i \in 1..(m + 1), NEW k \in 1..Len(q[i])
                 PROVE  Held(m + 1, i, k)
      OBVIOUS
    <3>1. m + 1 \in 1..n /\ m + 1 - 1 = m /\ m \in 0..n /\ i \in 1..n
      BY <1>3
    <3>2. Joined(g[m], q[m + 1], g[m + 1])
      <4>1. ASSUME NEW h \in 1..n, h - 1 = m PROVE Joined(g[m], q[h], g[h])
        BY <1>4, <4>1
      <4> QED
        BY <3>1, <4>1
    <3>3. CASE i = m + 1
      <4>1. off[i - 1] = Len(g[m])
        BY <1>6, <3>1, <3>3
      <4> HIDE DEF T
      <4> QED
        BY <3>2, <3>3, <4>1 DEF Joined
    <3>4. CASE i # m + 1
      <4>1. i \in 1..m /\ m <= n
        BY <3>1, <3>4
      <4>2. off[i - 1] + k \in 1..Len(g[m]) /\ g[m][off[i - 1] + k] = q[i][k]
        BY <2>2, <4>1
      <4> DEFINE x == off[i - 1] + k
      <4> HIDE DEF x
      <4>3. x \in 1..Len(g[m]) /\ g[m][x] = q[i][k]
        BY <4>2 DEF x
      <4>4. x \in 1..Len(g[m + 1]) /\ g[m + 1][x] = q[i][k]
        BY <3>2, <4>3 DEF Joined
      <4> QED
        BY <4>4 DEF x
    <3> QED
      BY <3>3, <3>4
  <2>3. \A m \in Nat : m \in T
    <3> HIDE DEF T
    <3> QED
      BY <2>1, <2>2, NumberInduction
  <2> QED
    BY <2>3
<1>8. n <= n /\ n \in 0..n /\ g[n] \in Seq(S)
  BY <1>1, <1>3 DEF FirstJoined
<1>9. \A i \in 1..n : \A k \in 1..Len(q[i]) : g[n][off[i - 1] + k] = q[i][k]
  BY <1>3, <1>7, <1>8
<1>10. Spread(n, q, off, g[n])
  BY <1>5, <1>6, <1>8, <1>9 DEF Spread
<1> QED
  BY <1>2, <1>8, <1>10 DEF n

\* The places where the sequences begin are in their order.
LEMMA OffsetsGrow ==
    ASSUME NEW n \in Nat, NEW q, NEW off, Offsets(n, q, off)
    PROVE  \A i, j \in 0..n : i <= j => off[i] <= off[j]
<1> DEFINE T == {d \in Nat : \A i \in 0..n : i + d <= n => off[i] <= off[i + d]}
<1>1. off \in [0..n -> Nat] /\ \A i \in 1..n : off[i] = off[i - 1] + Len(q[i]) /\ Len(q[i]) \in Nat
  BY DEF Offsets
<1>2. 0 \in T
  BY <1>1
<1>3. ASSUME NEW d \in Nat, d \in T PROVE d + 1 \in T
  <2> SUFFICES ASSUME NEW i \in 0..n, i + (d + 1) <= n PROVE off[i] <= off[i + (d + 1)]
    OBVIOUS
  <2>1. i + d <= n /\ i + d \in 0..n /\ i + (d + 1) \in 1..n /\ i + (d + 1) - 1 = i + d
    OBVIOUS
  <2>2. off[i] <= off[i + d]
    BY <1>3, <2>1
  <2>3. off[i + (d + 1)] = off[i + d] + Len(q[i + (d + 1)]) /\ Len(q[i + (d + 1)]) \in Nat
    BY <1>1, <2>1
  <2>4. off[i] \in Nat /\ off[i + d] \in Nat
    BY <1>1, <2>1
  <2> QED
    BY <2>2, <2>3, <2>4
<1>4. \A d \in Nat : d \in T
  <2> HIDE DEF T
  <2> QED
    BY <1>2, <1>3, NumberInduction
<1> SUFFICES ASSUME NEW i \in 0..n, NEW j \in 0..n, i <= j PROVE off[i] <= off[j]
  OBVIOUS
<1>5. j - i \in Nat /\ i + (j - i) = j
  OBVIOUS
<1>6. j - i \in T
  BY <1>4, <1>5
<1> QED
  BY <1>5, <1>6

\* Nothing is lost in FlattenSeq.
LEMMA FlattenedHasAll ==
    ASSUME NEW S, NEW q, Len(q) \in Nat, \A i \in 1..Len(q) : q[i] \in Seq(S), Len(q) = 0 => q = << >>
    PROVE  /\ FlattenSeq(q) \in Seq(S)
           /\ \A i \in 1..Len(q) : \A k \in 1..Len(q[i]) :
                 \E m \in 1..Len(FlattenSeq(q)) : FlattenSeq(q)[m] = q[i][k]
<1> DEFINE n == Len(q)
           s == FlattenSeq(q)
<1>1. CASE n = 0
  <2>1. s = << >> /\ 1..n = {}
    BY <1>1 DEF FlattenSeq
  <2>2. << >> \in Seq(S)
    OBVIOUS
  <2> QED
    BY <2>1, <2>2
<1>2. CASE n # 0
  <2>1. s \in Seq(S) /\ \E off : Spread(n, q, off, s)
    BY <1>2, Flattened
  <2>2. PICK off : Spread(n, q, off, s)
    BY <2>1
  <2>3. n \in Nat /\ \A i \in 1..n : q[i] \in Seq(S)
    OBVIOUS
  <2> HIDE DEF n, s
  <2>4. /\ off \in [0..n -> Nat] /\ off[0] = 0 /\ Len(s) = off[n]
        /\ \A i \in 1..n : off[i] = off[i - 1] + Len(q[i]) /\ Len(q[i]) \in Nat
        /\ \A i \in 1..n : \A k \in 1..Len(q[i]) : s[off[i - 1] + k] = q[i][k]
    BY <2>2 DEF Spread, Offsets
  <2>5. ASSUME NEW i \in 1..n PROVE off[i] <= off[n]
    <3>1. i \in 0..n /\ n \in 0..n /\ i <= n
      BY <2>3
    <3> QED
      BY <2>2, <2>3, <3>1, OffsetsGrow DEF Spread
  <2>6. ASSUME NEW i \in 1..n, NEW k \in 1..Len(q[i]) PROVE \E m \in 1..Len(s) : s[m] = q[i][k]
    <3>1. i - 1 \in 0..n /\ off[i - 1] \in Nat /\ off[i] \in Nat /\ Len(q[i]) \in Nat /\ off[n] \in Nat
      BY <2>3, <2>4
    <3>2. off[i - 1] + k \in 1..Len(s)
      BY <2>4, <2>5, <3>1
    <3> QED
      BY <2>4, <3>2
  <2> QED
    BY <2>1, <2>6 DEF n, s
<1> QED
  BY <1>1, <1>2

----------------------------------------------------------------------------
(* Counting the items of a range *)

Among(T, i, j) == {k \in i..j : k \in T}
CountIn(T, i, j) == Cardinality(Among(T, i, j))

\* Items are counted by numbers.
LEMMA CountFinite ==
    ASSUME NEW T, NEW i \in Int, NEW j \in Int
    PROVE  IsFiniteSet(Among(T, i, j)) /\ CountIn(T, i, j) \in Nat
<1>1. IsFiniteSet(i..j)
  BY FS_Interval
<1>2. Among(T, i, j) \in SUBSET (i..j)
  BY DEF Among
<1>3. IsFiniteSet(Among(T, i, j))
  BY <1>1, <1>2, FS_Subset
<1> QED
  BY <1>3, FS_CardinalityType DEF CountIn

\* The items of a range are those of its two parts.
LEMMA CountSplit ==
    ASSUME NEW T, NEW i \in Int, NEW m \in Int, NEW j \in Int, i <= m + 1, m <= j
    PROVE  CountIn(T, i, j) = CountIn(T, i, m) + CountIn(T, m + 1, j)
<1> DEFINE A == Among(T, i, m)
           B == Among(T, m + 1, j)
<1>1. Among(T, i, j) = A \cup B /\ A \cap B = {}
  BY DEF Among
<1>2. IsFiniteSet(A) /\ IsFiniteSet(B) /\ Cardinality(A) \in Nat /\ Cardinality(B) \in Nat
  <2>1. m + 1 \in Int
    OBVIOUS
  <2> QED
    BY <2>1, CountFinite DEF CountIn
<1> HIDE DEF A, B
<1>3. Cardinality(A \cup B) = Cardinality(A) + Cardinality(B) - Cardinality(A \cap B)
  BY <1>2, FS_Union
<1>4. Cardinality(A \cap B) = 0
  BY <1>1, FS_EmptySet
<1>5. Cardinality(A \cup B) = Cardinality(A) + Cardinality(B)
  BY <1>2, <1>3, <1>4
<1>6. CountIn(T, i, j) = Cardinality(A \cup B)
  BY <1>1 DEF CountIn
<1> QED
  BY <1>5, <1>6 DEF A, B, CountIn

\* A range of one item counts it or not.
LEMMA CountOne ==
    ASSUME NEW T, NEW i \in Int
    PROVE  /\ i \in T => CountIn(T, i, i) = 1
           /\ i \notin T => CountIn(T, i, i) = 0
           /\ CountIn(T, i, i - 1) = 0
<1>1. /\ i \in T => Among(T, i, i) = {i}
      /\ i \notin T => Among(T, i, i) = {}
      /\ Among(T, i, i - 1) = {}
  BY DEF Among
<1>2. Cardinality({i}) = 1 /\ Cardinality({}) = 0
  BY FS_Singleton, FS_EmptySet
<1> QED
  BY <1>1, <1>2 DEF CountIn
=============================================================================
