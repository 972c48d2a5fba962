--------------------------- MODULE Dispatch_proofs ---------------------------
(***************************************************************************)
(* Which method runs, for every program: the redefs type checking resolves,*)
(* the places in the tables of classes, and the overloads that calls       *)
(* choose, whatever the classes, their order and their definitions.        *)
(***************************************************************************)
EXTENDS Dispatch, Induction, FiniteSetTheorems

-----------------------------------------------------------------------------
(* Selecting from a sequence *)

\* r has the elements of the first n of s that are in T, in their order: h
\* says where they come from.
Picks(r, s, n, T, h) ==
    /\ h \in [1..Len(r) -> 1..n]
    /\ \A i \in 1..Len(r) : r[i] = s[h[i]] /\ r[i] \in T
    /\ \A i, j \in 1..Len(r) : i < j => h[i] < h[j]
    /\ \A k \in 1..n : s[k] \in T => \E i \in 1..Len(r) : h[i] = k

\* One more element is picked.
LEMMA PickedNext ==
    ASSUME NEW S, NEW s \in Seq(S), NEW T, NEW k \in Nat, k + 1 <= Len(s),
           NEW r \in Seq(S), NEW h, Picks(r, s, k, T, h), s[k + 1] \in T
    PROVE  \E g : Picks(Append(r, s[k + 1]), s, k + 1, T, g)
<1> DEFINE q == Append(r, s[k + 1])
           g == [i \in 1..(Len(r) + 1) |-> IF i = Len(r) + 1 THEN k + 1 ELSE h[i]]
<1>1. Len(r) \in Nat /\ s[k + 1] \in S
  OBVIOUS
<1>2. Len(q) = Len(r) + 1 /\ q[Len(r) + 1] = s[k + 1] /\ \A i \in 1..Len(r) : q[i] = r[i]
  BY <1>1
<1>3. g[Len(r) + 1] = k + 1 /\ \A i \in 1..Len(r) : g[i] = h[i]
  BY <1>1
<1> DEFINE n == Len(r)
<1>5. n \in Nat /\ h \in [1..n -> 1..k]
  BY <1>1 DEF Picks
<1>4. g \in [1..Len(q) -> 1..(k + 1)]
  <2>1. \A i \in 1..(n + 1) : i # n + 1 => i \in 1..n
    BY <1>5
  <2>2. \A i \in 1..n : h[i] \in 1..(k + 1)
    BY <1>5
  <2>3. k + 1 \in 1..(k + 1) /\ Len(q) = n + 1
    BY <1>2
  <2> HIDE DEF q
  <2>4. g \in [1..(n + 1) -> 1..(k + 1)]
    BY <2>1, <2>2, <2>3
  <2>5. 1..Len(q) = 1..(n + 1)
    BY <2>3
  <2> HIDE DEF g, n
  <2> QED
    BY <2>4, <2>5
<1> HIDE DEF q, g, n
<1>6. ASSUME NEW i \in 1..Len(q) PROVE q[i] = s[g[i]] /\ q[i] \in T
  BY <1>1, <1>2, <1>3 DEF Picks
<1>7. ASSUME NEW i \in 1..Len(q), NEW j \in 1..Len(q), i < j PROVE g[i] < g[j]
  <2>1. i \in 1..n /\ Len(q) = n + 1
    BY <1>2, <1>5, <1>7 DEF n
  <2>2. CASE j = n + 1
    BY <1>3, <1>5, <2>1, <2>2 DEF n
  <2>3. CASE j # n + 1
    <3>1. j \in 1..n
      BY <2>1, <2>3, <1>5
    <3>2. h[i] < h[j]
      BY <1>7, <2>1, <3>1 DEF n, Picks
    <3>3. g[i] = h[i] /\ g[j] = h[j]
      BY <1>3, <2>1, <3>1 DEF n
    <3> QED
      BY <3>2, <3>3
  <2> QED
    BY <2>2, <2>3
<1>8. ASSUME NEW m \in 1..(k + 1), s[m] \in T PROVE \E i \in 1..Len(q) : g[i] = m
  <2>1. CASE m = k + 1
    BY <1>1, <1>2, <1>3, <2>1
  <2>2. CASE m # k + 1
    <3>1. PICK i \in 1..Len(r) : h[i] = m
      BY <1>8, <2>2 DEF Picks
    <3> QED
      BY <1>1, <1>2, <1>3, <3>1
  <2> QED
    BY <2>1, <2>2
<1>9. Picks(q, s, k + 1, T, g)
  BY <1>4, <1>6, <1>7, <1>8 DEF Picks
<1> QED
  BY <1>9 DEF q

\* Select picks the elements of a set, in their order.
LEMMA SelectPicks ==
    ASSUME NEW S, NEW s \in Seq(S), NEW T
    PROVE  Select(s, T) \in Seq(S) /\ \E h : Picks(Select(s, T), s, Len(s), T, h)
<1> DEFINE X == Seq(S)
           n == Len(s)
           e(k, q) == IF s[k] \in T THEN Append(q, s[k]) ELSE q
           F == [kq \in (1..n) \X X |-> e(kq[1], kq[2])]
           first[k \in 0..n] == IF k = 0 THEN << >> ELSE e(k, first[k - 1])
<1>1. n \in Nat /\ << >> \in X /\ \A k \in 1..n : s[k] \in S
  OBVIOUS
<1>2. \A k \in 1..n, q \in X : e(k, q) \in X
  BY <1>1
<1>0. F \in Steps(n, X)
  <2> HIDE DEF X, e, n
  <2> QED
    BY <1>2 DEF Steps
<1>3. PICK g : Iterates(n, X, F, << >>, g)
  <2> HIDE DEF X, F, n
  <2> QED
    BY <1>1, <1>0, Iteration
<1>4. g = [k \in 0..n |-> IF k = 0 THEN << >> ELSE e(k, g[k - 1])]
  <2>1. g \in [0..n -> X] /\ g[0] = << >>
    BY <1>3 DEF Iterates
  <2>2. ASSUME NEW k \in 1..n PROVE g[k] = e(k, g[k - 1])
    <3> HIDE DEF X, e, n
    <3>1. k - 1 \in 0..n
      BY <1>1
    <3>2. g[k] = F[<<k, g[k - 1]>>]
      <4> HIDE DEF F
      <4> QED
        BY <1>3 DEF Iterates
    <3> QED
      BY <2>1, <3>1, <3>2
  <2> HIDE DEF X, e, n
  <2> QED
    BY <1>1, <2>1, <2>2
<1>5. first = [k \in 0..n |-> IF k = 0 THEN << >> ELSE e(k, first[k - 1])]
  <2> HIDE DEF n, e
  <2> QED
    BY <1>4
<1>6. Select(s, T) = first[n]
  BY DEF Select
<1> HIDE DEF first
<1> DEFINE K == {k \in Nat : k <= n => first[k] \in Seq(S) /\ \E h : Picks(first[k], s, k, T, h)}
<1>7. 0 \in K
  <2>1. first[0] = << >>
    <3>1. 0 \in 0..n
      BY <1>1
    <3> HIDE DEF n
    <3> QED
      BY <3>1, <1>5
  <2>2. \E h : Picks(<< >>, s, 0, T, h)
    <3>1. Picks(<< >>, s, 0, T, [i \in 1..0 |-> i])
      BY DEF Picks
    <3> QED
      BY <3>1
  <2>3. << >> \in Seq(S)
    BY <1>1
  <2>4. first[0] \in Seq(S) /\ \E h : Picks(first[0], s, 0, T, h)
    BY <2>1, <2>2, <2>3
  <2> QED
    BY <2>4
<1>8. ASSUME NEW k \in Nat, k \in K PROVE k + 1 \in K
  <2> SUFFICES ASSUME k + 1 <= n
               PROVE  first[k + 1] \in Seq(S) /\ \E h : Picks(first[k + 1], s, k + 1, T, h)
    OBVIOUS
  <2>1. PICK h : Picks(first[k], s, k, T, h)
    BY <1>1, <1>8
  <2>2. ASSUME NEW m \in 1..n, m - 1 = k PROVE first[m] = e(m, first[k])
    <3>1. m \in 0..n /\ m # 0
      BY <1>1
    <3> HIDE DEF n, e
    <3> QED
      BY <1>5, <2>2, <3>1
  <2>3. first[k + 1] = e(k + 1, first[k])
    <3>1. k + 1 \in 1..n /\ k + 1 - 1 = k
      BY <1>1
    <3> HIDE DEF n, e
    <3> QED
      BY <2>2, <3>1
  <2>4. first[k] \in Seq(S) /\ s[k + 1] \in S
    BY <1>1, <1>8
  <2>5. CASE s[k + 1] \in T
    <3>1. \E x : Picks(Append(first[k], s[k + 1]), s, k + 1, T, x)
      BY <2>1, <2>4, <2>5, PickedNext
    <3> QED
      BY <2>3, <2>4, <2>5, <3>1
  <2>6. CASE s[k + 1] \notin T
    <3>1. Picks(first[k], s, k + 1, T, h)
      BY <2>1, <2>6 DEF Picks
    <3> QED
      BY <2>3, <2>4, <2>6, <3>1
  <2> QED
    BY <2>5, <2>6
<1>9. \A k \in Nat : k \in K
  <2> HIDE DEF K
  <2> QED
    BY <1>7, <1>8, NumberInduction
<1> QED
  BY <1>1, <1>6, <1>9

-----------------------------------------------------------------------------
(* Programs                                                                *)

\* What is assumed of programs.
LEMMA ProgramFacts ==
    ASSUME program \in Programs
    PROVE  /\ Len(program.classes) \in Nat /\ Len(program.defs) \in Nat
           /\ \A c \in Class : /\ ParentOf(c) \in Class \cup {0}
                               /\ program.classes[c].method \in Def \cup {0}
                               /\ program.classes[c].outer \in 0..(c - 1)
                               /\ program.classes[c].method # 0 =>
                                      OwnerOf(program.classes[c].method) < c
           /\ \A d \in Def : /\ program.defs[d].id = d /\ OwnerOf(d) \in Class
                             /\ program.defs[d].args \in Seq(Types)
                             /\ program.defs[d].ret \in Types
                             /\ program.defs[d].redef \in BOOLEAN
                             /\ program.defs[d].abstract \in BOOLEAN
  BY ProgramsAssumption DEF Class, Def, ParentOf, OwnerOf

\* No class extends itself.
LEMMA Acyclic ==
    ASSUME program \in Programs
    PROVE  \E rank \in [Class -> 0..Len(program.classes)] :
              \A c \in Class : ParentOf(c) \in Class => rank[ParentOf(c)] < rank[c]
  BY ProgramsAssumption DEF Class, ParentOf

\* A class and the lineage of its parent.
LEMMA LineageIs ==
    ASSUME program \in Programs, NEW c \in Class
    PROVE  /\ Lineage(c) \in SUBSET Class
           /\ Lineage(c) = {c} \cup (IF ParentOf(c) = 0 THEN {} ELSE Lineage(ParentOf(c)))
<1> DEFINE n == Len(program.classes)
           X == SUBSET Class
           up == [b \in Class |-> ParentOf(b)]
           B == [b \in Class |-> {b}]
           F == [bq \in Class \X X |-> {bq[1]} \cup bq[2]]
           from[b \in Class] == {b} \cup (IF ParentOf(b) = 0 THEN {} ELSE from[ParentOf(b)])
<1>1. n \in Nat /\ \A b \in Class : ParentOf(b) \in Class \cup {0}
  BY ProgramFacts
<1>2. PICK rank \in [Class -> 0..n] : \A b \in Class : ParentOf(b) \in Class => rank[ParentOf(b)] < rank[b]
  BY Acyclic
<1>3. 0 \notin Class
  BY DEF Class
<1>4. B \in [Class -> X] /\ F \in [Class \X X -> X]
  <2>1. \A b \in Class, q \in X : {b} \cup q \in X
    OBVIOUS
  <2> HIDE DEF X
  <2>2. F \in [Class \X X -> X]
    BY <2>1
  <2> USE DEF X
  <2> QED
    BY <2>2
<1>5. \A b \in Class : up[b] \in Class => rank[up[b]] < rank[b]
  BY <1>2
<1>6. PICK g \in [Class -> X] : Recurs(Class, up, B, F, g, Class)
  <2> HIDE DEF X, B, F, up, n
  <2> QED
    BY <1>1, <1>4, <1>5, AlongParents
<1>7. \A b \in Class : g[b] = {b} \cup (IF ParentOf(b) = 0 THEN {} ELSE g[ParentOf(b)])
  <2> SUFFICES ASSUME NEW b \in Class
               PROVE  g[b] = {b} \cup (IF ParentOf(b) = 0 THEN {} ELSE g[ParentOf(b)])
    OBVIOUS
  <2>1. g[b] = IF up[b] \in Class THEN F[<<b, g[up[b]]>>] ELSE B[b]
    BY <1>6 DEF Recurs
  <2>2. up[b] = ParentOf(b) /\ B[b] = {b}
    OBVIOUS
  <2>3. ASSUME ParentOf(b) \in Class PROVE F[<<b, g[ParentOf(b)]>>] = {b} \cup g[ParentOf(b)]
    <3>1. <<b, g[ParentOf(b)]>> \in Class \X X
      BY <2>3
    <3> HIDE DEF X
    <3> QED
      BY <3>1
  <2> HIDE DEF X, B, F, up
  <2> QED
    BY <1>1, <1>3, <2>1, <2>2, <2>3
<1>8. g = [b \in Class |-> {b} \cup (IF ParentOf(b) = 0 THEN {} ELSE g[ParentOf(b)])]
  <2> HIDE DEF X
  <2> QED
    BY <1>7
<1>9. from = [b \in Class |-> {b} \cup (IF ParentOf(b) = 0 THEN {} ELSE from[ParentOf(b)])]
  BY <1>8
<1>10. \A b : Lineage(b) = from[b]
  BY DEF Lineage
<1> HIDE DEF from
<1>11. \A b \in Class : Lineage(b) = {b} \cup (IF ParentOf(b) = 0 THEN {} ELSE Lineage(ParentOf(b)))
  BY <1>9, <1>10
<1> DEFINE T == {b \in Class : Lineage(b) \in X}
<1>12. ASSUME NEW b \in Class, up[b] \in Class => up[b] \in T PROVE b \in T
  BY <1>1, <1>11, <1>12
<1>13. \A b \in Class : b \in T
  <2> HIDE DEF T, up, n
  <2> QED
    BY <1>1, <1>2, <1>5, <1>12, ParentInduction
<1> QED
  BY <1>11, <1>13

\* A class extends itself and what the classes it extends extend; no class
\* extends a class that extends it.
LEMMA LineageClosed ==
    ASSUME program \in Programs, NEW c \in Class
    PROVE  /\ c \in Lineage(c)
           /\ \A b \in Lineage(c) : Lineage(b) \subseteq Lineage(c)
           /\ ParentOf(c) # 0 => /\ ParentOf(c) \in Class /\ c \notin Lineage(ParentOf(c))
                                 /\ Lineage(ParentOf(c)) \subseteq Lineage(c)
<1> DEFINE n == Len(program.classes)
           up == [b \in Class |-> ParentOf(b)]
<1>1. n \in Nat /\ \A b \in Class : ParentOf(b) \in Class \cup {0}
  BY ProgramFacts
<1>2. PICK rank \in [Class -> 0..n] : \A b \in Class : ParentOf(b) \in Class => rank[ParentOf(b)] < rank[b]
  BY Acyclic
<1>3. \A b \in Class : up[b] \in Class => rank[up[b]] < rank[b]
  BY <1>2
<1>4. \A b \in Class : /\ Lineage(b) \in SUBSET Class
                       /\ Lineage(b) = {b} \cup (IF ParentOf(b) = 0 THEN {} ELSE Lineage(ParentOf(b)))
  BY LineageIs
<1> DEFINE T == {b \in Class : \A a \in Lineage(b) : Lineage(a) \subseteq Lineage(b) /\ rank[a] <= rank[b]}
<1>5. ASSUME NEW b \in Class, up[b] \in Class => up[b] \in T PROVE b \in T
  <2>1. CASE ParentOf(b) = 0
    BY <1>4, <2>1
  <2>2. CASE ParentOf(b) # 0
    <3>1. ParentOf(b) \in Class /\ ParentOf(b) \in T
      BY <1>1, <1>5, <2>2
    <3>2. \A a \in Lineage(ParentOf(b)) : a \in Class /\ Lineage(a) \subseteq Lineage(ParentOf(b)) /\ rank[a] <= rank[ParentOf(b)]
      BY <1>4, <3>1
    <3>3. Lineage(b) = {b} \cup Lineage(ParentOf(b))
      BY <1>4, <2>2
    <3>4. rank[ParentOf(b)] < rank[b]
      BY <1>2, <3>1
    <3>5. \A a \in Class : rank[a] \in Int
      BY <1>2
    <3>6. \A a \in Lineage(ParentOf(b)) : rank[a] <= rank[b]
      BY <3>1, <3>2, <3>4, <3>5
    <3> QED
      BY <3>1, <3>2, <3>3, <3>5, <3>6
  <2> QED
    BY <2>1, <2>2
<1>6. \A b \in Class : b \in T
  <2> HIDE DEF T, up, n
  <2> QED
    BY <1>1, <1>2, <1>3, <1>5, ParentInduction
<1>7. ASSUME ParentOf(c) # 0 PROVE ParentOf(c) \in Class /\ c \notin Lineage(ParentOf(c))
  <2>1. ParentOf(c) \in Class
    BY <1>1, <1>7
  <2>2. rank[ParentOf(c)] < rank[c] /\ rank[c] \in Int /\ rank[ParentOf(c)] \in Int
    BY <1>2, <2>1
  <2>3. c \in Lineage(ParentOf(c)) => rank[c] <= rank[ParentOf(c)]
    BY <1>6, <2>1
  <2> QED
    BY <2>1, <2>2, <2>3
<1> QED
  BY <1>4, <1>6, <1>7

-----------------------------------------------------------------------------
(* The definitions of a class, and its scope                               *)

\* Select keeps the elements of a set, all of them, once each if they were.
LEMMA Selected ==
    ASSUME NEW S, NEW s \in Seq(S), NEW T
    PROVE  /\ Select(s, T) \in Seq(S) /\ Len(Select(s, T)) \in Nat
           /\ \A i \in 1..Len(Select(s, T)) :
                 Select(s, T)[i] \in T /\ \E k \in 1..Len(s) : Select(s, T)[i] = s[k]
           /\ \A k \in 1..Len(s) : s[k] \in T =>
                 \E i \in 1..Len(Select(s, T)) : Select(s, T)[i] = s[k]
           /\ (\A k, m \in 1..Len(s) : s[k] = s[m] => k = m) =>
                 \A i, j \in 1..Len(Select(s, T)) : Select(s, T)[i] = Select(s, T)[j] => i = j
<1> DEFINE r == Select(s, T)
           n == Len(s)
<1>1. r \in Seq(S) /\ Len(r) \in Nat
  BY SelectPicks
<1>2. PICK h : Picks(r, s, n, T, h)
  BY SelectPicks
<1> HIDE DEF r, n
<1>3. h \in [1..Len(r) -> 1..n]
  BY <1>2 DEF Picks
<1>4. \A i \in 1..Len(r) : r[i] \in T /\ \E k \in 1..n : r[i] = s[k]
  BY <1>2, <1>3 DEF Picks
<1>5. \A k \in 1..n : s[k] \in T => \E i \in 1..Len(r) : r[i] = s[k]
  BY <1>2 DEF Picks
<1>6. ASSUME \A k, m \in 1..n : s[k] = s[m] => k = m,
             NEW i \in 1..Len(r), NEW j \in 1..Len(r), r[i] = r[j]
      PROVE  i = j
  <2>1. h[i] = h[j]
    BY <1>2, <1>3, <1>6 DEF Picks
  <2>2. h[i] \in Int /\ h[j] \in Int /\ i \in Int /\ j \in Int
    BY <1>1, <1>3 DEF n
  <2>3. (i < j => h[i] < h[j]) /\ (j < i => h[j] < h[i])
    BY <1>2 DEF Picks
  <2> QED
    BY <2>1, <2>2, <2>3
<1> QED
  BY <1>1, <1>4, <1>5, <1>6 DEF r, n

Distinct(s) == \A i, j \in 1..Len(s) : s[i] = s[j] => i = j

\* r has those of the elements of s that are in T.
SelectedFrom(r, s, T) ==
    /\ Len(r) \in Nat
    /\ \A i \in 1..Len(r) : r[i] \in T /\ \E k \in 1..Len(s) : r[i] = s[k]
    /\ \A k \in 1..Len(s) : s[k] \in T => \E i \in 1..Len(r) : r[i] = s[k]
    /\ Distinct(s) => Distinct(r)

\* Select returns a selection.
LEMMA SelectedIs ==
    ASSUME NEW X, NEW s \in Seq(X), NEW T
    PROVE  Select(s, T) \in Seq(X) /\ SelectedFrom(Select(s, T), s, T)
  BY Selected DEF SelectedFrom, Distinct

\* The definitions of a class, in the order of their declarations.
LEMMA DefsOfIs ==
    ASSUME program \in Programs, NEW c
    PROVE  /\ DefsOf(c) \in Seq(Def) /\ Len(DefsOf(c)) \in Nat
           /\ \A i \in 1..Len(DefsOf(c)) : DefsOf(c)[i] \in Def /\ OwnerOf(DefsOf(c)[i]) = c
           /\ \A d \in Def : OwnerOf(d) = c => \E i \in 1..Len(DefsOf(c)) : DefsOf(c)[i] = d
           /\ \A i, j \in 1..Len(DefsOf(c)) : i < j => DefsOf(c)[i] < DefsOf(c)[j]
<1> DEFINE n == Len(program.defs)
           s == [d \in Def |-> d]
           T == {d \in Def : program.defs[d].owner = c}
<1>1. n \in Nat /\ Def = 1..n
  BY ProgramFacts DEF Def
<1>2. s \in Seq(Def) /\ Len(s) = n /\ \A k \in 1..n : s[k] = k
  BY <1>1
<1>3. DefsOf(c) = Select(s, T)
  BY DEF DefsOf
<1> HIDE DEF n, s
<1>4. Select(s, T) \in Seq(Def)
  BY <1>2, SelectPicks
<1>5. PICK h : Picks(Select(s, T), s, Len(s), T, h)
  BY <1>2, SelectPicks
<1> HIDE DEF T
<1>6. DefsOf(c) \in Seq(Def) /\ Picks(DefsOf(c), s, n, T, h)
  BY <1>2, <1>3, <1>4, <1>5
<1> DEFINE r == DefsOf(c)
<1> HIDE DEF r
<1>7. r \in Seq(Def) /\ Picks(r, s, n, T, h) /\ Len(r) \in Nat
  BY <1>6 DEF r
<1>8. \A i \in 1..Len(r) : h[i] \in 1..n /\ r[i] = h[i] /\ r[i] \in T
  BY <1>2, <1>7 DEF Picks
<1>9. \A i, j \in 1..Len(r) : i < j => r[i] < r[j]
  BY <1>7, <1>8 DEF Picks
<1>10. \A d \in Def : OwnerOf(d) = c => \E i \in 1..Len(r) : r[i] = d
  <2> SUFFICES ASSUME NEW d \in Def, OwnerOf(d) = c PROVE \E i \in 1..Len(r) : r[i] = d
    OBVIOUS
  <2>1. d \in 1..n /\ s[d] = d /\ d \in T
    BY <1>1, <1>2 DEF T, OwnerOf
  <2>2. PICK i \in 1..Len(r) : h[i] = d
    BY <1>7, <2>1 DEF Picks
  <2> QED
    BY <1>8, <2>2
<1>11. \A i \in 1..Len(r) : r[i] \in Def /\ OwnerOf(r[i]) = c
  BY <1>8 DEF T, OwnerOf
<1> QED
  BY <1>7, <1>9, <1>10, <1>11 DEF r

\* q has the elements of D, once each.
Lists(q, D) ==
    /\ q \in Seq(D)
    /\ \A d \in D : \E i \in 1..Len(q) : q[i] = d
    /\ \A i, j \in 1..Len(q) : q[i] = q[j] => i = j

\* A list in reverse is a list of the same.
LEMMA ReverseLists ==
    ASSUME NEW D, NEW q, Lists(q, D)
    PROVE  Lists(Reverse(q), D)
<1> DEFINE n == Len(q)
           r == Reverse(q)
<1>1. q \in Seq(D) /\ n \in Nat /\ \A i \in 1..n : q[i] \in D
  BY DEF Lists
<1>2. r \in Seq(D) /\ Len(r) = n /\ \A i \in 1..n : r[i] = q[n - i + 1] /\ n - i + 1 \in 1..n
  BY <1>1 DEF Reverse
<1> HIDE DEF n, r
<1>3. ASSUME NEW d \in D PROVE \E i \in 1..Len(r) : r[i] = d
  <2>1. PICK i \in 1..n : q[i] = d
    BY DEF Lists, n
  <2>2. PICK j : j = n - i + 1
    OBVIOUS
  <2>3. j \in 1..n /\ n - j + 1 = i
    BY <1>1, <2>2
  <2>4. j \in 1..Len(r)
    BY <1>2, <2>3
  <2>5. r[j] = q[i]
    BY <1>2, <2>3
  <2> QED
    BY <2>1, <2>4, <2>5
<1>4. ASSUME NEW i \in 1..n, NEW j \in 1..n, r[i] = r[j] PROVE i = j
  <2>1. PICK k, m : k = n - i + 1 /\ m = n - j + 1
    OBVIOUS
  <2>2. k \in 1..n /\ m \in 1..n /\ q[k] = q[m]
    BY <1>2, <1>4, <2>1
  <2>3. k = m
    BY <2>2 DEF Lists, n
  <2> QED
    BY <1>1, <2>1, <2>3
<1> QED
  BY <1>2, <1>3, <1>4 DEF Lists, r

\* Two lists one behind the other.
LEMMA ConcatLists ==
    ASSUME NEW D, NEW q, Lists(q, D), NEW E, NEW r, Lists(r, E), D \cap E = {}
    PROVE  Lists(q \o r, D \cup E)
<1> DEFINE n == Len(q)
           m == Len(r)
           c == q \o r
<1>1. n \in Nat /\ m \in Nat /\ (\A i \in 1..n : q[i] \in D) /\ \A i \in 1..m : r[i] \in E
  BY DEF Lists
<1>2. c \in Seq(D \cup E)
  BY DEF Lists
<1>3. Len(c) = n + m
  BY DEF Lists
<1>4. \A i \in 1..n : c[i] = q[i]
  BY DEF Lists
<1>5. \A i \in 1..(n + m) : i > n => c[i] = r[i - n]
  BY DEF Lists
<1> HIDE DEF n, m, c
<1>6. ASSUME NEW d \in D \cup E PROVE \E i \in 1..Len(c) : c[i] = d
  <2>1. CASE d \in D
    <3>1. PICK i \in 1..n : q[i] = d
      BY <2>1 DEF Lists, n
    <3> QED
      BY <1>1, <1>3, <1>4, <3>1
  <2>2. CASE d \in E
    <3>1. PICK i \in 1..m : r[i] = d
      BY <2>2 DEF Lists, m
    <3>2. ASSUME NEW k \in 1..(n + m), k - n = i PROVE c[k] = r[i]
      BY <1>1, <1>5, <3>2
    <3>3. \E k \in 1..(n + m) : k - n = i
      <4>1. n \in Int /\ m \in Int /\ i \in Int /\ 1 <= i /\ i <= m /\ 0 <= n
        BY <1>1
      <4>2. i + n \in 1..(n + m)
        BY <4>1
      <4> QED
        BY <4>1, <4>2
    <3> QED
      BY <1>3, <3>1, <3>2, <3>3
  <2> QED
    BY <2>1, <2>2
<1>7. \A i \in 1..(n + m) : i > n => i - n \in 1..m
  BY <1>1
<1>8. \A i \in 1..(n + m) : i <= n => i \in 1..n
  BY <1>1
<1>9. ASSUME NEW i \in 1..(n + m), NEW j \in 1..(n + m), c[i] = c[j] PROVE i = j
  <2>1. CASE i <= n /\ j <= n
    BY <1>4, <1>8, <1>9, <2>1 DEF Lists, n
  <2>2. CASE i > n /\ j > n
    <3>1. i - n = j - n
      <4>1. r[i - n] = r[j - n]
        BY <1>5, <1>9, <2>2
      <4> QED
        BY <1>7, <2>2, <4>1 DEF Lists, m
    <3> QED
      BY <1>1, <3>1
  <2>3. CASE i <= n /\ j > n
    BY <1>1, <1>4, <1>5, <1>7, <1>8, <1>9, <2>3
  <2>4. CASE i > n /\ j <= n
    BY <1>1, <1>4, <1>5, <1>7, <1>8, <1>9, <2>4
  <2> QED
    BY <1>1, <2>1, <2>2, <2>3, <2>4
<1> QED
  BY <1>2, <1>3, <1>6, <1>9 DEF Lists, c

\* The definitions of a name that a class has or inherits.
Named(c, n) == {d \in DefsIn(Lineage(c)) : program.defs[d].name = n}

\* The scope of a class lists what the class has or inherits.
LEMMA ScopeIs ==
    ASSUME program \in Programs, NEW c \in Class, NEW n
    PROVE  /\ Lists(ScopeWithout(c, n), Named(c, n))
           /\ Len(ScopeOf(c, n)) \in Nat /\ DOMAIN ScopeOf(c, n) = 1..Len(ScopeOf(c, n))
           /\ Len(ScopeOf(c, n)) = Len(ScopeWithout(c, n))
           /\ \A k \in 1..Len(ScopeOf(c, n)) : /\ ScopeWithout(c, n)[k] \in Named(c, n)
                                               /\ ScopeOf(c, n)[k] = program.defs[ScopeWithout(c, n)[k]]
<1> DEFINE m == Len(program.classes)
           X == Seq(Def)
           up == [b \in Class |-> ParentOf(b)]
           N == {d \in Def : program.defs[d].name = n}
           own(b) == Select(DefsOf(b), N)
           e(b, q) == Reverse(q) \o Reverse(own(b))
           e0(b) == << >> \o Reverse(own(b))
           B == [b \in Class |-> e0(b)]
           F == [bq \in Class \X X |-> e(bq[1], bq[2])]
           from[b \in Class] == (IF ParentOf(b) = 0 THEN << >> ELSE Reverse(from[ParentOf(b)])) \o Reverse(own(b))
<1>1. m \in Nat /\ \A b \in Class : ParentOf(b) \in Class \cup {0}
  BY ProgramFacts
<1>2. PICK rank \in [Class -> 0..m] : \A b \in Class : ParentOf(b) \in Class => rank[ParentOf(b)] < rank[b]
  BY Acyclic
<1>3. 0 \notin Class
  BY DEF Class
<1>4. \A b \in Class : Lists(own(b), {d \in N : OwnerOf(d) = b})
  <2> SUFFICES ASSUME NEW b \in Class PROVE Lists(own(b), {d \in N : OwnerOf(d) = b})
    OBVIOUS
  <2> DEFINE s == DefsOf(b)
             r == Select(s, N)
  <2>1. /\ s \in Seq(Def) /\ Len(s) \in Nat
        /\ \A i \in 1..Len(s) : s[i] \in Def /\ OwnerOf(s[i]) = b
        /\ \A d \in Def : OwnerOf(d) = b => \E i \in 1..Len(s) : s[i] = d
        /\ \A i, j \in 1..Len(s) : i < j => s[i] < s[j]
    BY DefsOfIs
  <2> HIDE DEF s, r
  <2>2. \A i, j \in 1..Len(s) : s[i] = s[j] => i = j
    <3> SUFFICES ASSUME NEW i \in 1..Len(s), NEW j \in 1..Len(s), s[i] = s[j], i # j PROVE FALSE
      OBVIOUS
    <3>1. s[i] \in Int /\ i \in Int /\ j \in Int
      BY <2>1 DEF Def
    <3>2. i < j \/ j < i
      BY <3>1
    <3>3. s[i] < s[j] \/ s[j] < s[i]
      BY <2>1, <3>2
    <3> QED
      BY <3>1, <3>3
  <2>3. /\ r \in Seq(Def) /\ Len(r) \in Nat
        /\ \A i \in 1..Len(r) : r[i] \in N /\ \E k \in 1..Len(s) : r[i] = s[k]
        /\ \A k \in 1..Len(s) : s[k] \in N => \E i \in 1..Len(r) : r[i] = s[k]
        /\ \A i, j \in 1..Len(r) : r[i] = r[j] => i = j
    <3> HIDE DEF N
    <3>1. SelectedFrom(r, s, N) /\ r \in Seq(Def)
      BY <2>1, SelectedIs, Zenon DEF r
    <3> QED
      BY <2>2, <3>1 DEF SelectedFrom, Distinct
  <2> HIDE DEF N
  <2>4. \A i \in 1..Len(r) : r[i] \in {d \in N : OwnerOf(d) = b}
    BY <2>1, <2>3
  <2>5. r \in Seq({d \in N : OwnerOf(d) = b})
    <3>1. PICK E : E = {d \in N : OwnerOf(d) = b}
      OBVIOUS
    <3>2. \A i \in 1..Len(r) : r[i] \in E
      BY <2>4, <3>1
    <3>3. r \in Seq(E)
      BY <2>3, <3>2
    <3> QED
      BY <3>1, <3>3
  <2>6. ASSUME NEW d \in N, OwnerOf(d) = b PROVE \E i \in 1..Len(r) : r[i] = d
    <3>1. d \in Def
      BY DEF N
    <3>2. PICK k \in 1..Len(s) : s[k] = d
      BY <2>1, <2>6, <3>1
    <3> QED
      BY <2>3, <3>2
  <2>7. Lists(r, {d \in N : OwnerOf(d) = b})
    BY <2>3, <2>5, <2>6 DEF Lists
  <2> QED
    BY <2>7 DEF r, s
<1>5. \A b \in Class : Lists(Reverse(own(b)), {d \in N : OwnerOf(d) = b}) /\ Reverse(own(b)) \in X
  <2> HIDE DEF N
  <2>1. \A b \in Class : Lists(Reverse(own(b)), {d \in N : OwnerOf(d) = b})
    <3> HIDE DEF own
    <3> QED
      BY <1>4, ReverseLists
  <2>2. \A b \in Class : Reverse(own(b)) \in Seq({d \in N : OwnerOf(d) = b})
    <3> HIDE DEF own
    <3> QED
      BY <2>1 DEF Lists
  <2>3. \A d \in N : d \in Def
    BY DEF N
  <2>4. \A b \in Class : Seq({d \in N : OwnerOf(d) = b}) \subseteq X
    BY <2>3
  <2> HIDE DEF own, X
  <2> QED
    BY <2>1, <2>2, <2>4
<1>6. \A q \in X : Reverse(q) \in X
  BY DEF Reverse
<1> HIDE DEF own
<1>7. B \in [Class -> X] /\ F \in [Class \X X -> X]
  <2>1. \A q, r \in X : q \o r \in X
    OBVIOUS
  <2>2. << >> \in X
    OBVIOUS
  <2> HIDE DEF X
  <2>3. \A b \in Class, q \in X : e(b, q) \in X
    BY <1>5, <1>6, <2>1
  <2>4. \A b \in Class : e0(b) \in X
    BY <1>5, <2>1, <2>2
  <2> HIDE DEF e, e0
  <2>5. B \in [Class -> X]
    BY <2>4
  <2>6. F \in [Class \X X -> X]
    BY <2>3
  <2> QED
    BY <2>5, <2>6
<1>8. \A b \in Class : up[b] \in Class => rank[up[b]] < rank[b]
  BY <1>2
<1>9. PICK g \in [Class -> X] : Recurs(Class, up, B, F, g, Class)
  <2> HIDE DEF X, B, F, up, m
  <2> QED
    BY <1>1, <1>7, <1>8, AlongParents
<1>10. \A b \in Class : g[b] = IF ParentOf(b) = 0 THEN e0(b) ELSE e(b, g[ParentOf(b)])
  <2> SUFFICES ASSUME NEW b \in Class
               PROVE  g[b] = IF ParentOf(b) = 0 THEN e0(b) ELSE e(b, g[ParentOf(b)])
    OBVIOUS
  <2>1. g[b] = IF up[b] \in Class THEN F[<<b, g[up[b]]>>] ELSE B[b]
    BY <1>9 DEF Recurs
  <2>2. up[b] = ParentOf(b) /\ B[b] = e0(b)
    <3> HIDE DEF e0
    <3> QED
      OBVIOUS
  <2>3. ASSUME ParentOf(b) \in Class PROVE F[<<b, g[ParentOf(b)]>>] = e(b, g[ParentOf(b)])
    <3>1. <<b, g[ParentOf(b)]>> \in Class \X X
      BY <2>3
    <3> HIDE DEF X, e
    <3> QED
      BY <3>1
  <2> HIDE DEF X, B, F, up, e, e0
  <2> QED
    BY <1>1, <1>3, <2>1, <2>2, <2>3
<1>11. g = [b \in Class |-> (IF ParentOf(b) = 0 THEN << >> ELSE Reverse(g[ParentOf(b)])) \o Reverse(own(b))]
  <2> HIDE DEF X
  <2> QED
    BY <1>10
<1> USE DEF own
<1>12. from = [b \in Class |-> (IF ParentOf(b) = 0 THEN << >> ELSE Reverse(from[ParentOf(b)])) \o Reverse(own(b))]
  BY <1>11
<1>13. \A b : ScopeWithout(b, n) = from[b]
  BY DEF ScopeWithout
<1> HIDE DEF from, own
<1> DEFINE w(b) == ScopeWithout(b, n)
<1>14. \A b \in Class : w(b) = (IF ParentOf(b) = 0 THEN << >> ELSE Reverse(w(ParentOf(b)))) \o Reverse(own(b))
  BY <1>12, <1>13
<1> HIDE DEF w
<1> DEFINE T == {b \in Class : Lists(w(b), Named(b, n))}
<1>15. ASSUME NEW b \in Class, up[b] \in Class => up[b] \in T PROVE b \in T
  <2> DEFINE O == {d \in N : OwnerOf(d) = b}
  <2>1. Lists(Reverse(own(b)), O)
    <3> HIDE DEF N
    <3> QED
      BY <1>5
  <2>2. Lineage(b) = {b} \cup (IF ParentOf(b) = 0 THEN {} ELSE Lineage(ParentOf(b)))
    BY LineageIs
  <2>3. CASE ParentOf(b) = 0
    <3>1. w(b) = << >> \o Reverse(own(b))
      BY <1>14, <2>3
    <3>2. Reverse(own(b)) \in Seq(O)
      <4> HIDE DEF O
      <4> QED
        BY <2>1 DEF Lists
    <3>3. << >> \o Reverse(own(b)) = Reverse(own(b))
      <4> HIDE DEF O
      <4> QED
        BY <3>2
    <3>4. Named(b, n) = O
      BY <2>2, <2>3 DEF Named, DefsIn
    <3> HIDE DEF O
    <3> QED
      BY <2>1, <3>1, <3>3, <3>4
  <2>4. CASE ParentOf(b) # 0
    <3>1. ParentOf(b) \in Class /\ b \notin Lineage(ParentOf(b))
      BY <2>4, LineageClosed
    <3>2. Lists(w(ParentOf(b)), Named(ParentOf(b), n))
      BY <1>15, <3>1
    <3>3. w(b) = Reverse(w(ParentOf(b))) \o Reverse(own(b))
      BY <1>14, <2>4
    <3>4. Named(b, n) = Named(ParentOf(b), n) \cup O
      BY <2>2, <2>4 DEF Named, DefsIn
    <3>5. Named(ParentOf(b), n) \cap O = {}
      BY <3>1 DEF Named, DefsIn
    <3> HIDE DEF O
    <3>6. Lists(Reverse(w(ParentOf(b))), Named(ParentOf(b), n))
      BY <3>2, ReverseLists
    <3> DEFINE u == Reverse(w(ParentOf(b)))
               v == Reverse(own(b))
               P == Named(ParentOf(b), n)
    <3>7. Lists(u, P) /\ Lists(v, O) /\ P \cap O = {}
      BY <2>1, <3>5, <3>6
    <3> HIDE DEF u, v, P
    <3>8. Lists(u \o v, P \cup O)
      BY <3>7, ConcatLists
    <3>9. Lists(w(b), Named(b, n))
      BY <3>3, <3>4, <3>8 DEF u, v, P
    <3> QED
      BY <3>9
  <2> QED
    BY <2>3, <2>4
<1>16. \A b \in Class : b \in T
  <2> HIDE DEF T, up, m, X
  <2> QED
    BY <1>1, <1>8, <1>15, ParentInduction
<1>17. Lists(ScopeWithout(c, n), Named(c, n))
  BY <1>16 DEF w
<1>18. /\ ScopeWithout(c, n) \in Seq(Named(c, n)) /\ Len(ScopeWithout(c, n)) \in Nat
       /\ DOMAIN ScopeWithout(c, n) = 1..Len(ScopeWithout(c, n))
       /\ \A k \in 1..Len(ScopeWithout(c, n)) : ScopeWithout(c, n)[k] \in Named(c, n)
  BY <1>17 DEF Lists
<1> DEFINE q == ScopeWithout(c, n)
<1>19. ScopeOf(c, n) = [k \in DOMAIN q |-> program.defs[q[k]]]
  BY DEF ScopeOf
<1> HIDE DEF q
<1>20. q \in Seq(Named(c, n)) /\ Len(q) \in Nat /\ DOMAIN q = 1..Len(q)
  BY <1>18 DEF q
<1>21. Len(ScopeOf(c, n)) = Len(q) /\ DOMAIN ScopeOf(c, n) = 1..Len(q)
  BY <1>19, <1>20
<1>22. \A k \in 1..Len(q) : ScopeOf(c, n)[k] = program.defs[q[k]]
  BY <1>19, <1>20
<1> QED
  BY <1>17, <1>18, <1>20, <1>21, <1>22 DEF q

-----------------------------------------------------------------------------
(* Subtyping of arguments and of methods                                   *)

\* Subtypes are a partial order.
LEMMA SubTypeOrder ==
    ASSUME NEW a \in Types, NEW b \in Types, NEW c \in Types
    PROVE  /\ isSubTypeOf(a, a)
           /\ isSubTypeOf(a, b) /\ isSubTypeOf(b, c) => isSubTypeOf(a, c)
           /\ isSubTypeOf(a, b) /\ isSubTypeOf(b, a) => a = b
  BY SubTypesAssumption DEF isSubTypeOf

\* So are lists of arguments.
LEMMA ArgumentOrder ==
    ASSUME NEW s \in Seq(Types), NEW t \in Seq(Types), NEW u \in Seq(Types)
    PROVE  /\ AllSubTypes(s, s)
           /\ AllSubTypes(s, t) /\ AllSubTypes(t, u) => AllSubTypes(s, u)
           /\ AllSubTypes(s, t) /\ AllSubTypes(t, s) => s = t
<1>1. /\ Len(s) \in Nat /\ \A i \in 1..Len(s) : s[i] \in Types
      /\ Len(t) \in Nat /\ \A i \in 1..Len(t) : t[i] \in Types
      /\ Len(u) \in Nat /\ \A i \in 1..Len(u) : u[i] \in Types
  OBVIOUS
<1>2. AllSubTypes(s, s)
  BY <1>1, SubTypeOrder DEF AllSubTypes
<1>3. ASSUME AllSubTypes(s, t), AllSubTypes(t, u) PROVE AllSubTypes(s, u)
  BY <1>1, <1>3, SubTypeOrder DEF AllSubTypes
<1>4. ASSUME AllSubTypes(s, t), AllSubTypes(t, s) PROVE s = t
  <2>1. Len(s) = Len(t) /\ \A i \in 1..Len(s) : s[i] = t[i]
    BY <1>1, <1>4, SubTypeOrder DEF AllSubTypes
  <2> QED
    BY <2>1, SeqEqual
<1> QED
  BY <1>2, <1>3, <1>4

\* A definition has arguments and a result.
LEMMA SubMethodOrder ==
    ASSUME program \in Programs, NEW d \in Def, NEW e \in Def, NEW x \in Def
    PROVE  /\ isSubMethodOf(program.defs[d], program.defs[d])
           /\ isSubMethodOf(program.defs[d], program.defs[e])
                 /\ isSubMethodOf(program.defs[e], program.defs[x]) =>
                     isSubMethodOf(program.defs[d], program.defs[x])
<1>1. \A y \in Def : program.defs[y].args \in Seq(Types) /\ program.defs[y].ret \in Types
  BY ProgramFacts
<1> QED
  BY <1>1, ArgumentOrder, SubTypeOrder DEF isSubMethodOf

-----------------------------------------------------------------------------
(* Type checking                                                           *)

\* What findOverridenSymbol finds is no redef, and can be replaced by the redef.
LEMMA OverridenIs ==
    ASSUME program \in Programs, overriden \in [Def -> Nat],
           \A e \in Def : overriden[e] # 0 => OverrideFound(e),
           NEW d \in Redefinitions, NEW r, r = findOverridenSymbol(d)
    PROVE  /\ r \in Nat
           /\ r # 0 => /\ r \in Def /\ ~ program.defs[r].redef
                       /\ OwnerOf(r) \in Lineage(OwnerOf(d))
                       /\ program.defs[r].name = program.defs[d].name
                       /\ isSubMethodOf(program.defs[d], program.defs[r])
<1> DEFINE c == OwnerOf(d)
           n == program.defs[d].name
           scope == ScopeOf(c, n)
           w == ScopeWithout(c, n)
           found == {k \in DOMAIN scope : OverridesAs(d, scope[k]) # 0}
<1>1. d \in Def /\ c \in Class /\ \A e \in Def : program.defs[e].id = e
  BY ProgramFacts DEF Redefinitions
<1>2. /\ DOMAIN scope = 1..Len(scope)
      /\ \A k \in 1..Len(scope) : w[k] \in Named(c, n) /\ scope[k] = program.defs[w[k]]
  BY <1>1, ScopeIs
<1>3. r = IF found = {} THEN 0 ELSE OverridesAs(d, scope[Min(found)])
  BY DEF findOverridenSymbol, OwnerOf
<1> HIDE DEF scope, w
<1>4. ASSUME found # {} PROVE Min(found) \in found
  <2>1. found \in SUBSET Nat
    BY <1>2
  <2> HIDE DEF found
  <2>2. \E x \in found : \A y \in found : x <= y
    BY <1>4, <2>1, LeastElement
  <2> QED
    BY <2>2 DEF Min
<1>5. CASE found = {}
  BY <1>3, <1>5
<1>6. CASE found # {}
  <2>1. PICK k \in 1..Len(scope) : OverridesAs(d, scope[k]) # 0 /\ r = OverridesAs(d, scope[k])
    BY <1>2, <1>3, <1>4, <1>6
  <2>2. PICK e \in Named(c, n) : scope[k] = program.defs[e]
    BY <1>2
  <2>3. e \in Def /\ OwnerOf(e) \in Lineage(c) /\ program.defs[e].name = n /\ program.defs[e].id = e
    BY <1>1 DEF Named, DefsIn
  <2>4. /\ isSubMethodOf(program.defs[d], program.defs[e])
        /\ r = IF program.defs[e].redef THEN overriden[e] ELSE e
        /\ r # 0
    BY <2>1, <2>2, <2>3 DEF OverridesAs
  <2>5. CASE program.defs[e].redef
    <3>1. overriden[e] = r /\ OverrideFound(e)
      BY <2>3, <2>4, <2>5
    <3>2. /\ r \in Def /\ ~ program.defs[r].redef
          /\ OwnerOf(r) \in Lineage(OwnerOf(e)) /\ program.defs[r].name = n
          /\ isSubMethodOf(program.defs[e], program.defs[r])
      BY <2>3, <3>1 DEF OverrideFound
    <3>3. OwnerOf(r) \in Lineage(c)
      BY <1>1, <2>3, <3>2, LineageClosed
    <3>4. isSubMethodOf(program.defs[d], program.defs[r])
      BY <1>1, <2>3, <2>4, <3>2, SubMethodOrder
    <3> QED
      BY <3>2, <3>3, <3>4 DEF Def
  <2>6. CASE ~ program.defs[e].redef
    <3>1. r = e
      BY <2>4, <2>6
    <3> QED
      BY <2>3, <2>4, <2>6, <3>1 DEF Def
  <2> QED
    BY <2>5, <2>6
<1> QED
  BY <1>5, <1>6

\* What is said of programs stays true: no step changes the program.
LEMMA SameProgram ==
    ASSUME program' = program
    PROVE  /\ Class' = Class /\ Def' = Def /\ Redefinitions' = Redefinitions
           /\ \A c : Lineage(c)' = Lineage(c) /\ DefsOf(c)' = DefsOf(c)
           /\ \A c : ParentOf(c)' = ParentOf(c) /\ MembersOf(c)' = MembersOf(c)
           /\ \A d : OwnerOf(d)' = OwnerOf(d) /\ ClassesIn(d)' = ClassesIn(d)
           /\ \A c : DefsIn({c})' = DefsIn({c})
<1>1. Class' = Class /\ Def' = Def /\ Redefinitions' = Redefinitions
  BY DEF Class, Def, Redefinitions
<1>2. ASSUME NEW c PROVE Lineage(c)' = Lineage(c)
  BY DEF Lineage, Class, ParentOf
<1>3. ASSUME NEW c PROVE DefsOf(c)' = DefsOf(c)
  BY DEF DefsOf, Def
<1>4. ASSUME NEW c PROVE ParentOf(c)' = ParentOf(c) /\ MembersOf(c)' = MembersOf(c)
  BY <1>1 DEF ParentOf, MembersOf, Class
<1>5. ASSUME NEW d PROVE OwnerOf(d)' = OwnerOf(d) /\ ClassesIn(d)' = ClassesIn(d)
  BY <1>1 DEF OwnerOf, ClassesIn, Class
<1>6. ASSUME NEW c PROVE DefsIn({c})' = DefsIn({c})
  BY DEF DefsIn, Def, OwnerOf
<1> QED
  BY <1>1, <1>2, <1>3, <1>4, <1>5, <1>6

\* What is overriden stays so.
LEMMA SameOverride ==
    ASSUME program' = program, NEW d, overriden'[d] = overriden[d]
    PROVE  OverrideFound(d)' <=> OverrideFound(d)
<1>1. \A c : Lineage(c)' = Lineage(c)
  BY SameProgram
<1> QED
  BY <1>1 DEF OverrideFound, OwnerOf, isSubMethodOf, isSubTypeOf, AllSubTypes, Def

\* Nothing is overriden at first.
LEMMA OverridesInit ==
    ASSUME Init PROVE OverridesInvariant
<1>1. Len(program.classes) \in Nat
  BY ProgramFacts DEF Init
<1>2. /\ stage = "definitions" /\ classesDone = 0 /\ redefs = << >> /\ errors = FALSE /\ checked = {}
      /\ overriden = [d \in Def |-> 0]
  BY DEF Init
<1>3. redefs \in Seq(Redefinitions) /\ overriden \in [Def -> Nat] /\ \A d \in Def : overriden[d] = 0
  BY <1>2
<1>4. \A d \in Redefinitions : d \notin checked
  BY <1>2
<1>5. \A c \in 1..classesDone : FALSE
  BY <1>2
<1>6. classesDone \in 0..Len(program.classes)
  BY <1>1, <1>2
<1> QED
  BY <1>2, <1>3, <1>4, <1>5, <1>6 DEF OverridesInvariant, Stages

Later == VisitNextClass \/ VisitParent \/ VisitDef \/ EndVisit
         \/ StartGeneration \/ GenerateClass \/ EndGeneration

\* Every step keeps what is known of the redefs.
LEMMA OverridesStep ==
    ASSUME program \in Programs, OverridesInvariant, [Next]_vars
    PROVE  program' = program /\ OverridesInvariant'
<1> DEFINE Late == {"locations", "undefined", "backend", "generated"}
<1>1. Len(program.classes) \in Nat
  BY ProgramFacts
<1>2. \A d \in Def : program.defs[d].redef \in BOOLEAN /\ OwnerOf(d) \in Class
  BY ProgramFacts
<1>3. /\ stage \in Stages /\ errors \in BOOLEAN /\ classesDone \in 0..Len(program.classes)
      /\ overriden \in [Def -> Nat] /\ redefs \in Seq(Redefinitions)
      /\ \A d \in Def : overriden[d] # 0 => OverrideFound(d)
  BY DEF OverridesInvariant
<1>4. ASSUME program' = program, checking' = checking, stage' = stage, classesDone' = classesDone
      PROVE  OverridesInvariant'
  <2>1. /\ Def' = Def /\ Redefinitions' = Redefinitions /\ \A c : DefsIn({c})' = DefsIn({c})
        /\ \A d : OverrideFound(d)' <=> OverrideFound(d)
    BY <1>4, SameProgram, SameOverride DEF checking
  <2>2. checked' = checked /\ redefs' = redefs /\ overriden' = overriden /\ errors' = errors
    BY <1>4 DEF checking
  <2>3. stage = "definitions" => \A c \in 1..classesDone : DefsIn({c})' \subseteq checked
    BY <2>1 DEF OverridesInvariant
  <2> QED
    BY <1>4, <2>1, <2>2, <2>3 DEF OverridesInvariant, Stages
<1>5. ASSUME program' = program, checking' = checking, stage \in Late, stage' \in Late,
             classesDone' \in 0..Len(program.classes)
      PROVE  OverridesInvariant'
  <2>1. /\ Def' = Def /\ Redefinitions' = Redefinitions
        /\ \A d : OverrideFound(d)' <=> OverrideFound(d)
    BY <1>5, SameProgram, SameOverride DEF checking
  <2> QED
    BY <1>5, <2>1 DEF OverridesInvariant, checking, Stages
<1>6. ASSUME NEW d \in Def, CheckDef(d) PROVE program' = program /\ OverridesInvariant'
  <2>1. program' = program /\ overriden' = overriden /\ errors' = errors /\ stage' = stage /\ classesDone' = classesDone
    BY <1>6 DEF CheckDef
  <2>2. /\ Def' = Def /\ Redefinitions' = Redefinitions /\ \A c : DefsIn({c})' = DefsIn({c})
        /\ \A e : OverrideFound(e)' <=> OverrideFound(e)
    BY <2>1, SameProgram, SameOverride
  <2>3. redefs' \in Seq(Redefinitions)
    BY <1>3, <1>6 DEF CheckDef, Redefinitions
  <2>4. ASSUME NEW e, \E i \in 1..Len(redefs) : redefs[i] = e
        PROVE  \E i \in 1..Len(redefs') : redefs'[i] = e
    BY <1>3, <1>6, <2>4 DEF CheckDef
  <2>5. ASSUME NEW e \in Redefinitions, e \in checked', e \notin checked
        PROVE  \E i \in 1..Len(redefs') : redefs'[i] = e
    <3>1. redefs' = Append(redefs, e)
      BY <1>6, <2>5 DEF CheckDef, Redefinitions
    <3>2. Len(redefs') = Len(redefs) + 1 /\ redefs'[Len(redefs) + 1] = e /\ Len(redefs) \in Nat
      BY <1>3, <3>1
    <3>3. Len(redefs) + 1 \in 1..Len(redefs')
      BY <3>2
    <3> QED
      BY <3>2, <3>3
  <2>6. checked' = checked \cup {d} /\ stage = "definitions"
    BY <1>6 DEF CheckDef
  <2> HIDE DEF CheckDef
  <2>7. ASSUME NEW e \in Redefinitions
        PROVE  \/ e \notin checked'
               \/ \E i \in 1..Len(redefs') : redefs'[i] = e
               \/ overriden[e] # 0 \/ errors
    BY <2>4, <2>5, <2>6 DEF OverridesInvariant
  <2>8. \A c \in 1..classesDone : DefsIn({c}) \subseteq checked'
    BY <2>6 DEF OverridesInvariant
  <2> QED
    BY <1>3, <2>1, <2>2, <2>3, <2>6, <2>7, <2>8 DEF OverridesInvariant, Stages
<1>7. ASSUME CheckClass PROVE program' = program /\ OverridesInvariant'
  <2>1. /\ program' = program /\ overriden' = overriden /\ stage' = stage /\ stage = "definitions"
        /\ redefs' = redefs /\ checked' = checked
        /\ classesDone' = classesDone + 1 /\ classesDone < Len(program.classes)
        /\ ToSet(DefsOf(classesDone + 1)) \subseteq checked
        /\ errors' \in BOOLEAN /\ (errors => errors')
    BY <1>7 DEF CheckClass
  <2>2. /\ Def' = Def /\ Redefinitions' = Redefinitions /\ \A c : DefsIn({c})' = DefsIn({c})
        /\ \A e : OverrideFound(e)' <=> OverrideFound(e)
    BY <2>1, SameProgram, SameOverride
  <2>3. DefsIn({classesDone + 1}) \subseteq checked
    <3>1. ASSUME NEW e \in DefsIn({classesDone + 1}) PROVE e \in checked
      <4>1. PICK i \in 1..Len(DefsOf(classesDone + 1)) : DefsOf(classesDone + 1)[i] = e
        BY DefsOfIs DEF DefsIn
      <4>2. DefsOf(classesDone + 1) \in Seq(Def)
        BY DefsOfIs
      <4>3. e \in ToSet(DefsOf(classesDone + 1))
        BY <4>1, <4>2 DEF ToSet
      <4> QED
        BY <2>1, <4>3
    <3> QED
      BY <3>1
  <2>4. ASSUME NEW c \in 1..(classesDone + 1) PROVE DefsIn({c}) \subseteq checked
    <3>1. c \in 1..classesDone \/ c = classesDone + 1
      BY <1>3
    <3> QED
      BY <2>1, <2>3, <3>1 DEF OverridesInvariant
  <2>5. classesDone' \in 0..Len(program.classes)
    BY <1>1, <1>3, <2>1
  <2>6. \A e \in Redefinitions : \/ stage = "definitions" /\ e \notin checked
                                 \/ \E i \in 1..Len(redefs) : redefs[i] = e
                                 \/ overriden[e] # 0 \/ errors'
    BY <2>1 DEF OverridesInvariant
  <2> QED
    BY <1>3, <2>1, <2>2, <2>4, <2>5, <2>6 DEF OverridesInvariant, Stages
<1>8. ASSUME StartOverriding PROVE program' = program /\ OverridesInvariant'
  <2>1. /\ program' = program /\ checking' = checking /\ stage = "definitions" /\ stage' = "overrides"
        /\ classesDone' = classesDone /\ classesDone = Len(program.classes)
    BY <1>8 DEF StartOverriding
  <2>2. /\ Def' = Def /\ Redefinitions' = Redefinitions
        /\ \A e : OverrideFound(e)' <=> OverrideFound(e)
    BY <2>1, SameProgram, SameOverride DEF checking
  <2>3. \A e \in Redefinitions : e \in checked
    <3>1. ASSUME NEW e \in Redefinitions PROVE e \in checked
      <4>1. e \in Def /\ OwnerOf(e) \in 1..classesDone
        BY <1>2, <2>1 DEF Redefinitions, Class
      <4>2. e \in DefsIn({OwnerOf(e)})
        BY <4>1 DEF DefsIn
      <4> QED
        BY <2>1, <4>1, <4>2 DEF OverridesInvariant
    <3> QED
      BY <3>1
  <2> QED
    BY <1>3, <2>1, <2>2, <2>3 DEF OverridesInvariant, Stages, checking
<1>9. ASSUME Override PROVE program' = program /\ OverridesInvariant'
  <2> DEFINE d == redefs[1]
             r == findOverridenSymbol(d)
  <2>1. /\ program' = program /\ stage' = stage /\ stage = "overrides" /\ checked' = checked
        /\ classesDone' = classesDone /\ redefs # << >> /\ redefs' = Tail(redefs)
        /\ overriden' = [overriden EXCEPT ![d] = r]
        /\ errors' = (errors \/ r = 0)
    BY <1>9 DEF Override
  <2>2. d \in Redefinitions /\ d \in Def
    BY <1>3, <2>1 DEF Redefinitions
  <2>3. /\ r \in Nat
        /\ r # 0 => /\ r \in Def /\ ~ program.defs[r].redef
                    /\ OwnerOf(r) \in Lineage(OwnerOf(d))
                    /\ program.defs[r].name = program.defs[d].name
                    /\ isSubMethodOf(program.defs[d], program.defs[r])
    <3> HIDE DEF d
    <3> QED
      BY <1>3, <2>2, OverridenIs
  <2> HIDE DEF r, d
  <2>4. overriden' \in [Def -> Nat] /\ overriden'[d] = r /\ \A e \in Def : e # d => overriden'[e] = overriden[e]
    BY <1>3, <2>1, <2>2, <2>3
  <2>5. Def' = Def /\ Redefinitions' = Redefinitions
    BY <2>1, SameProgram
  <2>6. ASSUME NEW e \in Def, overriden'[e] # 0 PROVE OverrideFound(e)'
    <3>1. CASE e = d
      <4>1. \A c : Lineage(c)' = Lineage(c)
        BY <2>1, SameProgram
      <4>2. program.defs[d].redef
        BY <2>2 DEF Redefinitions
      <4>3. r # 0 /\ overriden'[e] = r
        BY <2>4, <2>6, <3>1
      <4> QED
        BY <2>1, <2>3, <3>1, <4>1, <4>2, <4>3
        DEF OverrideFound, OwnerOf, isSubMethodOf, isSubTypeOf, AllSubTypes, Def
    <3>2. CASE e # d
      BY <1>3, <2>1, <2>4, <2>6, <3>2, SameOverride
    <3> QED
      BY <3>1, <3>2
  <2>7. /\ redefs' \in Seq(Redefinitions) /\ Len(redefs') = Len(redefs) - 1 /\ Len(redefs) \in Nat
        /\ \A i \in 1..Len(redefs') : redefs'[i] = redefs[i + 1]
    BY <1>3, <2>1
  <2>8. ASSUME NEW e \in Redefinitions
        PROVE  \/ \E i \in 1..Len(redefs') : redefs'[i] = e
               \/ overriden'[e] # 0 \/ errors'
    <3>0. e \in Def
      BY DEF Redefinitions
    <3>1. CASE \E i \in 1..Len(redefs) : redefs[i] = e
      <4>1. PICK i \in 1..Len(redefs) : redefs[i] = e
        BY <3>1
      <4>2. CASE i = 1
        BY <2>1, <2>4, <4>1, <4>2 DEF d
      <4>3. CASE i # 1
        <5>1. i - 1 \in 1..Len(redefs') /\ i - 1 + 1 = i
          BY <2>7, <4>3
        <5>2. redefs'[i - 1] = redefs[i]
          BY <2>7, <5>1
        <5> QED
          BY <4>1, <5>1, <5>2
      <4> QED
        BY <4>2, <4>3
    <3>2. CASE overriden[e] # 0 \/ errors
      BY <2>1, <2>4, <3>0, <3>2
    <3> QED
      BY <2>1, <3>1, <3>2 DEF OverridesInvariant
  <2>9. errors' \in BOOLEAN
    BY <2>1
  <2> QED
    BY <1>3, <2>1, <2>4, <2>5, <2>6, <2>7, <2>8, <2>9 DEF OverridesInvariant, Stages
<1>10. ASSUME EndChecking PROVE program' = program /\ OverridesInvariant'
  <2>1. /\ program' = program /\ checking' = checking /\ stage = "overrides" /\ redefs = << >>
        /\ stage' = (IF errors THEN "rejected" ELSE "locations") /\ classesDone' = 0
    BY <1>10 DEF EndChecking
  <2>2. /\ Def' = Def /\ Redefinitions' = Redefinitions
        /\ \A e : OverrideFound(e)' <=> OverrideFound(e)
    BY <2>1, SameProgram, SameOverride DEF checking
  <2>3. ~ errors => \A e \in Redefinitions : overriden[e] # 0
    BY <2>1 DEF OverridesInvariant
  <2>4. 0 \in 0..Len(program.classes)
    BY <1>1
  <2> QED
    BY <1>3, <2>1, <2>2, <2>3, <2>4 DEF OverridesInvariant, Stages, checking
<1>11. ASSUME Later
       PROVE  program' = program /\ OverridesInvariant'
  <2>1. /\ program' = program /\ checking' = checking /\ stage \in Late /\ stage' \in Late
        /\ classesDone' \in {classesDone, 0} \/ (classesDone' = classesDone + 1 /\ classesDone < Len(program.classes))
    BY <1>11 DEF Later, VisitNextClass, VisitParent, VisitDef, EndVisit, StartGeneration, GenerateClass,
                 EndGeneration, AssigningDefs, ReadUnset
  <2>2. classesDone' \in 0..Len(program.classes)
    BY <1>1, <1>3, <2>1
  <2> HIDE DEF Late
  <2> QED
    BY <1>5, <2>1, <2>2
<1>12. ASSUME UNCHANGED vars PROVE program' = program /\ OverridesInvariant'
  BY <1>4, <1>12 DEF vars, checking
<1> QED
  BY <1>6, <1>7, <1>8, <1>9, <1>10, <1>11, <1>12 DEF Next, Later, Ended

-----------------------------------------------------------------------------
(* Tables                                                                  *)

\* The root of a definition is its own root, and can be replaced by it.
LEMMA RootFound ==
    ASSUME program \in Programs, OverridesInvariant, NEW d \in Def
    PROVE  /\ Root(d) \in Def /\ Root(Root(d)) = Root(d)
           /\ OwnerOf(Root(d)) \in Lineage(OwnerOf(d))
           /\ program.defs[Root(d)].name = program.defs[d].name
           /\ isSubMethodOf(program.defs[d], program.defs[Root(d)])
           /\ ~ program.defs[d].redef => Root(d) = d
<1>1. OwnerOf(d) \in Class
  BY ProgramFacts
<1>2. overriden[d] # 0 => OverrideFound(d)
  BY DEF OverridesInvariant
<1>3. CASE overriden[d] = 0
  <2>1. Root(d) = d
    BY <1>3 DEF Root
  <2> QED
    BY <1>1, <2>1, LineageClosed, SubMethodOrder
<1>4. CASE overriden[d] # 0
  <2> DEFINE r == overriden[d]
  <2>1. /\ program.defs[d].redef /\ r \in Def /\ ~ program.defs[r].redef
        /\ OwnerOf(r) \in Lineage(OwnerOf(d))
        /\ program.defs[r].name = program.defs[d].name
        /\ isSubMethodOf(program.defs[d], program.defs[r])
    BY <1>2, <1>4 DEF OverrideFound
  <2>2. Root(d) = r
    BY <1>4 DEF Root
  <2>3. overriden[r] = 0
    <3> HIDE DEF r
    <3> QED
      BY <2>1 DEF OverridesInvariant, OverrideFound
  <2>4. Root(r) = r
    BY <2>3 DEF Root
  <2> HIDE DEF r
  <2> QED
    BY <2>1, <2>2, <2>4
<1> QED
  BY <1>3, <1>4

\* What is a table stays one while no location changes.
LEMMA SameTable ==
    ASSUME program' = program, location' = location, overriden' = overriden
    PROVE  /\ \A t, D : IsTable(t, D)' <=> IsTable(t, D)
           /\ \A f : FrameIsTable(f)' <=> FrameIsTable(f)
           /\ \A f : Own(f)' = Own(f)
<1>1. \A c : Lineage(c)' = Lineage(c) /\ DefsOf(c)' = DefsOf(c) /\ ParentOf(c)' = ParentOf(c)
  BY SameProgram
<1>2. ASSUME NEW t, NEW D PROVE IsTable(t, D)' <=> IsTable(t, D)
  BY <1>1 DEF IsTable, Root, NearerThan
<1>3. ASSUME NEW f PROVE Own(f)' = Own(f)
  BY <1>1 DEF Own
<1>4. ASSUME NEW f PROVE Inherited(f.class)' = Inherited(f.class)
  BY <1>1 DEF Inherited, DefsIn, Def, OwnerOf
<1>5. ASSUME NEW f PROVE FrameIsTable(f)' <=> FrameIsTable(f)
  BY <1>2, <1>3, <1>4 DEF FrameIsTable
<1> QED
  BY <1>2, <1>3, <1>5

\* Placing a definition leaves the tables that do not have it.
LEMMA KeptTable ==
    ASSUME program \in Programs, OverridesInvariant, location \in [Def -> Nat],
           program' = program, overriden' = overriden,
           NEW x \in Def, location[x] = 0, NEW v \in Nat, location' = [location EXCEPT ![x] = v],
           NEW t, NEW D \in SUBSET Def, IsTable(t, D)
    PROVE  x \notin D /\ IsTable(t, D)'
<1>1. t \in Seq(D) /\ Len(t) \in Nat /\ \A k \in 1..Len(t) : t[k] \in D
  BY DEF IsTable
<1>2. /\ \A d \in D : location[d] \in 1..Len(t) /\ location[Root(d)] = location[d]
      /\ \A k \in 1..Len(t) :
            /\ location[t[k]] = k
            /\ \A d \in D : location[d] = k => Root(d) = Root(t[k]) /\ NearerThan(t[k], d)
  BY DEF IsTable
<1>3. \A d \in Def : d # x => location'[d] = location[d]
  OBVIOUS
<1>4. \A d \in D : location[d] # 0
  BY <1>1, <1>2
<1>5. x \notin D /\ \A d \in D : d \in Def /\ d # x /\ Root(d) \in Def /\ Root(d) # x
  BY <1>2, <1>4, RootFound
<1>6. \A d : Root(d)' = Root(d)
  BY DEF Root
<1>7. \A d, e : NearerThan(d, e)' <=> NearerThan(d, e)
  <2>1. \A c : Lineage(c)' = Lineage(c)
    BY SameProgram
  <2> QED
    BY <2>1 DEF NearerThan
<1>8. \A d \in D : location'[d] \in 1..Len(t) /\ location'[Root(d)] = location'[d]
  BY <1>2, <1>3, <1>5
<1>9. ASSUME NEW k \in 1..Len(t)
      PROVE  /\ location'[t[k]] = k
             /\ \A d \in D : location'[d] = k => Root(d) = Root(t[k]) /\ NearerThan(t[k], d)
  BY <1>1, <1>2, <1>3, <1>5
<1>10. IsTable(t, D)'
  BY <1>1, <1>6, <1>7, <1>8, <1>9 DEF IsTable
<1> QED
  BY <1>5, <1>10

\* Placing a definition of the class whose table it is.
LEMMA PlacedTable ==
    ASSUME program \in Programs, OverridesInvariant, location \in [Def -> Nat],
           program' = program, overriden' = overriden,
           NEW x \in Def, location[x] = 0, NEW v \in Nat, location' = [location EXCEPT ![x] = v],
           NEW t, NEW D \in SUBSET Def, IsTable(t, D), \A d \in D : NearerThan(x, d),
           \/ Root(x) = x /\ v = Len(t) + 1
           \/ Root(x) \in D /\ v = location[Root(x)]
    PROVE  IsTable(Put(t, v, x), D \cup {x})'
<1> DEFINE n == Len(t)
           u == Put(t, v, x)
<1>1. t \in Seq(D) /\ n \in Nat /\ \A k \in 1..n : t[k] \in D
  BY DEF IsTable
<1>2. /\ \A d \in D : location[d] \in 1..n /\ location[Root(d)] = location[d]
      /\ \A k \in 1..n :
            /\ location[t[k]] = k
            /\ \A d \in D : location[d] = k => Root(d) = Root(t[k]) /\ NearerThan(t[k], d)
  BY DEF IsTable
<1>3. \A d \in Def : d # x => location'[d] = location[d]
  OBVIOUS
<1>4. location'[x] = v
  OBVIOUS
<1>5. \A d \in D : location[d] # 0
  BY <1>1, <1>2
<1>6. x \notin D /\ \A d \in D : d \in Def /\ d # x /\ Root(d) \in Def /\ Root(d) # x
  BY <1>2, <1>5, RootFound
<1>7. \A d : Root(d)' = Root(d)
  BY DEF Root
<1>8. \A d, e : NearerThan(d, e)' <=> NearerThan(d, e)
  <2>1. \A c : Lineage(c)' = Lineage(c)
    BY SameProgram
  <2> QED
    BY <2>1 DEF NearerThan
<1>9. NearerThan(x, x)
  BY ProgramFacts, LineageClosed DEF NearerThan, Def
<1>10. Root(Root(x)) = Root(x)
  BY RootFound
<1>11. CASE Root(x) = x /\ v = n + 1
  <2>1. u = Append(t, x)
    BY <1>1, <1>11 DEF Put
  <2> HIDE DEF u
  <2>2. Len(u) = n + 1 /\ u[n + 1] = x /\ \A k \in 1..n : u[k] = t[k]
    BY <1>1, <2>1
  <2>3. u \in Seq(D \cup {x})
    BY <1>1, <2>1
  <2> HIDE DEF n
  <2>4. ASSUME NEW d \in D \cup {x}
        PROVE  location'[d] \in 1..Len(u) /\ location'[Root(d)] = location'[d]
    <3>1. CASE d = x
      BY <1>1, <1>4, <1>11, <2>2, <3>1
    <3>2. CASE d \in D
      <4>1. location'[d] = location[d] /\ location'[Root(d)] = location[d] /\ location[d] \in 1..n
        BY <1>2, <1>3, <1>6, <3>2
      <4> QED
        BY <1>1, <2>2, <4>1
    <3> QED
      BY <3>1, <3>2
  <2>5. ASSUME NEW k \in 1..Len(u)
        PROVE  /\ location'[u[k]] = k
               /\ \A d \in D \cup {x} : location'[d] = k => Root(d) = Root(u[k]) /\ NearerThan(u[k], d)
    <3>1. CASE k = n + 1
      <4>1. \A d \in D : location'[d] # n + 1
        BY <1>1, <1>2, <1>3, <1>6
      <4> QED
        BY <1>4, <1>9, <1>11, <2>2, <3>1, <4>1
    <3>2. CASE k # n + 1
      <4>1. k \in 1..n /\ u[k] = t[k] /\ t[k] \in D
        BY <1>1, <2>2, <3>2
      <4>2. location'[x] # k
        BY <1>1, <1>4, <1>11, <3>2
      <4> QED
        BY <1>2, <1>3, <1>6, <4>1, <4>2
    <3> QED
      BY <3>1, <3>2
  <2>6. IsTable(u, D \cup {x})'
    BY <1>7, <1>8, <2>3, <2>4, <2>5 DEF IsTable
  <2> QED
    BY <2>6 DEF u
<1>12. CASE Root(x) \in D /\ v = location[Root(x)]
  <2> DEFINE r == Root(x)
  <2>0. r \in D /\ Root(r) = r /\ r # x
    BY <1>6, <1>10, <1>12
  <2>1. v \in 1..n /\ location[r] = v
    BY <1>2, <1>12
  <2>2. u = [t EXCEPT ![v] = x]
    BY <1>1, <2>1 DEF Put
  <2> HIDE DEF u, r
  <2>3. Len(u) = n /\ u[v] = x /\ \A k \in 1..n : k # v => u[k] = t[k]
    BY <1>1, <2>1, <2>2
  <2>4. u \in Seq(D \cup {x})
    BY <1>1, <2>1, <2>2
  <2> HIDE DEF n
  <2>5. ASSUME NEW d \in D \cup {x}
        PROVE  location'[d] \in 1..Len(u) /\ location'[Root(d)] = location'[d]
    <3>1. CASE d = x
      <4>1. location'[r] = v
        BY <1>3, <1>6, <2>0, <2>1
      <4> QED
        BY <1>4, <2>1, <2>3, <3>1, <4>1 DEF r
    <3>2. CASE d \in D
      <4>1. location'[d] = location[d] /\ location'[Root(d)] = location[d] /\ location[d] \in 1..n
        BY <1>2, <1>3, <1>6, <3>2
      <4> QED
        BY <2>3, <4>1
    <3> QED
      BY <3>1, <3>2
  <2>6. ASSUME NEW k \in 1..Len(u)
        PROVE  /\ location'[u[k]] = k
               /\ \A d \in D \cup {x} : location'[d] = k => Root(d) = Root(u[k]) /\ NearerThan(u[k], d)
    <3>1. CASE k = v
      <4>1. \A d \in D : location'[d] = v => Root(d) = r
        <5>1. Root(r) = Root(t[v])
          BY <1>2, <2>0, <2>1
        <5>2. \A d \in D : location[d] = v => Root(d) = Root(t[v])
          BY <1>2, <2>1
        <5> QED
          BY <1>3, <1>6, <2>0, <5>1, <5>2
      <4> QED
        BY <1>4, <1>9, <2>3, <3>1, <4>1 DEF r
    <3>2. CASE k # v
      <4>1. k \in 1..n /\ u[k] = t[k] /\ t[k] \in D
        BY <1>1, <2>3, <3>2
      <4> QED
        BY <1>2, <1>3, <1>4, <1>6, <3>2, <4>1
    <3> QED
      BY <3>1, <3>2
  <2>7. IsTable(u, D \cup {x})'
    BY <1>7, <1>8, <2>4, <2>5, <2>6 DEF IsTable
  <2> QED
    BY <2>7 DEF u
<1> QED
  BY <1>11, <1>12

\* What a class inherits are the definitions of other classes.
LEMMA InheritedIs ==
    ASSUME program \in Programs, NEW c \in Class
    PROVE  /\ Inherited(c) \in SUBSET Def
           /\ DefsIn(Lineage(c)) = Inherited(c) \cup DefsIn({c})
           /\ \A d \in Inherited(c) : OwnerOf(d) \in Lineage(c) /\ OwnerOf(d) # c
           /\ ParentOf(c) # 0 => Inherited(c) = DefsIn(Lineage(ParentOf(c)))
<1>1. Lineage(c) = {c} \cup (IF ParentOf(c) = 0 THEN {} ELSE Lineage(ParentOf(c)))
  BY LineageIs
<1>2. c \in Lineage(c) /\ (ParentOf(c) # 0 => c \notin Lineage(ParentOf(c)))
  BY LineageClosed
<1>3. CASE ParentOf(c) = 0
  BY <1>1, <1>2, <1>3 DEF Inherited, DefsIn
<1>4. CASE ParentOf(c) # 0
  BY <1>1, <1>2, <1>4 DEF Inherited, DefsIn
<1> QED
  BY <1>3, <1>4

\* The definitions of a class that its visit is through with.
LEMMA OwnIs ==
    ASSUME program \in Programs, NEW f, f.class \in Class, f.next \in Nat,
           f.next <= Len(DefsOf(f.class)) + 1
    PROVE  /\ \A d \in Own(f) : d \in Def /\ OwnerOf(d) = f.class
           /\ f.next \in {0, 1} => Own(f) = {}
           /\ f.next = Len(DefsOf(f.class)) + 1 => Own(f) = DefsIn({f.class})
<1> DEFINE s == DefsOf(f.class)
           n == Len(s)
<1>1. /\ s \in Seq(Def) /\ n \in Nat
      /\ \A i \in 1..n : s[i] \in Def /\ OwnerOf(s[i]) = f.class
      /\ \A d \in Def : OwnerOf(d) = f.class => \E i \in 1..n : s[i] = d
  BY DefsOfIs
<1> HIDE DEF s
<1>2. Own(f) = {s[i] : i \in 1..(f.next - 1)}
  BY DEF Own, s
<1>3. \A i \in 1..(f.next - 1) : i \in 1..n
  BY <1>1 DEF s
<1>4. f.next \in {0, 1} => 1..(f.next - 1) = {}
  OBVIOUS
<1>5. f.next = n + 1 => \A i \in 1..n : i \in 1..(f.next - 1)
  BY <1>1
<1>6. f.next = n + 1 => Own(f) = DefsIn({f.class})
  BY <1>1, <1>2, <1>3, <1>5 DEF DefsIn
<1>7. \A d \in Own(f) : d \in Def /\ OwnerOf(d) = f.class
  BY <1>1, <1>2, <1>3
<1>8. f.next \in {0, 1} => Own(f) = {}
  BY <1>2, <1>4
<1> QED
  BY <1>6, <1>7, <1>8 DEF s

\* The next definition of a class is nearer than those before it.
LEMMA OwnNext ==
    ASSUME program \in Programs, NEW f, f.class \in Class,
           f.next \in 1..Len(DefsOf(f.class)), NEW x, x = DefsOf(f.class)[f.next],
           NEW g, g.class = f.class, g.next = f.next + 1
    PROVE  /\ x \in Def /\ OwnerOf(x) = f.class /\ x \notin Own(f)
           /\ Own(g) = Own(f) \cup {x}
           /\ \A d \in Own(f) : d < x
           /\ \A d \in Def : OwnerOf(d) = f.class /\ d \notin Own(f) => x <= d
           /\ Inherited(f.class) \cup Own(g) = (Inherited(f.class) \cup Own(f)) \cup {x}
           /\ \A d \in Inherited(f.class) \cup Own(f) : NearerThan(x, d)
<1> DEFINE c == f.class
           k == f.next
           s == DefsOf(c)
           n == Len(s)
<1>1. /\ s \in Seq(Def) /\ n \in Nat
      /\ \A i \in 1..n : s[i] \in Def /\ OwnerOf(s[i]) = c
      /\ \A d \in Def : OwnerOf(d) = c => \E i \in 1..n : s[i] = d
      /\ \A i, j \in 1..n : i < j => s[i] < s[j]
  BY DefsOfIs
<1>2. Own(f) = {s[i] : i \in 1..(k - 1)} /\ Own(g) = {s[i] : i \in 1..(k + 1 - 1)}
  BY DEF Own
<1>3. \A d \in Inherited(c) : OwnerOf(d) \in Lineage(c) /\ OwnerOf(d) # c
  BY InheritedIs
<1>4. k \in 1..n /\ x = s[k] /\ c \in Class
  OBVIOUS
<1> HIDE DEF s, n, k, c
<1>5. \A i \in 1..n : s[i] \in Int
  BY <1>1 DEF Def
<1>6. /\ \A i \in 1..(k - 1) : i \in 1..n /\ i < k
      /\ \A i \in 1..n : i \in 1..(k - 1) \/ i = k \/ k < i
      /\ \A i : i \in 1..(k + 1 - 1) <=> i \in 1..(k - 1) \/ i = k
  BY <1>1, <1>4
<1>7. x \in Def /\ OwnerOf(x) = c /\ x \in Int
  BY <1>1, <1>4, <1>5
<1>8. \A d \in Own(f) : d < x /\ d \in Int /\ OwnerOf(d) = c
  BY <1>1, <1>2, <1>4, <1>5, <1>6
<1>9. Own(g) = Own(f) \cup {x}
  BY <1>2, <1>4, <1>6
<1>10. ASSUME NEW d \in Def, OwnerOf(d) = c, d \notin Own(f) PROVE x <= d
  <2>1. PICK i \in 1..n : s[i] = d
    BY <1>1, <1>10
  <2>2. i \notin 1..(k - 1)
    BY <1>2, <1>10, <2>1
  <2> QED
    BY <1>1, <1>4, <1>5, <1>6, <1>7, <2>1, <2>2
<1>11. \A d \in Own(f) : NearerThan(x, d)
  BY <1>7, <1>8 DEF NearerThan, OwnerOf
<1>12. \A d \in Inherited(c) : NearerThan(x, d)
  BY <1>3, <1>7 DEF NearerThan, OwnerOf
<1>13. x \notin Own(f)
  BY <1>7, <1>8
<1> QED
  BY <1>7, <1>8, <1>9, <1>10, <1>11, <1>12, <1>13 DEF c

-----------------------------------------------------------------------------
(* The steps of UserDataAssignment                                         *)

\* The order of visits depends on the program only.
LEMMA SameVisits ==
    ASSUME program' = program
    PROVE  /\ \A b, c : (Awaits(b, c)' <=> Awaits(b, c)) /\ (VisitsNext(b, c)' <=> VisitsNext(b, c))
           /\ InsideItsParent' <=> InsideItsParent
           /\ overriden' = overriden => (ForwardOverride' <=> ForwardOverride)
<1>1. /\ Class' = Class /\ \A c : DefsOf(c)' = DefsOf(c)
      /\ \A c : ParentOf(c)' = ParentOf(c) /\ MembersOf(c)' = MembersOf(c)
  BY SameProgram
<1>2. ASSUME NEW b, NEW c PROVE Awaits(b, c)' <=> Awaits(b, c)
  BY <1>1 DEF Awaits, ToSet
<1>3. ASSUME NEW b, NEW c PROVE VisitsNext(b, c)' <=> VisitsNext(b, c)
  BY <1>1, <1>2 DEF VisitsNext
<1>4. ASSUME NEW b, NEW c PROVE VisitedWithin(b, c)' <=> VisitedWithin(b, c)
  BY <1>1, <1>3 DEF VisitedWithin
<1>5. InsideItsParent' <=> InsideItsParent
  BY <1>1, <1>2, <1>4 DEF InsideItsParent
<1>6. overriden' = overriden => (ForwardOverride' <=> ForwardOverride)
  BY DEF ForwardOverride, Def
<1> QED
  BY <1>2, <1>3, <1>5, <1>6

\* The steps of other passes keep the tables.
LEMMA AssigningKept ==
    ASSUME TablesInvariant, StackInvariant,
           program' = program, overriden' = overriden, assigning' = assigning
    PROVE  TablesInvariant' /\ StackInvariant'
<1>1. /\ visiting' = visiting /\ visited' = visited /\ tables' = tables /\ location' = location
  BY DEF assigning
<1>2. /\ Class' = Class /\ Def' = Def
      /\ \A c : Lineage(c)' = Lineage(c) /\ DefsOf(c)' = DefsOf(c)
      /\ \A d : OwnerOf(d)' = OwnerOf(d) /\ ClassesIn(d)' = ClassesIn(d)
  BY SameProgram
<1>3. \A b, c : (Awaits(b, c)' <=> Awaits(b, c)) /\ (VisitsNext(b, c)' <=> VisitsNext(b, c))
  BY SameVisits
<1>4. /\ \A t, D : IsTable(t, D)' <=> IsTable(t, D)
      /\ \A f : FrameIsTable(f)' <=> FrameIsTable(f)
      /\ \A f : Own(f)' = Own(f)
  BY <1>1, SameTable
<1>5. \A c : DefsIn(Lineage(c))' = DefsIn(Lineage(c))
  BY <1>2 DEF DefsIn
<1>6. TablesInvariant'
  BY <1>1, <1>2, <1>4, <1>5 DEF TablesInvariant, TablesAreTables, FramesAreTables, PlacedWereVisited
<1>7. StackInvariant'
  BY <1>1, <1>2, <1>3 DEF StackInvariant, StackTyped, StackLinked
<1> QED
  BY <1>6, <1>7

\* Before the visits there are no tables.
LEMMA NothingAssigned ==
    ASSUME program \in Programs, TablesInvariant, StackInvariant, VisitsInvariant, visited = {},
           program' = program, assigning' = assigning
    PROVE  TablesInvariant' /\ StackInvariant'
<1>1. /\ visiting' = visiting /\ visited' = visited /\ tables' = tables /\ location' = location
  BY DEF assigning
<1>2. /\ Class' = Class /\ Def' = Def
  BY SameProgram
<1>3. /\ \A i \in 1..Len(visiting) : FALSE
      /\ \A c \in Class : tables[c] = << >>
      /\ \A d \in Def : location[d] = 0
  BY DEF VisitsInvariant, StackVisited, VisitedSettled, TablesInvariant, PlacedWereVisited
<1>4. TablesInvariant'
  BY <1>1, <1>2, <1>3 DEF TablesInvariant, TablesAreTables, FramesAreTables, PlacedWereVisited
<1>5. \A i, j \in 1..Len(visiting') : FALSE
  BY <1>1, <1>3
<1>6. StackInvariant'
  BY <1>1, <1>2, <1>5 DEF StackInvariant, StackTyped, StackLinked
<1> QED
  BY <1>4, <1>6

Frames == [class : Class, defs : Seq(Def), next : Nat]

\* A class that was not visited goes on the stack.
LEMMA Pushed ==
    ASSUME program \in Programs, TablesInvariant, StackInvariant, VisitsInvariant,
           program' = program, overriden' = overriden, location' = location,
           NEW c \in Class, c \notin visited,
           visiting' = Append(visiting, Frame(c)), visited' = visited \cup {c},
           \A b \in Class : tables[b] # << >> => tables'[b] # << >>,
           Len(visiting) > 0 => /\ VisitsNext(Top.class, c)
                                /\ tables'[Top.class] = << >> => Awaits(Top.class, c)
    PROVE  /\ FramesAreTables' /\ PlacedWereVisited' /\ StackInvariant' /\ StackVisited'
           /\ Len(visiting) \in Nat /\ Len(visiting') = Len(visiting) + 1
           /\ visiting'[Len(visiting) + 1].class = c
           /\ \A i \in 1..Len(visiting) : visiting'[i] = visiting[i]
<1> DEFINE n == Len(visiting)
           f == Frame(c)
<1>1. /\ visiting \in Seq(Frames) /\ n \in Nat
      /\ \A i \in 1..n : visiting[i] \in Frames /\ visiting[i].class \in visited
                         /\ visiting[i].class \in Class
      /\ visited \subseteq Class
  <2>1. visiting \in Seq(Frames)
    BY DEF StackInvariant, StackTyped, Frames
  <2>2. n \in Nat /\ \A i \in 1..n : visiting[i] \in Frames
    BY <2>1
  <2>3. \A i \in 1..n : visiting[i].class \in Class
    BY <2>2 DEF Frames
  <2> QED
    BY <2>1, <2>2, <2>3 DEF VisitsInvariant, StackVisited
<1>2. f \in Frames /\ f.class = c /\ f.next = 0
  BY DEF Frame, Frames
<1> HIDE DEF f
<1>3. /\ visiting' \in Seq(Frames) /\ Len(visiting') = n + 1 /\ visiting'[n + 1] = f
      /\ \A i \in 1..n : visiting'[i] = visiting[i]
  BY <1>1, <1>2 DEF f
<1>4. /\ Class' = Class /\ Def' = Def
      /\ \A b : DefsOf(b)' = DefsOf(b)
      /\ \A d : OwnerOf(d)' = OwnerOf(d) /\ ClassesIn(d)' = ClassesIn(d)
  BY SameProgram
<1>5. \A b, x : (Awaits(b, x)' <=> Awaits(b, x)) /\ (VisitsNext(b, x)' <=> VisitsNext(b, x))
  BY SameVisits
<1>6. /\ \A g : FrameIsTable(g)' <=> FrameIsTable(g)
      /\ \A g : Own(g)' = Own(g)
  BY SameTable
<1>7. FrameIsTable(f)
  BY <1>2 DEF FrameIsTable
<1> HIDE DEF n
<1>8. \A i \in 1..(n + 1) : i \in 1..n \/ i = n + 1
  BY <1>1
<1>9. FramesAreTables'
  <2>1. ASSUME NEW i \in 1..(n + 1) PROVE FrameIsTable(visiting'[i])
    BY <1>1, <1>3, <1>7, <1>8 DEF TablesInvariant, FramesAreTables, n
  <2> QED
    BY <1>3, <1>6, <2>1 DEF FramesAreTables
<1>10. PlacedWereVisited'
  <2>1. ASSUME NEW d \in Def, location[d] # 0
        PROVE  /\ OwnerOf(d) \in visited' /\ ClassesIn(d) \subseteq visited'
               /\ \A i \in 1..(n + 1) : visiting'[i].class = OwnerOf(d) => d \in Own(visiting'[i])
    <3>1. /\ OwnerOf(d) \in visited /\ ClassesIn(d) \subseteq visited
          /\ \A i \in 1..n : visiting[i].class = OwnerOf(d) => d \in Own(visiting[i])
      BY <2>1 DEF TablesInvariant, PlacedWereVisited, n
    <3>2. OwnerOf(d) # c
      BY <3>1
    <3> QED
      BY <1>2, <1>3, <1>8, <3>1, <3>2
  <2> QED
    BY <1>3, <1>4, <1>6, <2>1 DEF PlacedWereVisited
<1>11. StackTyped'
  <2>1. ASSUME NEW i \in 1..(n + 1) PROVE visiting'[i].next <= Len(DefsOf(visiting'[i].class)) + 1
    <3>1. CASE i \in 1..n
      BY <1>3, <3>1 DEF StackInvariant, StackTyped, n
    <3>2. CASE i = n + 1
      <4>1. Len(DefsOf(c)) \in Nat
        BY DefsOfIs
      <4> QED
        BY <1>2, <1>3, <3>2, <4>1
    <3> QED
      BY <1>8, <3>1, <3>2
  <2>2. ASSUME NEW i \in 1..(n + 1), NEW j \in 1..(n + 1), visiting'[i].class = visiting'[j].class
        PROVE  i = j
    <3>1. CASE i \in 1..n /\ j \in 1..n
      BY <1>3, <2>2, <3>1 DEF StackInvariant, StackTyped, n
    <3>2. CASE i \in 1..n /\ j = n + 1
      BY <1>1, <1>2, <1>3, <2>2, <3>2
    <3>3. CASE i = n + 1 /\ j \in 1..n
      BY <1>1, <1>2, <1>3, <2>2, <3>3
    <3> QED
      BY <1>8, <3>1, <3>2, <3>3
  <2> QED
    BY <1>3, <1>4, <2>1, <2>2 DEF StackTyped, Frames
<1>12. StackLinked'
  <2>1. ASSUME NEW i \in 1..(n + 1), NEW j \in 1..(n + 1), j = i + 1
        PROVE  /\ VisitsNext(visiting'[i].class, visiting'[j].class)
               /\ tables'[visiting'[i].class] = << >> => Awaits(visiting'[i].class, visiting'[j].class)
    <3>1. CASE j \in 1..n
      <4>1. i \in 1..n
        BY <1>1, <2>1, <3>1
      <4>2. /\ VisitsNext(visiting[i].class, visiting[j].class)
            /\ tables[visiting[i].class] = << >> => Awaits(visiting[i].class, visiting[j].class)
        BY <2>1, <3>1, <4>1 DEF StackInvariant, StackLinked, n
      <4> QED
        BY <1>1, <1>3, <3>1, <4>1, <4>2
    <3>2. CASE j = n + 1
      <4>1. i = n /\ n > 0 /\ i \in 1..n
        BY <1>1, <2>1, <3>2
      <4>2. visiting'[i] = Top /\ visiting'[j].class = c
        BY <1>2, <1>3, <3>2, <4>1 DEF Top, n
      <4> QED
        BY <4>1, <4>2 DEF n
    <3> QED
      BY <1>8, <3>1, <3>2
  <2> QED
    BY <1>3, <1>5, <2>1 DEF StackLinked
<1>13. StackVisited'
  BY <1>1, <1>2, <1>3, <1>4, <1>8 DEF StackVisited
<1> QED
  BY <1>1, <1>2, <1>3, <1>9, <1>10, <1>11, <1>12, <1>13 DEF StackInvariant, n

\* The stack of visits depends on its classes only.
LEMMA SameClasses ==
    ASSUME StackInvariant, VisitsInvariant,
           program' = program, tables' = tables, visited' = visited,
           Len(visiting') = Len(visiting),
           \A i \in 1..Len(visiting) : visiting'[i].class = visiting[i].class
    PROVE  StackLinked' /\ StackVisited' /\ VisitedSettled'
<1>1. Class' = Class /\ \A b : MembersOf(b)' = MembersOf(b)
  BY SameProgram
<1>2. \A b, x : (Awaits(b, x)' <=> Awaits(b, x)) /\ (VisitsNext(b, x)' <=> VisitsNext(b, x))
  BY SameVisits
<1>3. StackLinked'
  BY <1>2 DEF StackInvariant, StackLinked
<1>4. StackVisited'
  BY <1>1 DEF VisitsInvariant, StackVisited
<1>5. VisitedSettled'
  BY <1>1 DEF VisitsInvariant, VisitedSettled
<1> QED
  BY <1>3, <1>4, <1>5

\* The frame on top of the stack goes on.
LEMMA TopChanged ==
    ASSUME program \in Programs, TablesInvariant, StackInvariant, VisitsInvariant,
           program' = program, tables' = tables, visited' = visited,
           visiting # << >>, NEW g \in Frames, g.class = Top.class,
           g.next <= Len(DefsOf(g.class)) + 1,
           visiting' = [visiting EXCEPT ![Len(visiting)] = g]
    PROVE  /\ StackInvariant' /\ StackVisited' /\ VisitedSettled'
           /\ Len(visiting) \in Nat /\ Len(visiting) > 0 /\ Len(visiting') = Len(visiting)
           /\ visiting'[Len(visiting)] = g
           /\ \A i \in 1..Len(visiting) : i # Len(visiting) => visiting'[i] = visiting[i]
<1> DEFINE n == Len(visiting)
<1>1. visiting \in Seq(Frames) /\ n \in Nat /\ n > 0 /\ n \in 1..n
  BY DEF StackInvariant, StackTyped, Frames
<1>2. /\ visiting' \in Seq(Frames) /\ Len(visiting') = n /\ visiting'[n] = g
      /\ \A i \in 1..n : i # n => visiting'[i] = visiting[i]
  BY <1>1
<1>3. \A i \in 1..n : visiting'[i].class = visiting[i].class
  BY <1>1, <1>2 DEF Top
<1>4. /\ Class' = Class /\ Def' = Def
      /\ \A b : DefsOf(b)' = DefsOf(b) /\ MembersOf(b)' = MembersOf(b)
  BY SameProgram
<1>5. StackLinked' /\ StackVisited' /\ VisitedSettled'
  BY <1>2, <1>3, SameClasses
<1> HIDE DEF n
<1>6. StackTyped'
  <2>1. \A i \in 1..n : visiting'[i].next <= Len(DefsOf(visiting'[i].class)) + 1
    BY <1>2 DEF StackInvariant, StackTyped, n
  <2>2. \A i, j \in 1..n : visiting'[i].class = visiting'[j].class => i = j
    BY <1>3 DEF StackInvariant, StackTyped, n
  <2> QED
    BY <1>2, <1>4, <2>1, <2>2 DEF StackTyped, Frames
<1> QED
  BY <1>1, <1>2, <1>5, <1>6 DEF StackInvariant, n

\* The visit at the top.
LEMMA StackFacts ==
    ASSUME program \in Programs, StackInvariant, visiting # << >>
    PROVE  /\ Len(visiting) \in Nat /\ Len(visiting) > 0 /\ Len(visiting) \in 1..Len(visiting)
           /\ Top = visiting[Len(visiting)]
           /\ Top \in Frames /\ Top.class \in Class /\ Top.next \in Nat
           /\ Top.next <= Len(DefsOf(Top.class)) + 1 /\ Len(DefsOf(Top.class)) \in Nat
<1>1. visiting \in Seq(Frames)
  BY DEF StackInvariant, StackTyped, Frames
<1>2. Len(visiting) \in Nat /\ Len(visiting) > 0 /\ Len(visiting) \in 1..Len(visiting)
  BY <1>1
<1>3. Top = visiting[Len(visiting)] /\ Top \in Frames
  BY <1>1, <1>2 DEF Top
<1>4. Top.class \in Class /\ Top.next \in Nat
  BY <1>3 DEF Frames
<1>5. Top.next <= Len(DefsOf(Top.class)) + 1
  BY <1>2, <1>3 DEF StackInvariant, StackTyped
<1>6. Len(DefsOf(Top.class)) \in Nat
  BY DefsOfIs
<1> QED
  BY <1>2, <1>3, <1>4, <1>5, <1>6

\* The tables stay what they are while no definition is placed.
LEMMA TablesKept ==
    ASSUME TablesInvariant, program' = program, overriden' = overriden, location' = location,
           tables' = tables
    PROVE  TablesAreTables' /\ DOMAIN tables' = Class' /\ tables' = [c \in Class' |-> tables'[c]]
           /\ location' \in [Def' -> Nat]
<1>1. /\ Class' = Class /\ Def' = Def /\ \A c : Lineage(c)' = Lineage(c)
  BY SameProgram
<1>2. \A t, D : IsTable(t, D)' <=> IsTable(t, D)
  BY SameTable
<1>3. \A c : DefsIn(Lineage(c))' = DefsIn(Lineage(c))
  BY <1>1 DEF DefsIn, Def, OwnerOf
<1>4. TablesAreTables'
  BY <1>1, <1>2, <1>3 DEF TablesInvariant, TablesAreTables
<1> QED
  BY <1>1, <1>4 DEF TablesInvariant

\* Where a visit is pushed and no table is set.
LEMMA PushedStep ==
    ASSUME program \in Programs, TablesInvariant, StackInvariant, VisitsInvariant,
           program' = program, overriden' = overriden, location' = location, tables' = tables,
           NEW c \in Class, c \notin visited,
           visiting' = Append(visiting, Frame(c)), visited' = visited \cup {c},
           Len(visiting) > 0 => /\ VisitsNext(Top.class, c)
                                /\ tables[Top.class] = << >> => Awaits(Top.class, c)
    PROVE  TablesInvariant' /\ StackInvariant' /\ StackVisited' /\ VisitedSettled'
<1>1. /\ FramesAreTables' /\ PlacedWereVisited' /\ StackInvariant' /\ StackVisited'
      /\ Len(visiting) \in Nat /\ Len(visiting') = Len(visiting) + 1
      /\ visiting'[Len(visiting) + 1].class = c
      /\ \A i \in 1..Len(visiting) : visiting'[i] = visiting[i]
  BY Pushed
<1>2. TablesInvariant'
  BY <1>1, TablesKept DEF TablesInvariant
<1>3. Class' = Class /\ \A b : MembersOf(b)' = MembersOf(b)
  BY SameProgram
<1>4. VisitedSettled'
  <2>1. ASSUME NEW b \in visited', \A i \in 1..(Len(visiting) + 1) : visiting'[i].class # b
        PROVE  tables[b] # << >> /\ MembersOf(b) \subseteq visited'
    <3>1. Len(visiting) + 1 \in 1..(Len(visiting) + 1)
      BY <1>1
    <3>2. b \in visited
      BY <1>1, <2>1, <3>1
    <3>3. \A i \in 1..Len(visiting) : i \in 1..(Len(visiting) + 1)
      BY <1>1
    <3>4. \A i \in 1..Len(visiting) : visiting[i].class # b
      BY <1>1, <2>1, <3>3
    <3> QED
      BY <3>2, <3>4 DEF VisitsInvariant, VisitedSettled
  <2> QED
    BY <1>1, <1>3, <2>1 DEF VisitsInvariant, VisitedSettled
<1> QED
  BY <1>1, <1>2, <1>4

\* A class at the top of the program is visited, or was before.
LEMMA VisitNextClassStep ==
    ASSUME program \in Programs, OverridesInvariant, TablesInvariant, StackInvariant, VisitsInvariant,
           VisitNextClass
    PROVE  TablesInvariant' /\ StackInvariant' /\ VisitsInvariant'
<1> DEFINE c == classesDone + 1
<1>1. /\ stage = "locations" /\ stage' = stage /\ visiting = << >> /\ classesDone < Len(program.classes)
      /\ classesDone' = classesDone + 1 /\ program' = program /\ checking' = checking
      /\ tables' = tables /\ location' = location
      /\ IF program.classes[c].method # 0 \/ program.classes[c].outer # 0 \/ c \in visited
         THEN UNCHANGED <<visiting, visited>> ELSE Visit(c)
  BY DEF VisitNextClass
<1>2. overriden' = overriden
  BY <1>1 DEF checking
<1>3. classesDone \in Nat /\ Len(program.classes) \in Nat /\ c \in Class
  BY <1>1, ProgramFacts DEF OverridesInvariant, Class
<1> HIDE DEF c
<1>4. CASE program.classes[c].method # 0 \/ program.classes[c].outer # 0 \/ c \in visited
  <2>1. visiting' = visiting /\ visited' = visited
    BY <1>1, <1>4
  <2>2. TablesInvariant' /\ StackInvariant'
    BY <1>1, <1>2, <2>1, AssigningKept DEF assigning
  <2>3. Class' = Class /\ \A b : MembersOf(b)' = MembersOf(b)
    BY <1>1, SameProgram
  <2>4. StackVisited' /\ VisitedSettled'
    BY <1>1, <2>1, <2>3 DEF VisitsInvariant, StackVisited, VisitedSettled
  <2>5. \A b \in 1..(classesDone + 1) : b \in 1..classesDone \/ b = c
    BY <1>3 DEF c
  <2>6. VisitsInStage'
    BY <1>1, <1>4, <2>1, <2>5 DEF VisitsInvariant, VisitsInStage
  <2> QED
    BY <2>2, <2>4, <2>6 DEF VisitsInvariant
<1>5. CASE ~ (program.classes[c].method # 0 \/ program.classes[c].outer # 0 \/ c \in visited)
  <2>1. visiting' = Append(visiting, Frame(c)) /\ visited' = visited \cup {c} /\ c \notin visited
    BY <1>1, <1>5 DEF Visit
  <2>2. Len(visiting) = 0
    BY <1>1
  <2>3. TablesInvariant' /\ StackInvariant' /\ StackVisited' /\ VisitedSettled'
    BY <1>1, <1>2, <1>3, <2>1, <2>2, PushedStep
  <2>4. \A b \in 1..(classesDone + 1) : b \in 1..classesDone \/ b = c
    BY <1>3 DEF c
  <2>5. VisitsInStage'
    BY <1>1, <1>5, <2>1, <2>4 DEF VisitsInvariant, VisitsInStage
  <2> QED
    BY <2>3, <2>5 DEF VisitsInvariant
<1> QED
  BY <1>4, <1>5

\* From a class on the stack the visits lead to the one on top.
LEMMA VisitsLeadToTop ==
    ASSUME program \in Programs, StackInvariant, visiting # << >>, NEW i \in 1..Len(visiting)
    PROVE  VisitedWithin(visiting[i].class, Top.class)
<1> SUFFICES ASSUME NEW S \in SUBSET Class, visiting[i].class \in S,
                    \A x \in S, y \in Class : VisitsNext(x, y) => y \in S
             PROVE  Top.class \in S
  BY DEF VisitedWithin
<1> DEFINE n == Len(visiting)
           cls(k) == visiting[k].class
           T == {k \in Nat : i + k <= n => cls(i + k) \in S}
<1>1. n \in Nat /\ i \in 1..n /\ Top.class = cls(n)
  BY StackFacts
<1>2. \A k \in 1..n : cls(k) \in Class
  <2>1. visiting \in Seq(Frames)
    BY DEF StackInvariant, StackTyped, Frames
  <2>2. \A k \in 1..n : visiting[k] \in Frames
    BY <2>1
  <2> QED
    BY <2>2 DEF Frames
<1>3. \A k, m \in 1..n : m = k + 1 => VisitsNext(cls(k), cls(m))
  BY DEF StackInvariant, StackLinked
<1>4. cls(i) \in S
  OBVIOUS
<1> HIDE DEF n, cls
<1>5. 0 \in T
  <2>1. i + 0 = i
    BY <1>1
  <2> QED
    BY <1>4, <2>1
<1>6. ASSUME NEW k \in Nat, k \in T PROVE k + 1 \in T
  <2> SUFFICES ASSUME i + (k + 1) <= n PROVE cls(i + (k + 1)) \in S
    OBVIOUS
  <2>1. i + k \in 1..n /\ i + (k + 1) \in 1..n /\ i + (k + 1) = (i + k) + 1 /\ i + k <= n
    BY <1>1
  <2>2. cls(i + k) \in S
    BY <1>6, <2>1
  <2>3. VisitsNext(cls(i + k), cls(i + (k + 1)))
    BY <1>3, <2>1
  <2> QED
    BY <1>2, <2>1, <2>2, <2>3
<1>7. \A k \in Nat : k \in T
  <2> HIDE DEF T
  <2> QED
    BY <1>5, <1>6, NumberInduction
<1>8. n - i \in Nat /\ i + (n - i) = n /\ n <= n
  BY <1>1
<1>9. cls(i + (n - i)) \in S
  BY <1>7, <1>8
<1> QED
  BY <1>1, <1>8, <1>9

\* After something was read that is not set, nothing else is said.
LEMMA Undefined ==
    ASSUME program \in Programs, TablesInvariant, StackInvariant, VisitsInvariant,
           program' = program, overriden' = overriden, assigning' = assigning,
           stage' = "undefined", ForwardOverride \/ InsideItsParent
    PROVE  TablesInvariant' /\ StackInvariant' /\ VisitsInvariant'
<1>1. TablesInvariant' /\ StackInvariant'
  BY AssigningKept
<1>2. visiting' = visiting /\ visited' = visited /\ tables' = tables
  BY DEF assigning
<1>3. Class' = Class /\ \A b : MembersOf(b)' = MembersOf(b)
  BY SameProgram
<1>4. StackVisited' /\ VisitedSettled'
  BY <1>2, <1>3 DEF VisitsInvariant, StackVisited, VisitedSettled
<1>5. ForwardOverride' \/ InsideItsParent'
  BY SameVisits
<1>6. VisitsInStage'
  BY <1>5 DEF VisitsInStage
<1> QED
  BY <1>1, <1>4, <1>6 DEF VisitsInvariant

\* The visits go on.
LEMMA LocationsGoOn ==
    ASSUME VisitsInvariant, stage = "locations", program' = program, stage' = stage,
           classesDone' = classesDone, visited \subseteq visited'
    PROVE  VisitsInStage'
  BY DEF VisitsInvariant, VisitsInStage

\* The parent is visited first, or its table is there.
LEMMA VisitParentStep ==
    ASSUME program \in Programs, OverridesInvariant, TablesInvariant, StackInvariant, VisitsInvariant,
           VisitParent
    PROVE  TablesInvariant' /\ StackInvariant' /\ VisitsInvariant'
<1> DEFINE n == Len(visiting)
           f == Top
           p == ParentOf(f.class)
           g == [f EXCEPT !.defs = ParentTable[1], !.next = 1]
<1>1. /\ stage = "locations" /\ visiting # << >> /\ f.next = 0
      /\ program' = program /\ checking' = checking /\ classesDone' = classesDone
      /\ overriden' = overriden
  BY DEF VisitParent, AssigningDefs, checking
<1>2. /\ n \in Nat /\ n > 0 /\ n \in 1..n /\ f = visiting[n] /\ f \in Frames /\ f.class \in Class
      /\ Len(DefsOf(f.class)) \in Nat
  BY <1>1, StackFacts
<1>3. p \in Class \cup {0} /\ 0 \notin Class
  BY <1>2, ProgramFacts DEF Class
<1>4. CASE p # 0 /\ p \notin visited /\ Visit(p) /\ UNCHANGED <<stage, tables, location>>
  <2>1. p \in Class /\ visiting' = Append(visiting, Frame(p)) /\ visited' = visited \cup {p}
    BY <1>3, <1>4 DEF Visit
  <2>2. Awaits(f.class, p)
    BY DEF Awaits
  <2>3. VisitsNext(f.class, p)
    BY <2>2 DEF VisitsNext
  <2>4. TablesInvariant' /\ StackInvariant' /\ StackVisited' /\ VisitedSettled'
    <3> HIDE DEF p
    <3> QED
      BY <1>1, <1>4, <2>1, <2>2, <2>3, PushedStep
  <2>5. VisitsInStage'
    BY <1>1, <1>4, <2>1, LocationsGoOn
  <2> QED
    BY <2>4, <2>5 DEF VisitsInvariant
<1>5. CASE p \in visited /\ ParentTable = << >> /\ ReadUnset
  <2>1. p \in Class /\ p # 0
    BY <1>3, <1>5 DEF VisitsInvariant, StackVisited
  <2>2. tables[p] = << >>
    BY <1>5, <2>1 DEF ParentTable
  <2>3. PICK i \in 1..n : visiting[i].class = p
    BY <1>5, <2>2 DEF VisitsInvariant, VisitedSettled
  <2>4. p # f.class
    BY <1>2, <2>1, LineageClosed
  <2>5. i + 1 \in 1..n
    BY <1>2, <2>3, <2>4
  <2> DEFINE b == visiting[i + 1].class
  <2>6. Awaits(p, b)
    BY <2>2, <2>3, <2>5 DEF StackInvariant, StackLinked
  <2>7. VisitedWithin(b, f.class)
    BY <1>1, <2>5, VisitsLeadToTop
  <2>8. b \in Class
    <3>1. visiting[i + 1].class \in visited
      BY <2>5 DEF VisitsInvariant, StackVisited
    <3> QED
      BY <3>1 DEF VisitsInvariant, StackVisited
  <2> HIDE DEF b
  <2>9. InsideItsParent
    BY <1>2, <2>1, <2>6, <2>7, <2>8 DEF InsideItsParent
  <2> QED
    BY <1>1, <1>5, <2>9, Undefined DEF ReadUnset
<1>6. CASE ParentTable # << >> /\ SetTop(g) /\ UNCHANGED <<stage, visited, tables, location>>
  <2>1. g.class = f.class /\ g.next = 1 /\ g.defs = ParentTable[1]
    BY <1>2 DEF Frames
  <2>2. IsTable(ParentTable[1], Inherited(f.class))
    <3>1. CASE p = 0
      <4>1. ParentTable[1] = << >> /\ Inherited(f.class) = {}
        BY <3>1 DEF ParentTable, Inherited
      <4>2. IsTable(<< >>, {})
        BY DEF IsTable
      <4> QED
        BY <4>1, <4>2
    <3>2. CASE p # 0
      <4>1. p \in Class /\ ParentTable = tables[p] /\ Inherited(f.class) = DefsIn(Lineage(p))
        BY <1>3, <3>2 DEF ParentTable, Inherited
      <4>2. IsTable(tables[p][1], DefsIn(Lineage(p)))
        BY <1>6, <4>1 DEF TablesInvariant, TablesAreTables
      <4> QED
        BY <4>1, <4>2
    <3> QED
      BY <3>1, <3>2
  <2>3. g \in Frames
    <3>1. ParentTable[1] \in Seq(Inherited(f.class)) /\ Inherited(f.class) \in SUBSET Def
      BY <1>2, <2>2, InheritedIs DEF IsTable
    <3>2. ParentTable[1] \in Seq(Def)
      BY <3>1
    <3> QED
      BY <1>2, <3>2 DEF Frames
  <2>4. visiting' = [visiting EXCEPT ![n] = g]
    BY <1>6 DEF SetTop
  <2> HIDE DEF g, f, n
  <2>5. /\ StackInvariant' /\ StackVisited' /\ VisitedSettled'
        /\ Len(visiting') = n /\ visiting'[n] = g
        /\ \A i \in 1..n : i # n => visiting'[i] = visiting[i]
    <3>1. g.next <= Len(DefsOf(g.class)) + 1
      BY <1>2, <2>1
    <3> QED
      BY <1>1, <1>6, <2>1, <2>3, <2>4, <3>1, TopChanged DEF f, n
  <2>6. Own(g) = {} /\ Own(f) = {}
    <3>1. 1 <= Len(DefsOf(g.class)) + 1
      BY <1>2, <2>1
    <3>2. 0 <= Len(DefsOf(f.class)) + 1
      BY <1>2
    <3>3. Own(g) = {}
      <4>1. g.class \in Class /\ g.next \in Nat /\ g.next <= Len(DefsOf(g.class)) + 1 /\ g.next \in {0, 1}
        BY <1>2, <2>1, <3>1
      <4> QED
        BY <4>1, OwnIs
    <3>4. Own(f) = {}
      <4>1. f.class \in Class /\ f.next \in Nat /\ f.next <= Len(DefsOf(f.class)) + 1 /\ f.next \in {0, 1}
        BY <1>1, <1>2, <3>2
      <4> QED
        BY <4>1, OwnIs
    <3> QED
      BY <3>3, <3>4
  <2>7. FrameIsTable(g)
    BY <2>1, <2>2, <2>6 DEF FrameIsTable
  <2>8. /\ \A x : FrameIsTable(x)' <=> FrameIsTable(x)
        /\ \A x : Own(x)' = Own(x)
    BY <1>1, <1>6, SameTable
  <2>9. FramesAreTables'
    <3>1. ASSUME NEW i \in 1..n PROVE FrameIsTable(visiting'[i])
      BY <2>5, <2>7 DEF TablesInvariant, FramesAreTables, n
    <3> QED
      BY <2>5, <2>8, <3>1 DEF FramesAreTables
  <2>10. PlacedWereVisited'
    <3>1. ASSUME NEW d \in Def, location[d] # 0, NEW i \in 1..n, visiting'[i].class = OwnerOf(d)
          PROVE  d \in Own(visiting'[i])
      <4>1. CASE i = n
        <5>1. f.class = OwnerOf(d)
          BY <2>1, <2>5, <3>1, <4>1
        <5>2. d \in Own(f)
          BY <1>2, <3>1, <5>1 DEF TablesInvariant, PlacedWereVisited, n
        <5> QED
          BY <2>6, <5>2
      <4>2. CASE i # n
        BY <2>5, <3>1, <4>2 DEF TablesInvariant, PlacedWereVisited, n
      <4> QED
        BY <4>1, <4>2
    <3>2. /\ Def' = Def /\ \A d : OwnerOf(d)' = OwnerOf(d) /\ ClassesIn(d)' = ClassesIn(d)
      BY <1>1, SameProgram
    <3>3. location' = location /\ visited' = visited
      BY <1>6
    <3>4. \A d \in Def : location[d] # 0 => OwnerOf(d) \in visited /\ ClassesIn(d) \subseteq visited
      BY DEF TablesInvariant, PlacedWereVisited
    <3> QED
      BY <2>5, <2>8, <3>1, <3>2, <3>3, <3>4 DEF PlacedWereVisited
  <2>11. TablesInvariant'
    BY <1>1, <1>6, <2>9, <2>10, TablesKept DEF TablesInvariant
  <2>12. VisitsInStage'
    BY <1>1, <1>6, LocationsGoOn
  <2> QED
    BY <2>5, <2>11, <2>12 DEF VisitsInvariant
<1> QED
  BY <1>4, <1>5, <1>6 DEF VisitParent

\* A frame is at a definition, which is not placed.
AtDef(f, d) ==
    /\ f \in Frames /\ f.class \in Class /\ f.next \in Nat /\ Len(DefsOf(f.class)) \in Nat
    /\ d \in Def /\ OwnerOf(d) = f.class /\ location[d] = 0
    /\ \A h : h.class = f.class /\ h.next = f.next + 1 =>
          /\ Own(h) = Own(f) \cup {d}
          /\ Inherited(f.class) \cup Own(h) = (Inherited(f.class) \cup Own(f)) \cup {d}
    /\ \A e \in Def : OwnerOf(e) = f.class /\ e \notin Own(f) => d <= e
    /\ \A e \in Inherited(f.class) \cup Own(f) : NearerThan(d, e)
    /\ IsTable(f.defs, Inherited(f.class) \cup Own(f))

\* The definition whose turn it is has no location.
LEMMA VisitDefFacts ==
    ASSUME program \in Programs, TablesInvariant, StackInvariant, visiting # << >>,
           NEW f, f = Top, f.next \in 1..Len(DefsOf(f.class)),
           NEW d, d = DefsOf(f.class)[f.next]
    PROVE  AtDef(f, d)
<1> DEFINE n == Len(visiting)
<1>1. /\ n \in 1..n /\ f = visiting[n] /\ f \in Frames /\ f.class \in Class
      /\ Len(DefsOf(f.class)) \in Nat /\ f.next \in Nat
  BY StackFacts
<1>2. /\ d \in Def /\ OwnerOf(d) = f.class /\ d \notin Own(f)
      /\ \A h : h.class = f.class /\ h.next = f.next + 1 =>
            /\ Own(h) = Own(f) \cup {d}
            /\ Inherited(f.class) \cup Own(h) = (Inherited(f.class) \cup Own(f)) \cup {d}
      /\ \A e \in Def : OwnerOf(e) = f.class /\ e \notin Own(f) => d <= e
      /\ \A e \in Inherited(f.class) \cup Own(f) : NearerThan(d, e)
  <2>1. \E h : h.class = f.class /\ h.next = f.next + 1
    <3>1. [class |-> f.class, next |-> f.next + 1].class = f.class
          /\ [class |-> f.class, next |-> f.next + 1].next = f.next + 1
      OBVIOUS
    <3> QED
      BY <3>1
  <2> QED
    BY <1>1, <2>1, OwnNext
<1>3. location[d] = 0
  BY <1>1, <1>2 DEF TablesInvariant, PlacedWereVisited
<1>4. FrameIsTable(f)
  BY <1>1 DEF TablesInvariant, FramesAreTables
<1>5. IsTable(f.defs, Inherited(f.class) \cup Own(f))
  BY <1>4 DEF FrameIsTable
<1> QED
  BY <1>1, <1>2, <1>3, <1>5 DEF AtDef

\* Another frame takes the place of the one on top.
TopBecomes(g, n) ==
    /\ n \in Nat /\ n = Len(visiting) /\ n > 0 /\ Len(visiting') = n /\ visiting'[n] = g
    /\ \A i \in 1..n : i # n => visiting'[i] = visiting[i]
TablesStay == \A u : \A E \in SUBSET Def : IsTable(u, E) => IsTable(u, E)'

\* Every frame but the one on top keeps its table, which that one extends.
LEMMA FramesPlaced ==
    ASSUME program \in Programs, TablesInvariant, StackInvariant, program' = program,
           NEW n, NEW g, TopBecomes(g, n), TablesStay,
           NEW D, D = Inherited(g.class) \cup Own(g), IsTable(g.defs, D)'
    PROVE  FramesAreTables'
<1> USE DEF TopBecomes, TablesStay
<1>1. /\ \A c : Lineage(c)' = Lineage(c) /\ DefsOf(c)' = DefsOf(c) /\ ParentOf(c)' = ParentOf(c)
  BY SameProgram
<1>2. /\ \A h : Own(h)' = Own(h)
      /\ \A c : Inherited(c)' = Inherited(c)
  BY <1>1 DEF Own, Inherited, DefsIn, Def, OwnerOf
<1>3. FrameIsTable(g)'
  BY <1>2 DEF FrameIsTable
<1>4. ASSUME NEW i \in 1..n, i # n, NEW x, x = visiting'[i] PROVE FrameIsTable(x)'
  <2>1. PICK h : h = visiting[i]
    OBVIOUS
  <2>2. FrameIsTable(h)
    BY <2>1 DEF TablesInvariant, FramesAreTables
  <2>3. h \in Frames /\ h.class \in Class /\ h.next \in Nat /\ h.next <= Len(DefsOf(h.class)) + 1
    <3>1. visiting \in Seq(Frames)
      BY DEF StackInvariant, StackTyped, Frames
    <3>2. h \in Frames
      BY <2>1, <3>1
    <3>3. h.next <= Len(DefsOf(h.class)) + 1
      BY <2>1 DEF StackInvariant, StackTyped
    <3> QED
      BY <3>2, <3>3 DEF Frames
  <2>4. PICK E : E = Inherited(h.class) \cup Own(h)
    OBVIOUS
  <2>5. E \in SUBSET Def
    <3>1. Inherited(h.class) \in SUBSET Def
      BY <2>3, InheritedIs
    <3>2. Own(h) \in SUBSET Def
      BY <2>3, OwnIs
    <3> QED
      BY <2>4, <3>1, <3>2
  <2>6. h.next # 0 => IsTable(h.defs, E)'
    BY <2>2, <2>4, <2>5 DEF FrameIsTable
  <2>7. FrameIsTable(h)'
    BY <1>2, <2>4, <2>6 DEF FrameIsTable
  <2>8. x = h
    BY <1>4, <2>1
  <2> QED
    BY <2>7, <2>8
<1>5. ASSUME NEW i \in 1..n, NEW x, x = visiting'[i] PROVE FrameIsTable(x)'
  <2>1. CASE i = n
    <3>1. x = g
      BY <1>5, <2>1
    <3> QED
      BY <1>3, <3>1
  <2>2. CASE i # n
    BY <1>4, <1>5, <2>2
  <2> QED
    BY <2>1, <2>2
<1> QED
  BY <1>5 DEF FramesAreTables

OnlyPlaces(d) == \A e \in Def : e # d => location'[e] = location[e]

\* What has a location has been visited.
LEMMA PlacesKept ==
    ASSUME TablesInvariant, StackInvariant, VisitsInvariant, program' = program, visited' = visited,
           NEW n, NEW f, f = visiting[n], NEW g, NEW d \in Def, TopBecomes(g, n),
           g.class = f.class, OwnerOf(d) = f.class, Own(g) = Own(f) \cup {d},
           ClassesIn(d) \subseteq visited, OnlyPlaces(d)
    PROVE  PlacedWereVisited'
<1> USE DEF TopBecomes, OnlyPlaces
<1>1. n \in 1..n
  OBVIOUS
<1>2. /\ Def' = Def /\ \A e : OwnerOf(e)' = OwnerOf(e) /\ ClassesIn(e)' = ClassesIn(e)
      /\ \A c : DefsOf(c)' = DefsOf(c)
  BY SameProgram
<1>3. \A h : Own(h)' = Own(h)
  BY <1>2 DEF Own
<1>4. ASSUME NEW e \in Def, location'[e] # 0
      PROVE  /\ OwnerOf(e) \in visited /\ ClassesIn(e) \subseteq visited
             /\ \A i \in 1..n : visiting'[i].class = OwnerOf(e) => e \in Own(visiting'[i])
  <2>1. CASE e = d
    <3>1. f.class \in visited
      BY <1>1 DEF VisitsInvariant, StackVisited
    <3>2. ASSUME NEW i \in 1..n, visiting'[i].class = f.class PROVE i = n
      <4>1. visiting[i].class = f.class
        BY <3>2
      <4> QED
        BY <1>1, <4>1 DEF StackInvariant, StackTyped
    <3> QED
      BY <2>1, <3>1, <3>2
  <2>2. CASE e # d
    <3>1. location[e] # 0
      BY <1>4, <2>2
    <3>2. /\ OwnerOf(e) \in visited /\ ClassesIn(e) \subseteq visited
          /\ \A i \in 1..n : visiting[i].class = OwnerOf(e) => e \in Own(visiting[i])
      BY <3>1 DEF TablesInvariant, PlacedWereVisited
    <3>3. ASSUME NEW i \in 1..n, visiting'[i].class = OwnerOf(e) PROVE e \in Own(visiting'[i])
      <4>1. CASE i = n
        BY <1>1, <3>2, <3>3, <4>1
      <4>2. CASE i # n
        BY <3>2, <3>3, <4>2
      <4> QED
        BY <4>1, <4>2
    <3> QED
      BY <3>2, <3>3
  <2> QED
    BY <2>1, <2>2
<1> QED
  BY <1>2, <1>3, <1>4 DEF PlacedWereVisited

FrameWith(f, u, k) == [f EXCEPT !.defs = u, !.next = k]

\* The frame of a visit with another table.
LEMMA FrameChanged ==
    ASSUME NEW f \in Frames, NEW u \in Seq(Def), NEW k \in Nat
    PROVE  /\ FrameWith(f, u, k) \in Frames /\ FrameWith(f, u, k).class = f.class
           /\ FrameWith(f, u, k).next = k /\ FrameWith(f, u, k).defs = u
BY DEF Frames, FrameWith

\* A definition gets its location and its place in the table.
LEMMA PlaceStep ==
    ASSUME program \in Programs, OverridesInvariant, TablesInvariant, StackInvariant, VisitsInvariant,
           stage = "locations", visiting # << >>, program' = program, overriden' = overriden,
           visited' = visited, tables' = tables,
           NEW n, n = Len(visiting),
           NEW f, f = Top, f.next \in 1..Len(DefsOf(f.class)),
           NEW d, d = DefsOf(f.class)[f.next], ClassesIn(d) \subseteq visited,
           NEW v, v = LocationFor(d), v # 0, location' = [location EXCEPT ![d] = v],
           NEW g, g = FrameWith(f, Put(f.defs, v, d), f.next + 1),
           visiting' = [visiting EXCEPT ![n] = g]
    PROVE  TablesInvariant' /\ StackInvariant' /\ StackVisited' /\ VisitedSettled'
<1>2. n \in Nat /\ n > 0 /\ n \in 1..n /\ f = visiting[n]
  BY StackFacts
<1>4. /\ f \in Frames /\ f.class \in Class /\ f.next \in Nat /\ Len(DefsOf(f.class)) \in Nat
      /\ d \in Def /\ OwnerOf(d) = f.class /\ location[d] = 0
      /\ \A h : h.class = f.class /\ h.next = f.next + 1 =>
            /\ Own(h) = Own(f) \cup {d}
            /\ Inherited(f.class) \cup Own(h) = (Inherited(f.class) \cup Own(f)) \cup {d}
      /\ \A e \in Inherited(f.class) \cup Own(f) : NearerThan(d, e)
      /\ IsTable(f.defs, Inherited(f.class) \cup Own(f))
  <2>1. AtDef(f, d)
    BY VisitDefFacts
  <2> QED
    BY <2>1 DEF AtDef
<1>5. PICK t : t = f.defs
  OBVIOUS
<1>6. PICK D : D = Inherited(f.class) \cup Own(f)
  OBVIOUS
<1>7. location \in [Def -> Nat]
  BY DEF TablesInvariant
<1>8. D \in SUBSET Def /\ t \in Seq(Def) /\ Len(t) \in Nat
  <2>1. Inherited(f.class) \in SUBSET Def
    BY <1>4, InheritedIs
  <2>2. Own(f) \in SUBSET Def
    <3>1. f.next <= Len(DefsOf(f.class)) + 1
      BY <1>4
    <3> QED
      BY <1>4, <3>1, OwnIs
  <2>3. t \in Seq(Def)
    BY <1>4, <1>5 DEF Frames
  <2> QED
    BY <1>6, <2>1, <2>2, <2>3
<1>9. DefsIn(Lineage(f.class)) = Inherited(f.class) \cup DefsIn({f.class})
  BY <1>4, InheritedIs
<1>10. \/ Root(d) = d /\ v = Len(t) + 1
       \/ Root(d) \in D /\ v = location[Root(d)]
  <2>1. CASE ~ program.defs[d].redef
    BY <1>4, <1>5, <2>1, RootFound DEF LocationFor
  <2>2. CASE program.defs[d].redef
    <3>1. PICK r : r = overriden[d]
      OBVIOUS
    <3>2. r # 0 /\ OverrideFound(d)
      BY <1>4, <2>2, <3>1 DEF OverridesInvariant, Redefinitions
    <3>3. r \in Def /\ OwnerOf(r) \in Lineage(f.class)
      BY <1>4, <3>1, <3>2 DEF OverrideFound
    <3>4. Root(d) = r /\ v = location[r]
      BY <2>2, <3>1, <3>2 DEF Root, LocationFor
    <3>5. ASSUME OwnerOf(r) = f.class PROVE r \in Own(f)
      BY <1>2, <3>3, <3>4, <3>5 DEF TablesInvariant, PlacedWereVisited
    <3> QED
      BY <1>6, <1>9, <3>3, <3>4, <3>5 DEF DefsIn
  <2> QED
    BY <2>1, <2>2
<1>11. v \in Nat
  <2>1. Root(d) \in Def
    BY <1>4, RootFound
  <2> QED
    BY <1>7, <1>8, <1>10, <2>1
<1>12. Put(t, v, d) \in Seq(Def)
  <2>1. v > Len(t) \/ v \in 1..Len(t)
    BY <1>8, <1>11
  <2> QED
    BY <1>4, <1>8, <2>1 DEF Put
<1>13. g \in Frames /\ g.class = f.class /\ g.next = f.next + 1 /\ g.defs = Put(t, v, d)
  <2>1. PICK u : u = Put(t, v, d)
    OBVIOUS
  <2>2. PICK k : k = f.next + 1
    OBVIOUS
  <2>3. g = FrameWith(f, u, k)
    BY <1>5, <2>1, <2>2
  <2>4. f \in Frames /\ u \in Seq(Def) /\ k \in Nat
    BY <1>4, <1>12, <2>1, <2>2
  <2>5. /\ FrameWith(f, u, k) \in Frames /\ FrameWith(f, u, k).class = f.class
        /\ FrameWith(f, u, k).next = k /\ FrameWith(f, u, k).defs = u
    BY <2>4, FrameChanged, Zenon
  <2> QED
    BY <2>1, <2>2, <2>3, <2>5
<1>14. /\ Own(g) = Own(f) \cup {d}
       /\ Inherited(g.class) \cup Own(g) = D \cup {d}
  BY <1>4, <1>6, <1>13
<1>15. /\ StackInvariant' /\ StackVisited' /\ VisitedSettled'
       /\ Len(visiting') = n /\ visiting'[n] = g
       /\ \A i \in 1..n : i # n => visiting'[i] = visiting[i]
  <2>1. g.next <= Len(DefsOf(g.class)) + 1
    BY <1>4, <1>13
  <2>2. g \in Frames /\ g.class = Top.class
    BY <1>13
  <2> QED
    BY <2>1, <2>2, TopChanged
<1>16. IsTable(Put(t, v, d), D \cup {d})'
  <2>1. IsTable(t, D) /\ \A e \in D : NearerThan(d, e)
    BY <1>4, <1>5, <1>6
  <2> QED
    BY <1>4, <1>7, <1>8, <1>10, <1>11, <2>1, PlacedTable
<1>17. \A u : \A E \in SUBSET Def : IsTable(u, E) => IsTable(u, E)'
  BY <1>4, <1>7, <1>11, KeptTable
<1>18. FramesAreTables'
  <2>1. PICK E : E = D \cup {d}
    OBVIOUS
  <2>2. IsTable(g.defs, E)' /\ E = Inherited(g.class) \cup Own(g)
    BY <1>13, <1>14, <1>16, <2>1
  <2>3. TopBecomes(g, n) /\ TablesStay
    BY <1>2, <1>15, <1>17 DEF TopBecomes, TablesStay
  <2> QED
    BY <2>2, <2>3, FramesPlaced
<1>19. PlacedWereVisited'
  <2>1. OnlyPlaces(d)
    BY <1>7 DEF OnlyPlaces
  <2>2. TopBecomes(g, n)
    BY <1>2, <1>15 DEF TopBecomes
  <2>3. /\ d \in Def /\ OwnerOf(d) = f.class /\ g.class = f.class /\ f = visiting[n]
        /\ Own(g) = Own(f) \cup {d}
    BY <1>2, <1>4, <1>13, <1>14
  <2> QED
    BY <2>1, <2>2, <2>3, PlacesKept
<1>20. /\ Class' = Class /\ Def' = Def /\ \A c : Lineage(c)' = Lineage(c)
  BY SameProgram
<1>21. \A c : DefsIn(Lineage(c))' = DefsIn(Lineage(c))
  BY <1>20 DEF DefsIn, Def, OwnerOf
<1>22. TablesAreTables'
  <2>1. ASSUME NEW c \in Class, tables[c] # << >>,
               NEW u, u = tables[c][1], NEW E, E = DefsIn(Lineage(c))
        PROVE  tables[c] = <<u>> /\ IsTable(u, E)'
    <3>1. tables[c] = <<u>> /\ IsTable(u, E)
      BY <2>1 DEF TablesInvariant, TablesAreTables
    <3>2. E \in SUBSET Def
      BY <2>1 DEF DefsIn
    <3> QED
      BY <1>17, <3>1, <3>2
  <2> QED
    BY <1>20, <1>21, <2>1 DEF TablesAreTables
<1>23. location' \in [Def -> Nat]
  BY <1>7, <1>11
<1>24. TablesInvariant'
  <2>1. DOMAIN tables = Class /\ tables = [c \in Class |-> tables[c]]
    BY DEF TablesInvariant
  <2> QED
    BY <1>18, <1>19, <1>20, <1>22, <1>23, <2>1 DEF TablesInvariant
<1> QED
  BY <1>15, <1>24

\* The classes inside a definition come first.
LEMMA VisitDefStep ==
    ASSUME program \in Programs, OverridesInvariant, TablesInvariant, StackInvariant, VisitsInvariant,
           VisitDef
    PROVE  TablesInvariant' /\ StackInvariant' /\ VisitsInvariant'
<1>1. PICK n : n = Len(visiting)
  OBVIOUS
<1>2. PICK f : f = Top
  OBVIOUS
<1>3. PICK d : d = DefsOf(f.class)[f.next]
  OBVIOUS
<1>4. PICK v : v = LocationFor(d)
  OBVIOUS
<1>5. PICK g : g = FrameWith(f, Put(f.defs, v, d), f.next + 1)
  OBVIOUS
<1>6. PICK inner : inner = ClassesIn(d) \ visited
  OBVIOUS
<1>7. PICK c : c = CHOOSE x \in inner : \A b \in inner : x <= b
  OBVIOUS
<1>8. /\ stage = "locations" /\ visiting # << >> /\ f.next \in 1..Len(DefsOf(f.class))
      /\ program' = program /\ checking' = checking /\ classesDone' = classesDone
      /\ overriden' = overriden
  BY <1>2 DEF VisitDef, AssigningDefs, checking
<1>9. \/ inner # {} /\ Visit(c) /\ UNCHANGED <<stage, tables, location>>
      \/ inner = {} /\ v = 0 /\ ReadUnset
      \/ /\ inner = {} /\ v # 0 /\ location' = [location EXCEPT ![d] = v]
         /\ visiting' = [visiting EXCEPT ![n] = g] /\ UNCHANGED <<stage, visited, tables>>
  BY <1>1, <1>2, <1>3, <1>4, <1>5, <1>6, <1>7 DEF VisitDef, SetTop, FrameWith
<1>10. /\ f \in Frames /\ f.class \in Class /\ f.next \in Nat /\ Len(DefsOf(f.class)) \in Nat
       /\ d \in Def /\ OwnerOf(d) = f.class /\ location[d] = 0
       /\ \A e \in Def : OwnerOf(e) = f.class /\ e \notin Own(f) => d <= e
       /\ IsTable(f.defs, Inherited(f.class) \cup Own(f))
  <2>1. AtDef(f, d)
    BY <1>2, <1>3, <1>8, VisitDefFacts
  <2> QED
    BY <2>1 DEF AtDef
<1>11. CASE inner # {} /\ Visit(c) /\ UNCHANGED <<stage, tables, location>>
  <2>1. c \in inner
    <3>1. inner \in SUBSET Nat
      BY <1>6 DEF ClassesIn, Class
    <3>2. \E x \in inner : \A b \in inner : x <= b
      BY <1>11, <3>1, LeastElement
    <3> QED
      BY <1>7, <3>2
  <2>2. c \in Class /\ c \notin visited /\ program.classes[c].method = d
    BY <1>6, <2>1 DEF ClassesIn
  <2>3. visiting' = Append(visiting, Frame(c)) /\ visited' = visited \cup {c}
    BY <1>11 DEF Visit
  <2>4. Awaits(f.class, c)
    <3>1. DefsOf(f.class) \in Seq(Def)
      BY DefsOfIs
    <3>2. d \in ToSet(DefsOf(f.class))
      BY <1>3, <1>8, <3>1 DEF ToSet
    <3> QED
      BY <2>2, <3>2 DEF Awaits
  <2>5. VisitsNext(f.class, c)
    BY <2>4 DEF VisitsNext
  <2>6. TablesInvariant' /\ StackInvariant' /\ StackVisited' /\ VisitedSettled'
    BY <1>2, <1>8, <1>11, <2>2, <2>3, <2>4, <2>5, PushedStep
  <2>7. VisitsInStage'
    BY <1>8, <1>11, <2>3, LocationsGoOn
  <2> QED
    BY <2>6, <2>7 DEF VisitsInvariant
<1>12. CASE inner = {} /\ v = 0 /\ ReadUnset
  <2>1. PICK r : r = overriden[d]
    OBVIOUS
  <2>2. program.defs[d].redef /\ location[r] = 0
    <3>1. Len(f.defs) \in Nat
      BY <1>10 DEF Frames
    <3> QED
      BY <1>2, <1>4, <1>12, <2>1, <3>1 DEF LocationFor
  <2>3. r # 0 /\ OverrideFound(d)
    BY <1>8, <1>10, <2>1, <2>2 DEF OverridesInvariant, Redefinitions
  <2>4. r \in Def /\ OwnerOf(r) \in Lineage(f.class) /\ ~ program.defs[r].redef
    BY <1>10, <2>1, <2>3 DEF OverrideFound
  <2>5. r \notin Inherited(f.class) /\ r \notin Own(f)
    <3>1. \A e \in Inherited(f.class) \cup Own(f) : location[e] # 0
      BY <1>10 DEF IsTable
    <3> QED
      BY <2>2, <3>1
  <2>6. OwnerOf(r) = f.class
    <3>1. DefsIn(Lineage(f.class)) = Inherited(f.class) \cup DefsIn({f.class})
      BY <1>10, InheritedIs
    <3> QED
      BY <2>4, <2>5, <3>1 DEF DefsIn
  <2>7. d <= r /\ r # d
    BY <1>10, <2>2, <2>4, <2>5, <2>6
  <2>8. ForwardOverride
    <3>1. overriden[d] > d
      BY <1>10, <2>1, <2>4, <2>7 DEF Def
    <3>2. program.defs[overriden[d]].owner = program.defs[d].owner
      BY <1>10, <2>1, <2>6 DEF OwnerOf
    <3> QED
      BY <1>10, <3>1, <3>2 DEF ForwardOverride
  <2> QED
    BY <1>8, <1>12, <2>8, Undefined DEF ReadUnset
<1>13. CASE /\ inner = {} /\ v # 0 /\ location' = [location EXCEPT ![d] = v]
            /\ visiting' = [visiting EXCEPT ![n] = g] /\ UNCHANGED <<stage, visited, tables>>
  <2>1. ClassesIn(d) \subseteq visited
    BY <1>6, <1>13
  <2>2. TablesInvariant' /\ StackInvariant' /\ StackVisited' /\ VisitedSettled'
    BY <1>1, <1>2, <1>3, <1>4, <1>5, <1>8, <1>13, <2>1, PlaceStep
  <2>3. VisitsInStage'
    BY <1>8, <1>13, LocationsGoOn
  <2> QED
    BY <2>2, <2>3 DEF VisitsInvariant
<1> QED
  BY <1>9, <1>11, <1>12, <1>13

\* A class gets its table.
LEMMA TableSet ==
    ASSUME TablesInvariant, program' = program, overriden' = overriden, location' = location,
           NEW c \in Class, NEW u, IsTable(u, DefsIn(Lineage(c))),
           tables' = [tables EXCEPT ![c] = <<u>>]
    PROVE  /\ TablesAreTables' /\ DOMAIN tables' = Class' /\ tables' = [b \in Class' |-> tables'[b]]
           /\ location' \in [Def' -> Nat]
           /\ tables'[c] = <<u>> /\ \A b \in Class : b # c => tables'[b] = tables[b]
<1>1. /\ Class' = Class /\ Def' = Def /\ \A b : Lineage(b)' = Lineage(b)
  BY SameProgram
<1>2. \A t, D : IsTable(t, D)' <=> IsTable(t, D)
  BY SameTable
<1>3. \A b : DefsIn(Lineage(b))' = DefsIn(Lineage(b))
  BY <1>1 DEF DefsIn, Def, OwnerOf
<1>4. DOMAIN tables = Class /\ tables = [b \in Class |-> tables[b]] /\ TablesAreTables
  BY DEF TablesInvariant
<1>5. tables'[c] = <<u>> /\ \A b \in Class : b # c => tables'[b] = tables[b]
  BY <1>4
<1>6. DOMAIN tables' = Class /\ tables' = [b \in Class |-> tables'[b]]
  BY <1>4
<1>7. ASSUME NEW b \in Class, tables'[b] # << >>, NEW t, t = tables'[b][1],
             NEW D, D = DefsIn(Lineage(b))
      PROVE  tables'[b] = <<t>> /\ IsTable(t, D)
  <2>1. CASE b = c
    <3>1. t = u
      BY <1>5, <1>7, <2>1
    <3> QED
      BY <1>5, <1>7, <2>1, <3>1
  <2>2. CASE b # c
    <3>1. tables'[b] = tables[b]
      BY <1>5, <2>2
    <3> QED
      BY <1>4, <1>7, <3>1 DEF TablesAreTables
  <2> QED
    BY <2>1, <2>2
<1>8. TablesAreTables'
  BY <1>1, <1>2, <1>3, <1>7 DEF TablesAreTables
<1>9. location' \in [Def' -> Nat]
  BY <1>1 DEF TablesInvariant
<1> QED
  BY <1>1, <1>5, <1>6, <1>8, <1>9

\* The visit on top is over.
Pops == visiting' = Front(visiting)
\* The visit of a class ends.
LEMMA Popped ==
    ASSUME program \in Programs, TablesInvariant, StackInvariant, VisitsInvariant,
           program' = program, overriden' = overriden, location' = location, visited' = visited,
           visiting # << >>, Pops, MembersOf(Top.class) \subseteq visited,
           tables'[Top.class] # << >>, \A b \in Class : b # Top.class => tables'[b] = tables[b]
    PROVE  /\ FramesAreTables' /\ PlacedWereVisited' /\ StackInvariant' /\ StackVisited'
           /\ VisitedSettled'
<1>1. PICK n : n = Len(visiting)
  OBVIOUS
<1>2. PICK c : c = Top.class
  OBVIOUS
<1>3. /\ visiting \in Seq(Frames) /\ n \in Nat /\ n > 0 /\ n \in 1..n
      /\ c = visiting[n].class /\ c \in Class /\ n - 1 \in Nat
      /\ \A i \in 1..(n - 1) : i \in 1..n /\ i # n
      /\ \A i \in 1..n : i # n => i \in 1..(n - 1)
  <2>1. visiting \in Seq(Frames)
    BY DEF StackInvariant, StackTyped, Frames
  <2>2. n \in Nat /\ n > 0 /\ n \in 1..n /\ c = visiting[n].class /\ c \in Class
    BY <1>1, <1>2, StackFacts
  <2> QED
    BY <2>1, <2>2
<1>4. /\ visiting' \in Seq(Frames) /\ Len(visiting') = n - 1
      /\ \A i \in 1..(n - 1) : visiting'[i] = visiting[i]
  <2>1. visiting' = SubSeq(visiting, 1, n - 1)
    BY <1>1 DEF Pops, Front
  <2>2. /\ SubSeq(visiting, 1, n - 1) \in Seq(Frames)
        /\ Len(SubSeq(visiting, 1, n - 1)) = n - 1
        /\ \A i \in 1..(n - 1) : SubSeq(visiting, 1, n - 1)[i] = visiting[i]
    BY <1>1, <1>3, FrontOfSeq
  <2> QED
    BY <2>1, <2>2
<1>5. /\ Class' = Class /\ Def' = Def
      /\ \A b : DefsOf(b)' = DefsOf(b) /\ MembersOf(b)' = MembersOf(b)
      /\ \A d : OwnerOf(d)' = OwnerOf(d) /\ ClassesIn(d)' = ClassesIn(d)
  BY SameProgram
<1>6. /\ \A x : FrameIsTable(x)' <=> FrameIsTable(x)
      /\ \A x : Own(x)' = Own(x)
  BY SameTable
<1>7. FramesAreTables'
  <2>1. ASSUME NEW i \in 1..(n - 1), NEW x, x = visiting'[i] PROVE FrameIsTable(x)
    <3>1. x = visiting[i] /\ i \in 1..n
      BY <1>3, <1>4, <2>1
    <3> QED
      BY <1>1, <3>1 DEF TablesInvariant, FramesAreTables
  <2> QED
    BY <1>4, <1>6, <2>1 DEF FramesAreTables
<1>8. PlacedWereVisited'
  <2>1. \A d \in Def : location[d] # 0 => OwnerOf(d) \in visited /\ ClassesIn(d) \subseteq visited
    BY DEF TablesInvariant, PlacedWereVisited
  <2>2. ASSUME NEW d \in Def, location[d] # 0, NEW i \in 1..(n - 1), NEW x, x = visiting'[i],
               x.class = OwnerOf(d)
        PROVE  d \in Own(x)
    <3>1. x = visiting[i] /\ i \in 1..n
      BY <1>3, <1>4, <2>2
    <3> QED
      BY <1>1, <2>2, <3>1 DEF TablesInvariant, PlacedWereVisited
  <2> QED
    BY <1>4, <1>5, <1>6, <2>1, <2>2 DEF PlacedWereVisited
<1>9. StackTyped'
  <2>1. \A i \in 1..(n - 1) : visiting[i].next <= Len(DefsOf(visiting[i].class)) + 1
    BY <1>1, <1>3 DEF StackInvariant, StackTyped
  <2>2. \A i, j \in 1..(n - 1) : visiting[i].class = visiting[j].class => i = j
    BY <1>1, <1>3 DEF StackInvariant, StackTyped
  <2> QED
    BY <1>4, <1>5, <2>1, <2>2 DEF StackTyped, Frames
<1>10. \A b \in Class : tables'[b] = << >> => b # c /\ tables[b] = << >>
  BY <1>2
<1>11. \A i \in 1..n : visiting[i].class \in Class
  <2>1. \A i \in 1..n : visiting[i] \in Frames
    BY <1>1, <1>3, ElementOfSeq
  <2> QED
    BY <2>1 DEF Frames
<1>12. StackLinked'
  <2>1. \A b, x : (Awaits(b, x)' <=> Awaits(b, x)) /\ (VisitsNext(b, x)' <=> VisitsNext(b, x))
    BY SameVisits
  <2>2. ASSUME NEW i \in 1..(n - 1), NEW j \in 1..(n - 1), j = i + 1
        PROVE  /\ VisitsNext(visiting[i].class, visiting[j].class)
               /\ tables'[visiting[i].class] = << >> => Awaits(visiting[i].class, visiting[j].class)
    <3>1. i \in 1..n /\ j \in 1..n
      BY <1>3
    <3>2. /\ VisitsNext(visiting[i].class, visiting[j].class)
          /\ tables[visiting[i].class] = << >> => Awaits(visiting[i].class, visiting[j].class)
      BY <1>1, <2>2, <3>1 DEF StackInvariant, StackLinked
    <3> QED
      BY <1>10, <1>11, <3>1, <3>2
  <2> QED
    BY <1>4, <2>1, <2>2 DEF StackLinked
<1>13. StackVisited'
  <2>1. visited \subseteq Class /\ \A i \in 1..n : visiting[i].class \in visited
    BY <1>1 DEF VisitsInvariant, StackVisited
  <2> QED
    BY <1>3, <1>4, <1>5, <2>1 DEF StackVisited
<1>14. VisitedSettled'
  <2>1. c \in visited
    BY <1>1, <1>3 DEF VisitsInvariant, StackVisited
  <2>2. \A b \in Class : tables'[b] # << >> => b \in visited
    BY <1>2, <2>1 DEF VisitsInvariant, VisitedSettled
  <2>3. visited \subseteq Class
    BY DEF VisitsInvariant, StackVisited
  <2>4. ASSUME NEW b \in visited, \A i \in 1..(n - 1) : visiting[i].class # b
        PROVE  tables'[b] # << >> /\ MembersOf(b) \subseteq visited
    <3>1. CASE b = c
      BY <1>2, <3>1
    <3>2. CASE b # c
      <4>1. \A i \in 1..n : visiting[i].class # b
        BY <1>3, <2>4, <3>2
      <4>2. tables[b] # << >> /\ MembersOf(b) \subseteq visited
        BY <1>1, <4>1 DEF VisitsInvariant, VisitedSettled
      <4> QED
        BY <1>2, <2>3, <3>2, <4>2
    <3> QED
      BY <3>1, <3>2
  <2> QED
    BY <1>4, <1>5, <2>2, <2>4 DEF VisitedSettled
<1> QED
  BY <1>7, <1>8, <1>9, <1>12, <1>13, <1>14 DEF StackInvariant

\* The table of a class is the one that was built.
LEMMA EndVisitStep ==
    ASSUME program \in Programs, OverridesInvariant, TablesInvariant, StackInvariant, VisitsInvariant,
           EndVisit
    PROVE  TablesInvariant' /\ StackInvariant' /\ VisitsInvariant'
<1>1. PICK f : f = Top
  OBVIOUS
<1>2. PICK c : c = f.class
  OBVIOUS
<1>3. PICK inner : inner = MembersOf(c) \ visited
  OBVIOUS
<1>4. PICK b : b = CHOOSE x \in inner : \A a \in inner : x <= a
  OBVIOUS
<1>5. PICK u : u = f.defs
  OBVIOUS
<1>6. /\ stage = "locations" /\ stage' = stage /\ visiting # << >>
      /\ f.next = Len(DefsOf(c)) + 1
      /\ program' = program /\ checking' = checking /\ classesDone' = classesDone
      /\ overriden' = overriden /\ location' = location
      /\ tables' = [tables EXCEPT ![c] = <<u>>]
  BY <1>1, <1>2, <1>5 DEF EndVisit, AssigningDefs, checking
<1>7. \/ inner = {} /\ visiting' = Front(visiting) /\ visited' = visited
      \/ inner # {} /\ visiting' = Append(visiting, Frame(b)) /\ visited' = visited \cup {b}
  BY <1>1, <1>2, <1>3, <1>4 DEF EndVisit, Visit
<1>8. /\ f \in Frames /\ c \in Class /\ f.next \in Nat /\ Len(DefsOf(c)) \in Nat
      /\ Len(visiting) \in 1..Len(visiting) /\ f = visiting[Len(visiting)]
  BY <1>1, <1>2, <1>6, StackFacts
<1>9. IsTable(u, DefsIn(Lineage(c)))
  <2>1. Own(f) = DefsIn({c})
    <3>1. f.next <= Len(DefsOf(f.class)) + 1
      BY <1>2, <1>6, <1>8
    <3> QED
      BY <1>2, <1>6, <1>8, <3>1, OwnIs
  <2>2. DefsIn(Lineage(c)) = Inherited(c) \cup DefsIn({c})
    BY <1>8, InheritedIs
  <2>3. FrameIsTable(f)
    BY <1>8 DEF TablesInvariant, FramesAreTables
  <2> QED
    <3>1. f.next # 0
      BY <1>6, <1>8
    <3>2. Inherited(f.class) \cup Own(f) = DefsIn(Lineage(c))
      BY <1>2, <2>1, <2>2
    <3>3. IsTable(f.defs, Inherited(f.class) \cup Own(f))
      BY <2>3, <3>1 DEF FrameIsTable
    <3> QED
      BY <1>5, <3>2, <3>3
<1>10. /\ TablesAreTables' /\ DOMAIN tables' = Class' /\ tables' = [x \in Class' |-> tables'[x]]
       /\ location' \in [Def' -> Nat]
       /\ tables'[c] = <<u>> /\ \A x \in Class : x # c => tables'[x] = tables[x]
  BY <1>6, <1>8, <1>9, TableSet
<1>11. tables'[c] # << >> /\ \A x \in Class : x # c => tables'[x] = tables[x]
  BY <1>10
<1>12. CASE inner = {} /\ visiting' = Front(visiting) /\ visited' = visited
  <2>1. MembersOf(c) \subseteq visited
    BY <1>3, <1>12
  <2>2. c = Top.class
    BY <1>1, <1>2
  <2>3. /\ FramesAreTables' /\ PlacedWereVisited' /\ StackInvariant' /\ StackVisited'
        /\ VisitedSettled'
    BY <1>6, <1>11, <1>12, <2>1, <2>2, Popped DEF Pops
  <2>4. VisitsInStage'
    BY <1>6, <1>12, LocationsGoOn
  <2> QED
    BY <1>10, <2>3, <2>4 DEF TablesInvariant, VisitsInvariant
<1>13. CASE inner # {} /\ visiting' = Append(visiting, Frame(b)) /\ visited' = visited \cup {b}
  <2>1. b \in inner
    <3>1. inner \in SUBSET Nat
      BY <1>3 DEF MembersOf, Class
    <3>2. \E x \in inner : \A a \in inner : x <= a
      BY <1>13, <3>1, LeastElement
    <3> QED
      BY <1>4, <3>2
  <2>2. b \in Class /\ b \notin visited /\ b \in MembersOf(c)
    BY <1>3, <2>1 DEF MembersOf
  <2>3. VisitsNext(c, b) /\ c = Top.class
    BY <1>1, <1>2, <2>2 DEF VisitsNext
  <2>4. \A x \in Class : tables[x] # << >> => tables'[x] # << >>
    BY <1>11
  <2>5. Len(visiting) > 0 => /\ VisitsNext(Top.class, b)
                             /\ tables'[Top.class] = << >> => Awaits(Top.class, b)
    BY <1>11, <2>3
  <2>6. /\ FramesAreTables' /\ PlacedWereVisited' /\ StackInvariant' /\ StackVisited'
        /\ Len(visiting) \in Nat /\ Len(visiting') = Len(visiting) + 1
        /\ visiting'[Len(visiting) + 1].class = b
        /\ \A i \in 1..Len(visiting) : visiting'[i] = visiting[i]
    BY <1>6, <1>13, <2>2, <2>4, <2>5, Pushed
  <2>7. c \in visited /\ visited \subseteq Class
    BY <1>2, <1>8 DEF VisitsInvariant, StackVisited
  <2>8. Class' = Class /\ \A x : MembersOf(x)' = MembersOf(x)
    BY <1>6, SameProgram
  <2>9. \A x \in Class : tables'[x] # << >> => x \in visited'
    BY <1>11, <1>13, <2>7 DEF VisitsInvariant, VisitedSettled
  <2>10. ASSUME NEW x \in visited', \A i \in 1..(Len(visiting) + 1) : visiting'[i].class # x
         PROVE  tables'[x] # << >> /\ MembersOf(x) \subseteq visited'
    <3>1. Len(visiting) + 1 \in 1..(Len(visiting) + 1)
      BY <2>6
    <3>2. x \in visited /\ x \in Class
      BY <1>13, <2>6, <2>7, <2>10, <3>1
    <3>3. \A i \in 1..Len(visiting) : i \in 1..(Len(visiting) + 1)
      BY <2>6
    <3>4. \A i \in 1..Len(visiting) : visiting[i].class # x
      BY <2>6, <2>10, <3>3
    <3>5. tables[x] # << >> /\ MembersOf(x) \subseteq visited
      BY <3>2, <3>4 DEF VisitsInvariant, VisitedSettled
    <3> QED
      BY <1>13, <2>4, <3>2, <3>5
  <2>11. VisitedSettled'
    BY <2>6, <2>8, <2>9, <2>10 DEF VisitedSettled
  <2>12. VisitsInStage'
    BY <1>6, <1>13, LocationsGoOn
  <2> QED
    BY <1>10, <2>6, <2>11, <2>12 DEF TablesInvariant, VisitsInvariant
<1> QED
  BY <1>7, <1>12, <1>13

\* The classes are visited in the order of their declarations, and what is
\* declared inside one, or inside a method, with it.
LEMMA AllVisited ==
    ASSUME program \in Programs, TablesInvariant, VisitsInvariant, visiting = << >>,
           stage = "locations", classesDone = Len(program.classes)
    PROVE  visited = Class
<1>1. visited \subseteq Class
  BY DEF VisitsInvariant, StackVisited
<1> SUFFICES ASSUME Class \ visited # {} PROVE FALSE
  BY <1>1
<1>2. PICK c \in Class \ visited : \A b \in Class \ visited : c <= b
  <2>1. Class \ visited \in SUBSET Nat
    BY DEF Class
  <2> QED
    BY <2>1, LeastElement
<1>3. c \in Nat /\ \A b \in Class : b < c => b \in visited
  BY <1>2 DEF Class
<1>4. \A b \in visited : tables[b] # << >> /\ MembersOf(b) \subseteq visited
  BY DEF VisitsInvariant, VisitedSettled
<1>5. CASE program.classes[c].outer # 0
  <2>1. PICK b : b = program.classes[c].outer
    OBVIOUS
  <2>2. b \in Class /\ b < c
    <3>1. b \in 0..(c - 1) /\ b # 0
      BY <1>2, <1>5, <2>1, ProgramFacts
    <3> QED
      BY <1>2, <3>1 DEF Class
  <2>3. c \in MembersOf(b)
    BY <1>2, <2>1 DEF MembersOf
  <2> QED
    BY <1>2, <1>3, <1>4, <2>2, <2>3
<1>6. CASE program.classes[c].method # 0
  <2>1. PICK m : m = program.classes[c].method
    OBVIOUS
  <2>2. PICK b : b = OwnerOf(m)
    OBVIOUS
  <2>3. m \in Def /\ b \in Class /\ b < c
    BY <1>2, <1>6, <2>1, <2>2, ProgramFacts
  <2>4. tables[b] # << >>
    BY <1>3, <1>4, <2>3
  <2>5. IsTable(tables[b][1], DefsIn(Lineage(b)))
    BY <2>3, <2>4 DEF TablesInvariant, TablesAreTables
  <2>6. m \in DefsIn(Lineage(b))
    BY <2>2, <2>3, LineageClosed DEF DefsIn
  <2>7. location[m] # 0
    BY <2>5, <2>6 DEF IsTable
  <2>8. ClassesIn(m) \subseteq visited
    BY <2>3, <2>7 DEF TablesInvariant, PlacedWereVisited
  <2> QED
    BY <1>2, <2>1, <2>8 DEF ClassesIn
<1>7. c \in 1..classesDone
  BY <1>2 DEF Class
<1> QED
  BY <1>2, <1>5, <1>6, <1>7 DEF VisitsInvariant, VisitsInStage

\* Steps that assign nothing.
LEMMA VisitsKept ==
    ASSUME VisitsInvariant, program' = program, assigning' = assigning, VisitsInStage'
    PROVE  VisitsInvariant'
<1>1. visiting' = visiting /\ visited' = visited /\ tables' = tables
  BY DEF assigning
<1>2. Class' = Class /\ \A b : MembersOf(b)' = MembersOf(b)
  BY SameProgram
<1> QED
  BY <1>1, <1>2 DEF VisitsInvariant, StackVisited, VisitedSettled

\* Type checking assigns nothing.
LEMMA CheckingSteps ==
    ASSUME program \in Programs, TablesInvariant, StackInvariant, VisitsInvariant,
           (\E d \in Def : CheckDef(d)) \/ CheckClass \/ StartOverriding \/ Override \/ EndChecking
    PROVE  TablesInvariant' /\ StackInvariant' /\ VisitsInvariant'
<1>1. /\ program' = program /\ assigning' = assigning /\ stage \in {"definitions", "overrides"}
      /\ \/ stage' \in {"definitions", "overrides", "rejected"}
         \/ stage' = "locations" /\ classesDone' = 0
  BY DEF CheckDef, CheckClass, StartOverriding, Override, EndChecking
<1>2. visited = {} /\ visited' = visited /\ visiting' = visiting
  BY <1>1 DEF VisitsInvariant, VisitsInStage, assigning
<1>3. TablesInvariant' /\ StackInvariant'
  BY <1>1, <1>2, NothingAssigned
<1>4. VisitsInStage'
  <2>1. classesDone' = 0 => \A c \in 1..classesDone' : FALSE
    OBVIOUS
  <2> QED
    BY <1>1, <1>2, <2>1 DEF VisitsInStage
<1> QED
  BY <1>1, <1>3, <1>4, VisitsKept

\* Nor does the backend.
LEMMA GeneratingSteps ==
    ASSUME program \in Programs, TablesInvariant, StackInvariant, VisitsInvariant,
           StartGeneration \/ GenerateClass \/ EndGeneration \/ UNCHANGED vars
    PROVE  TablesInvariant' /\ StackInvariant' /\ VisitsInvariant'
<1>1. program' = program /\ assigning' = assigning /\ overriden' = overriden
  BY DEF StartGeneration, GenerateClass, EndGeneration, vars, checking
<1>2. TablesInvariant' /\ StackInvariant'
  BY <1>1, AssigningKept
<1>3. visited' = visited /\ visiting' = visiting /\ Class' = Class
  BY <1>1, SameProgram DEF assigning
<1>4. CASE StartGeneration
  <2>1. stage = "locations" /\ visiting = << >> /\ stage' = "backend" /\ visited = Class
    BY <1>4, AllVisited DEF StartGeneration
  <2> QED
    BY <1>1, <1>2, <1>3, <2>1, VisitsKept DEF VisitsInStage
<1>5. CASE GenerateClass \/ EndGeneration
  <2>1. visiting = << >> /\ visited = Class /\ stage' \in {"backend", "generated"}
    BY <1>5 DEF GenerateClass, EndGeneration, VisitsInvariant, VisitsInStage
  <2> QED
    BY <1>1, <1>2, <1>3, <2>1, VisitsKept DEF VisitsInStage
<1>6. CASE UNCHANGED vars
  <2>1. stage' = stage /\ classesDone' = classesDone
    BY <1>6 DEF vars
  <2>2. (InsideItsParent' <=> InsideItsParent) /\ (ForwardOverride' <=> ForwardOverride)
    BY <1>1, SameVisits
  <2>3. VisitsInStage'
    BY <1>1, <1>3, <2>1, <2>2 DEF VisitsInvariant, VisitsInStage
  <2> QED
    BY <1>1, <1>2, <2>3, VisitsKept
<1> QED
  BY <1>4, <1>5, <1>6

\* The methods of a class in the backend are those of its table.
LEMMA MethodsStep ==
    ASSUME program \in Programs, OverridesInvariant, MethodsInvariant, program' = program, [Next]_vars
    PROVE  MethodsInvariant'
<1>1. Class' = Class /\ classesDone \in Nat
  BY SameProgram, ProgramFacts DEF OverridesInvariant
<1>2. ASSUME methods' = methods, stage' \notin {"backend", "generated"} PROVE MethodsInvariant'
  BY <1>1, <1>2 DEF MethodsInvariant
<1>3. ASSUME tables' = tables, NEW c PROVE EntriesOf(c)' = EntriesOf(c)
  BY <1>3 DEF EntriesOf
<1>4. CASE GenerateClass
  <2>1. PICK c : c = classesDone + 1
    OBVIOUS
  <2>2. PICK m : m = <<EntriesOf(c)>>
    OBVIOUS
  <2>3. /\ methods' = [methods EXCEPT ![c] = m] /\ tables' = tables
        /\ stage = "backend" /\ stage' = stage /\ classesDone' = classesDone + 1
    BY <1>4, <2>1, <2>2 DEF GenerateClass, assigning, EntriesOf
  <2>4. DOMAIN methods' = Class /\ \A b \in Class : methods'[b] = IF b = c THEN m ELSE methods[b]
    BY <2>3 DEF MethodsInvariant
  <2>5. ASSUME NEW b \in Class, b <= classesDone + 1 PROVE methods'[b] = <<EntriesOf(b)>>
    <3>1. CASE b = c
      BY <2>2, <2>4, <3>1
    <3>2. CASE b # c
      <4>1. b <= classesDone
        BY <1>1, <2>1, <2>5, <3>2 DEF Class
      <4> QED
        BY <2>3, <2>4, <3>2, <4>1 DEF MethodsInvariant
    <3> QED
      BY <3>1, <3>2
  <2>6. \A b : EntriesOf(b)' = EntriesOf(b)
    BY <1>3, <2>3
  <2> QED
    BY <1>1, <2>3, <2>4, <2>5, <2>6 DEF MethodsInvariant
<1>5. CASE EndGeneration
  <2>1. /\ methods' = methods /\ tables' = tables /\ stage = "backend"
        /\ \A c \in Class : c <= classesDone
    BY <1>5 DEF EndGeneration, assigning, Class
  <2>2. \A b : EntriesOf(b)' = EntriesOf(b)
    BY <1>3, <2>1
  <2> QED
    BY <1>1, <2>1, <2>2 DEF MethodsInvariant
<1>6. CASE StartGeneration
  <2>1. methods' = methods /\ stage' = "backend" /\ classesDone' = 0
    BY <1>6 DEF StartGeneration
  <2>2. \A c \in Class : ~ (c <= 0)
    BY DEF Class
  <2> QED
    BY <1>1, <2>1, <2>2 DEF MethodsInvariant
<1>7. CASE UNCHANGED vars
  <2>1. methods' = methods /\ tables' = tables /\ stage' = stage /\ classesDone' = classesDone
    BY <1>7 DEF vars, assigning
  <2>2. \A b : EntriesOf(b)' = EntriesOf(b)
    BY <1>3, <2>1
  <2> QED
    BY <1>1, <2>1, <2>2 DEF MethodsInvariant
<1>8. CASE (\E d \in Def : CheckDef(d)) \/ CheckClass \/ StartOverriding \/ Override \/ EndChecking
  BY <1>2, <1>8 DEF CheckDef, CheckClass, StartOverriding, Override, EndChecking
<1>9. CASE VisitNextClass \/ VisitParent \/ VisitDef \/ EndVisit
  BY <1>2, <1>9 DEF VisitNextClass, VisitParent, VisitDef, EndVisit, AssigningDefs, ReadUnset
<1> QED
  BY <1>4, <1>5, <1>6, <1>7, <1>8, <1>9 DEF Next, Ended

\* Before anything is assigned.
LEMMA AssignedInit ==
    ASSUME Init
    PROVE  TablesInvariant /\ StackInvariant /\ VisitsInvariant /\ MethodsInvariant
<1>1. /\ stage = "definitions" /\ classesDone = 0 /\ visiting = << >> /\ visited = {}
      /\ tables = [c \in Class |-> << >>] /\ location = [d \in Def |-> 0]
      /\ methods = [c \in Class |-> << >>]
  BY DEF Init
<1>2. /\ \A i \in 1..Len(visiting) : FALSE
      /\ \A c \in Class : tables[c] = << >>
      /\ \A d \in Def : location[d] = 0
  BY <1>1
<1>3. TablesInvariant
  BY <1>1, <1>2 DEF TablesInvariant, TablesAreTables, FramesAreTables, PlacedWereVisited
<1>4. StackInvariant
  <2>1. visiting \in Seq([class : Class, defs : Seq(Def), next : Nat])
    BY <1>1
  <2> QED
    BY <1>2, <2>1 DEF StackInvariant, StackTyped, StackLinked
<1>5. VisitsInvariant
  BY <1>1, <1>2 DEF VisitsInvariant, StackVisited, VisitedSettled, VisitsInStage
<1>6. MethodsInvariant
  BY <1>1 DEF MethodsInvariant
<1> QED
  BY <1>3, <1>4, <1>5, <1>6

\* The invariant holds at first.
LEMMA InvariantInit == Init => DispatchInvariant
<1> SUFFICES ASSUME Init PROVE DispatchInvariant
  OBVIOUS
<1>1. program \in Programs
  BY DEF Init
<1> QED
  BY <1>1, OverridesInit, AssignedInit DEF DispatchInvariant

\* Every step keeps the invariant.
LEMMA InvariantStep == DispatchInvariant /\ [Next]_vars => DispatchInvariant'
<1> SUFFICES ASSUME DispatchInvariant, [Next]_vars PROVE DispatchInvariant'
  OBVIOUS
<1>1. /\ program \in Programs /\ OverridesInvariant /\ TablesInvariant /\ StackInvariant
      /\ VisitsInvariant /\ MethodsInvariant
  BY DEF DispatchInvariant
<1>2. program' = program /\ OverridesInvariant'
  BY <1>1, OverridesStep
<1>3. MethodsInvariant'
  BY <1>1, <1>2, MethodsStep
<1>4. TablesInvariant' /\ StackInvariant' /\ VisitsInvariant'
  <2>1. CASE (\E d \in Def : CheckDef(d)) \/ CheckClass \/ StartOverriding \/ Override \/ EndChecking
    BY <1>1, <2>1, CheckingSteps
  <2>2. CASE StartGeneration \/ GenerateClass \/ EndGeneration \/ UNCHANGED vars
    BY <1>1, <2>2, GeneratingSteps
  <2>3. CASE VisitNextClass
    BY <1>1, <2>3, VisitNextClassStep
  <2>4. CASE VisitParent
    BY <1>1, <2>4, VisitParentStep
  <2>5. CASE VisitDef
    BY <1>1, <2>5, VisitDefStep
  <2>6. CASE EndVisit
    BY <1>1, <2>6, EndVisitStep
  <2> QED
    BY <2>1, <2>2, <2>3, <2>4, <2>5, <2>6 DEF Next, Ended
<1> QED
  BY <1>1, <1>2, <1>3, <1>4 DEF DispatchInvariant

\* The redefs, the tables and the order of the visits are, throughout the
\* passes, what the invariant says.
THEOREM InvariantHolds == Spec => []DispatchInvariant
<1>1. DispatchInvariant /\ UNCHANGED vars => DispatchInvariant'
  BY InvariantStep
<1> QED
  BY InvariantInit, InvariantStep, PTL DEF Spec

-----------------------------------------------------------------------------
(* What runs *)

\* At the location of a definition an object of a class that has it has the
\* nearest of those that override the same method.
LEMMA RunsNearest ==
    ASSUME DispatchInvariant, Generated, NEW c \in Class, NEW d \in DefsIn(Lineage(c))
    PROVE  \E e \in DefsIn(Lineage(c)) :
              /\ Root(e) = Root(d)
              /\ \A x \in DefsIn(Lineage(c)) : Root(x) = Root(d) => NearerThan(e, x)
              /\ DynamicMethodCall(c, d) = IF program.defs[e].abstract THEN 0 ELSE e
<1>1. PICK D : D = DefsIn(Lineage(c))
  OBVIOUS
<1>2. PICK t : t = tables[c][1]
  OBVIOUS
<1>3. tables[c] # << >>
  <2>1. visiting = << >> /\ visited = Class
    BY DEF DispatchInvariant, VisitsInvariant, VisitsInStage, Generated
  <2> QED
    BY <2>1 DEF DispatchInvariant, VisitsInvariant, VisitedSettled
<1>4. IsTable(t, D)
  BY <1>1, <1>2, <1>3 DEF DispatchInvariant, TablesInvariant, TablesAreTables
<1>5. PICK k : k = location[d]
  OBVIOUS
<1>6. /\ t \in Seq(D) /\ Len(t) \in Nat /\ k \in 1..Len(t) /\ t[k] \in D
      /\ Root(d) = Root(t[k])
  BY <1>1, <1>4, <1>5 DEF IsTable
<1>7. ASSUME NEW x \in D, Root(x) = Root(d) PROVE NearerThan(t[k], x)
  <2>1. location[x] = location[Root(x)] /\ location[d] = location[Root(d)]
    BY <1>1, <1>4 DEF IsTable
  <2> QED
    BY <1>4, <1>5, <1>6, <1>7, <2>1 DEF IsTable
<1>8. DynamicMethodCall(c, d) = IF program.defs[t[k]].abstract THEN 0 ELSE t[k]
  <2>1. methods[c] = <<EntriesOf(c)>>
    BY DEF DispatchInvariant, MethodsInvariant, Generated
  <2>2. methods[c][1] = EntriesOf(c)
    BY <2>1
  <2>3. DOMAIN t = 1..Len(t)
    BY <1>6
  <2> QED
    BY <1>2, <1>5, <1>6, <2>2, <2>3 DEF DynamicMethodCall, EntriesOf
<1> QED
  BY <1>1, <1>6, <1>7, <1>8

\* At the location of a method is the nearest definition.
LEMMA NearestRuns == DispatchInvariant => MostDerivedRuns
<1> SUFFICES ASSUME DispatchInvariant, Generated, NEW c \in Class, NEW d \in Def,
                    OwnerOf(d) \in Lineage(c), ~ program.defs[d].redef,
                    NEW same, same = {e \in Def : OwnerOf(e) \in Lineage(c) /\ Root(e) = d}
             PROVE  \E e \in same :
                       /\ \A x \in same : NearerThan(e, x)
                       /\ DynamicMethodCall(c, d) = IF program.defs[e].abstract THEN 0 ELSE e
  BY DEF MostDerivedRuns, OwnerOf
<1>1. d \in DefsIn(Lineage(c)) /\ same = {e \in DefsIn(Lineage(c)) : Root(e) = d}
  BY DEF DefsIn
<1>2. Root(d) = d
  BY RootFound DEF DispatchInvariant
<1> QED
  BY <1>1, <1>2, RunsNearest

-----------------------------------------------------------------------------
(* The choice between overloads *)

\* What is left of the candidates when their first n arguments were compared.
Left(r, scored, ts, n) ==
    /\ Distinct(r)
    /\ \A i \in 1..Len(r) : \E k \in 1..Len(scored) : r[i] = scored[k]
    /\ \A k \in 1..Len(scored) : (\A a \in 1..n : isSubTypeOf(ts[a], scored[k].def.args[a])) =>
          \E i \in 1..Len(r) : r[i] = scored[k]
    /\ Len(r) # 1 => \A i \in 1..Len(r), a \in 1..n : isSubTypeOf(ts[a], r[i].def.args[a])

\* Another argument is compared.
LEMMA LeftNext ==
    ASSUME NEW X, NEW scored \in Seq(X), NEW ts, NEW n \in Nat,
           NEW q \in Seq(X), Left(q, scored, ts, n), ~ (Len(q) = 1 /\ n + 1 > 1),
           NEW T, T = {s \in ToSet(scored) : isSubTypeOf(ts[n + 1], s.def.args[n + 1])}
    PROVE  Select(q, T) \in Seq(X) /\ Left(Select(q, T), scored, ts, n + 1)
<1>1. PICK r : r = Select(q, T)
  OBVIOUS
<1>2. /\ r \in Seq(X) /\ Len(r) \in Nat /\ Len(q) \in Nat
      /\ \A i \in 1..Len(r) : r[i] \in T /\ \E k \in 1..Len(q) : r[i] = q[k]
      /\ \A k \in 1..Len(q) : q[k] \in T => \E i \in 1..Len(r) : r[i] = q[k]
      /\ Distinct(q) => Distinct(r)
  <2>1. r \in Seq(X) /\ SelectedFrom(r, q, T)
    BY <1>1, SelectedIs
  <2> QED
    BY <2>1 DEF SelectedFrom
<1>3. /\ Distinct(q)
      /\ \A i \in 1..Len(q) : \E k \in 1..Len(scored) : q[i] = scored[k]
      /\ \A k \in 1..Len(scored) : (\A a \in 1..n : isSubTypeOf(ts[a], scored[k].def.args[a])) =>
            \E i \in 1..Len(q) : q[i] = scored[k]
      /\ Len(q) # 1 => \A i \in 1..Len(q), a \in 1..n : isSubTypeOf(ts[a], q[i].def.args[a])
  BY DEF Left
<1>4. \A i \in 1..Len(r) : \E k \in 1..Len(scored) : r[i] = scored[k]
  BY <1>2, <1>3
<1>5. ASSUME NEW k \in 1..Len(scored),
             \A a \in 1..(n + 1) : isSubTypeOf(ts[a], scored[k].def.args[a])
      PROVE  \E i \in 1..Len(r) : r[i] = scored[k]
  <2>1. n + 1 \in 1..(n + 1) /\ \A a \in 1..n : a \in 1..(n + 1)
    OBVIOUS
  <2>2. PICK i \in 1..Len(q) : q[i] = scored[k]
    BY <1>3, <1>5, <2>1
  <2>3. scored[k] \in ToSet(scored)
    BY DEF ToSet
  <2>4. q[i] \in T
    BY <1>5, <2>1, <2>2, <2>3
  <2> QED
    BY <1>2, <2>2, <2>4
<1>6. ASSUME NEW i \in 1..Len(r), NEW a \in 1..(n + 1)
      PROVE  isSubTypeOf(ts[a], r[i].def.args[a])
  <2>1. CASE a = n + 1
    BY <1>2, <2>1
  <2>2. CASE a # n + 1
    <3>1. a \in 1..n /\ n + 1 > 1
      BY <2>2
    <3>2. PICK k \in 1..Len(q) : r[i] = q[k]
      BY <1>2
    <3> QED
      BY <1>3, <3>1, <3>2
  <2> QED
    BY <2>1, <2>2
<1>7. Left(r, scored, ts, n + 1)
  BY <1>2, <1>3, <1>4, <1>5, <1>6 DEF Left
<1> QED
  BY <1>1, <1>2, <1>7

\* discardIncompatible leaves those that take the arguments, or a single one.
LEMMA Discarded ==
    ASSUME NEW X, NEW scored \in Seq(X), Distinct(scored), NEW ts \in Seq(Types)
    PROVE  /\ DiscardIncompatible(scored, ts) \in Seq(X)
           /\ Left(DiscardIncompatible(scored, ts), scored, ts, Len(ts))
<1> DEFINE Y == Seq(X)
           n == Len(ts)
           Fit(a) == {s \in ToSet(scored) : isSubTypeOf(ts[a], s.def.args[a])}
           e(k, q) == IF Len(q) = 1 /\ k > 1 THEN q ELSE Select(q, Fit(k))
           F == [kq \in (1..n) \X Y |-> e(kq[1], kq[2])]
           left[a \in 0..n] == IF a = 0 THEN scored
                               ELSE IF Len(left[a - 1]) = 1 /\ a > 1 THEN left[a - 1]
                               ELSE Select(left[a - 1], Fit(a))
<1>1. n \in Nat /\ scored \in Y
  OBVIOUS
<1>2. \A k \in 1..n, q \in Y : e(k, q) \in Y
  <2>1. ASSUME NEW q \in Seq(X), NEW T PROVE Select(q, T) \in Seq(X)
    BY Selected
  <2> HIDE DEF Fit
  <2> QED
    BY <2>1
<1>0. F \in Steps(n, Y)
  <2> HIDE DEF Y, e, n
  <2> QED
    BY <1>2 DEF Steps
<1>3. PICK g : Iterates(n, Y, F, scored, g)
  <2> HIDE DEF Y, F, n
  <2> QED
    BY <1>1, <1>0, Iteration
<1>4. g = [k \in 0..n |-> IF k = 0 THEN scored ELSE e(k, g[k - 1])]
  <2>1. g \in [0..n -> Y] /\ g[0] = scored
    BY <1>3 DEF Iterates
  <2>2. ASSUME NEW k \in 1..n PROVE g[k] = e(k, g[k - 1])
    <3> HIDE DEF Y, e, n
    <3>1. k - 1 \in 0..n
      BY <1>1
    <3>2. g[k] = F[<<k, g[k - 1]>>]
      <4> HIDE DEF F
      <4> QED
        BY <1>3 DEF Iterates
    <3> QED
      BY <2>1, <3>1, <3>2
  <2> HIDE DEF Y, e, n
  <2> QED
    BY <1>1, <2>1, <2>2
<1>5. left = [k \in 0..n |-> IF k = 0 THEN scored
                             ELSE IF Len(left[k - 1]) = 1 /\ k > 1 THEN left[k - 1]
                             ELSE Select(left[k - 1], Fit(k))]
  <2>1. g = [k \in 0..n |-> IF k = 0 THEN scored
                            ELSE IF Len(g[k - 1]) = 1 /\ k > 1 THEN g[k - 1]
                            ELSE Select(g[k - 1], Fit(k))]
    BY <1>4
  <2> HIDE DEF n, Fit
  <2> QED
    BY <2>1
<1>6. DiscardIncompatible(scored, ts) = left[n]
  BY DEF DiscardIncompatible
<1> HIDE DEF left
<1> DEFINE K == {k \in Nat : k <= n => left[k] \in Seq(X) /\ Left(left[k], scored, ts, k)}
<1>7. 0 \in K
  <2>1. left[0] = scored
    <3>1. 0 \in 0..n
      BY <1>1
    <3> HIDE DEF n
    <3> QED
      BY <3>1, <1>5
  <2>2. Left(scored, scored, ts, 0)
    BY DEF Left
  <2>3. left[0] \in Seq(X) /\ Left(left[0], scored, ts, 0)
    BY <2>1, <2>2
  <2> QED
    BY <2>3
<1>8. ASSUME NEW k \in Nat, k \in K PROVE k + 1 \in K
  <2> SUFFICES ASSUME k + 1 <= n
               PROVE  left[k + 1] \in Seq(X) /\ Left(left[k + 1], scored, ts, k + 1)
    OBVIOUS
  <2>1. PICK q : q = left[k]
    OBVIOUS
  <2>2. q \in Seq(X) /\ Left(q, scored, ts, k)
    BY <1>1, <1>8, <2>1
  <2>3. ASSUME NEW m \in 1..n, m - 1 = k PROVE left[m] = e(m, q)
    <3>1. m \in 0..n /\ m # 0
      BY <1>1
    <3> HIDE DEF n, Fit
    <3> QED
      BY <1>5, <2>1, <2>3, <3>1
  <2>4. left[k + 1] = e(k + 1, q)
    <3>1. k + 1 \in 1..n /\ k + 1 - 1 = k
      BY <1>1
    <3> HIDE DEF n, e
    <3> QED
      BY <2>3, <3>1
  <2>5. CASE Len(q) = 1 /\ k + 1 > 1
    <3>1. left[k + 1] = q
      BY <2>4, <2>5
    <3>2. Left(q, scored, ts, k + 1)
      <4>1. \A a \in 1..k : a \in 1..(k + 1)
        OBVIOUS
      <4> QED
        BY <2>2, <2>5, <4>1 DEF Left
    <3> QED
      BY <2>2, <3>1, <3>2
  <2>6. CASE ~ (Len(q) = 1 /\ k + 1 > 1)
    <3>1. PICK T : T = Fit(k + 1)
      OBVIOUS
    <3>2. left[k + 1] = Select(q, T)
      BY <2>4, <2>6, <3>1
    <3>3. T = {s \in ToSet(scored) : isSubTypeOf(ts[k + 1], s.def.args[k + 1])}
      BY <3>1
    <3> QED
      BY <2>2, <2>6, <3>2, <3>3, LeftNext
  <2> QED
    BY <2>5, <2>6
<1>9. \A k \in Nat : k \in K
  <2> HIDE DEF K
  <2> QED
    BY <1>7, <1>8, NumberInduction
<1> QED
  BY <1>1, <1>6, <1>9

Overloads(M) == \A m \in M : m.args \in Seq(Types) /\ m.redef \in BOOLEAN

\* cs has the definitions in all with n arguments, once each.
Candidates(cs, all, n) ==
    /\ Distinct(cs)
    /\ \A k \in 1..Len(cs) : cs[k] \in all /\ Len(cs[k].args) = n
    /\ \A m \in all : Len(m.args) = n => \E k \in 1..Len(cs) : cs[k] = m

\* A candidate that no other overrides is not hidden by a redef.
LEMMA ValidUnhidden ==
    ASSUME NEW M, Overloads(M), NEW all \in SUBSET M, NEW n, NEW cs \in Seq(M),
           Candidates(cs, all, n), NEW i \in 1..Len(cs), Valid(cs, i)
    PROVE  ~ Hidden(all, cs[i])
<1> SUFFICES ASSUME NEW r \in all, r # cs[i], r.redef, AllSubTypes(cs[i].args, r.args),
                    cs[i].redef => cs[i].args # r.args
             PROVE  FALSE
  BY DEF Hidden
<1>1. Len(cs[i].args) = n /\ Len(r.args) = n
  BY DEF Candidates, AllSubTypes
<1>2. PICK j \in 1..Len(cs) : cs[j] = r
  BY <1>1 DEF Candidates
<1>3. j # i /\ Redefs(cs, j, i)
  BY <1>2 DEF Redefs
<1>4. ~ Redefs(cs, i, j)
  <2> SUFFICES ASSUME cs[i].redef, AllSubTypes(r.args, cs[i].args) PROVE FALSE
    BY <1>2 DEF Redefs
  <2>1. cs[i].args \in Seq(Types) /\ r.args \in Seq(Types)
    BY DEF Overloads, Candidates
  <2>2. cs[i].args = r.args
    BY <2>1, ArgumentOrder
  <2> QED
    BY <2>2
<1> QED
  BY <1>3, <1>4 DEF Valid, Overrides

\* For one that is not hidden there is a candidate with the same arguments that
\* no other overrides.
LEMMA UnhiddenValid ==
    ASSUME NEW M, Overloads(M), NEW all \in SUBSET M, NEW n, NEW cs \in Seq(M),
           Candidates(cs, all, n), NEW d \in all, Len(d.args) = n, ~ Hidden(all, d)
    PROVE  \E i \in 1..Len(cs) : Valid(cs, i) /\ cs[i].args = d.args
<1>1. \A r \in all : ~ (r # d /\ r.redef /\ AllSubTypes(d.args, r.args) /\ (d.redef => d.args # r.args))
  BY DEF Hidden
<1>2. PICK k \in 1..Len(cs) : cs[k] = d
  BY DEF Candidates
<1>3. \A i \in 1..Len(cs) : cs[i] \in all /\ cs[i].args \in Seq(Types)
  BY DEF Candidates, Overloads
<1>4. CASE ~ d.redef
  <2>1. ASSUME NEW j \in 1..Len(cs) \ {k} PROVE ~ Overrides(cs, j, k)
    <3>1. cs[j] # d
      BY <1>2, <2>1 DEF Candidates, Distinct
    <3> QED
      BY <1>1, <1>2, <1>3, <1>4, <3>1 DEF Overrides, Redefs
  <2> QED
    BY <1>2, <2>1 DEF Valid
<1>5. CASE d.redef
  <2> DEFINE Same == {i \in 1..Len(cs) : cs[i].redef /\ cs[i].args = d.args}
  <2>1. PICK i \in Same : \A j \in Same : i <= j
    <3>1. k \in Same /\ Same \in SUBSET Nat
      BY <1>2, <1>5
    <3> HIDE DEF Same
    <3> QED
      BY <3>1, LeastElement
  <2>2. i \in 1..Len(cs) /\ cs[i].redef /\ cs[i].args = d.args
    OBVIOUS
  <2>3. ASSUME NEW j \in 1..Len(cs) \ {i}, Overrides(cs, j, i) PROVE FALSE
    <3>1. cs[j].redef /\ AllSubTypes(d.args, cs[j].args) /\ (j < i \/ ~ Redefs(cs, i, j))
      BY <2>2, <2>3 DEF Overrides, Redefs
    <3>2. CASE cs[j].args = d.args
      <4>1. i <= j /\ i # j
        BY <2>1, <3>1, <3>2
      <4>2. ~ (j < i)
        BY <2>2, <4>1
      <4>3. AllSubTypes(cs[j].args, cs[i].args)
        BY <1>3, <2>2, <3>2, ArgumentOrder
      <4> QED
        BY <2>2, <3>1, <4>2, <4>3 DEF Redefs
    <3>3. CASE cs[j].args # d.args
      BY <1>1, <1>3, <3>1, <3>3
    <3> QED
      BY <3>2, <3>3
  <2> QED
    BY <2>2, <2>3 DEF Valid
<1> QED
  BY <1>4, <1>5

\* A set with an image in another that leaves an element out is smaller.
LEMMA Fewer ==
    ASSUME NEW S, NEW T, IsFiniteSet(T), NEW f \in [S -> T],
           \A x, y \in S : f[x] = f[y] => x = y,
           NEW z \in T, \A x \in S : f[x] # z
    PROVE  Cardinality(S) \in Nat /\ Cardinality(T) \in Nat /\ Cardinality(S) < Cardinality(T)
<1>1. f \in Injection(S, T)
  BY DEF Injection, IsInjective
<1>2. /\ IsFiniteSet(S) /\ Cardinality(S) <= Cardinality(T)
      /\ Cardinality(S) = Cardinality(T) <=> f \in Surjection(S, T)
  BY <1>1, FS_Injection
<1>3. f \notin Surjection(S, T)
  BY DEF Surjection
<1>4. Cardinality(S) \in Nat /\ Cardinality(T) \in Nat
  BY <1>2, FS_CardinalityType
<1> QED
  BY <1>2, <1>3, <1>4

\* More specific arguments have a higher score.
LEMMA ScoreHigher ==
    ASSUME NEW M, Overloads(M), NEW cs \in Seq(M), NEW n \in Nat,
           \A k \in 1..Len(cs) : Len(cs[k].args) = n,
           NEW i \in 1..Len(cs), NEW j \in 1..Len(cs), cs[i].args # cs[j].args,
           AllSubTypes(cs[i].args, cs[j].args)
    PROVE  Score(cs, i) \in Nat /\ Score(cs, j) \in Nat /\ Score(cs, j) < Score(cs, i)
<1> DEFINE arg(k, a) == cs[k].args[a]
           P == (1..n) \X (1..Len(cs))
           S == {x \in P : x[2] # j /\ isSubTypeOf(arg(j, x[1]), arg(x[2], x[1]))}
           T == {x \in P : x[2] # i /\ isSubTypeOf(arg(i, x[1]), arg(x[2], x[1]))}
           f == [x \in S |-> <<x[1], IF x[2] = i THEN j ELSE x[2]>>]
<1>1. \A k \in 1..Len(cs) : cs[k].args \in Seq(Types) /\ Len(cs[k].args) = n
  BY DEF Overloads
<1>2. \A k \in 1..Len(cs), a \in 1..n : arg(k, a) \in Types
  BY <1>1
<1>3. i # j /\ \A a \in 1..n : isSubTypeOf(arg(i, a), arg(j, a))
  BY <1>1 DEF AllSubTypes
<1>4. PICK b \in 1..n : arg(i, b) # arg(j, b)
  <2>1. cs[i].args \in Seq(Types) /\ cs[j].args \in Seq(Types) /\ Len(cs[i].args) = Len(cs[j].args)
        /\ Len(cs[i].args) = n
    BY <1>1
  <2>2. ~ \A a \in 1..Len(cs[i].args) : cs[i].args[a] = cs[j].args[a]
    BY <2>1, SeqEqual
  <2> QED
    BY <2>1, <2>2
<1>5. Score(cs, j) = Cardinality(S) /\ Score(cs, i) = Cardinality(T)
  BY <1>1 DEF Score
<1> HIDE DEF arg
<1>6. IsFiniteSet(T)
  <2>1. 1 \in Int /\ n \in Int /\ Len(cs) \in Int
    OBVIOUS
  <2>2. IsFiniteSet(1..n) /\ IsFiniteSet(1..Len(cs))
    BY <2>1, FS_Interval, Zenon
  <2>3. IsFiniteSet(P)
    BY <2>2, FS_Product
  <2>4. T \in SUBSET P
    OBVIOUS
  <2> HIDE DEF T, P
  <2> QED
    BY <2>3, <2>4, FS_Subset
<1>7. ASSUME NEW x \in S PROVE f[x] \in T
  <2>1. PICK a \in 1..n, y \in 1..Len(cs) : x = <<a, y>>
    OBVIOUS
  <2>2. y # j /\ isSubTypeOf(arg(j, a), arg(y, a))
    BY <2>1
  <2>3. CASE y = i
    <3>1. f[x] = <<a, j>>
      BY <2>1, <2>3
    <3>2. <<a, j>> \in T
      BY <1>3
    <3> QED
      BY <3>1, <3>2
  <2>4. CASE y # i
    <3>1. f[x] = <<a, y>>
      BY <2>1, <2>4
    <3>2. isSubTypeOf(arg(i, a), arg(y, a))
      <4>1. isSubTypeOf(arg(i, a), arg(j, a)) /\ arg(i, a) \in Types /\ arg(j, a) \in Types /\ arg(y, a) \in Types
        BY <1>2, <1>3
      <4> QED
        BY <2>2, <4>1, SubTypeOrder
    <3>3. <<a, y>> \in T
      BY <2>4, <3>2
    <3> QED
      BY <3>1, <3>3
  <2> QED
    BY <2>3, <2>4
<1>8. ASSUME NEW x \in S, NEW y \in S, f[x] = f[y] PROVE x = y
  <2>1. PICK a \in 1..n, k \in 1..Len(cs) : x = <<a, k>>
    OBVIOUS
  <2>2. PICK c \in 1..n, m \in 1..Len(cs) : y = <<c, m>>
    OBVIOUS
  <2>3. k # j /\ m # j
    BY <2>1, <2>2
  <2>4. f[x] = <<a, IF k = i THEN j ELSE k>> /\ f[y] = <<c, IF m = i THEN j ELSE m>>
    BY <2>1, <2>2
  <2>5. a = c /\ (IF k = i THEN j ELSE k) = (IF m = i THEN j ELSE m)
    BY <1>8, <2>4
  <2> QED
    BY <2>1, <2>2, <2>3, <2>5
<1>9. <<b, j>> \in T
  BY <1>3
<1>10. ASSUME NEW x \in S PROVE f[x] # <<b, j>>
  <2>1. PICK a \in 1..n, k \in 1..Len(cs) : x = <<a, k>>
    OBVIOUS
  <2>2. k # j /\ isSubTypeOf(arg(j, a), arg(k, a))
    BY <2>1
  <2>3. f[x] = <<a, IF k = i THEN j ELSE k>>
    BY <2>1
  <2>4. ASSUME a = b, k = i PROVE FALSE
    <3>1. isSubTypeOf(arg(i, b), arg(j, b)) /\ arg(i, b) \in Types /\ arg(j, b) \in Types
      BY <1>2, <1>3
    <3>2. isSubTypeOf(arg(j, b), arg(i, b))
      BY <2>2, <2>4
    <3> QED
      BY <1>4, <3>1, <3>2, SubTypeOrder
  <2> QED
    BY <2>2, <2>3, <2>4
<1>11. f \in [S -> T]
  BY <1>7
<1> HIDE DEF f, S, T
<1>12. Cardinality(S) \in Nat /\ Cardinality(T) \in Nat /\ Cardinality(S) < Cardinality(T)
  BY <1>6, <1>8, <1>9, <1>10, <1>11, Fewer
<1> QED
  BY <1>5, <1>12

\* The definitions a call may choose, and what a choice must be.
Able(all, ts) == {d \in all : AllSubTypes(ts, d.args) /\ ~ Hidden(all, d)}
Answer(r) == r = [chosen |-> r.chosen, error |-> r.error]
Settles(r, all, ts) ==
    /\ Answer(r) /\ r.error \in BOOLEAN
    /\ r.error \/ \E x \in all : r.chosen = <<x>>
    /\ \A x : r.chosen = <<x>> => x \in all
    /\ r.chosen = << >> \/ \E x : r.chosen = <<x>>
    /\ \A x : ~ r.error /\ r.chosen = <<x>> /\ AllSubTypes(ts, x.args) =>
          /\ x \in Able(all, ts)
          /\ \A e \in Able(all, ts) : ~ Rivals(Able(all, ts), x, e)
    /\ \A d \in Able(all, ts) :
          (\A e \in Able(all, ts) \ {d} : Rivals(Able(all, ts), e, d)) => r = Chosen(d)

\* A choice and an error make an answer.
LEMMA AnswerIs ==
    ASSUME NEW c, NEW e
    PROVE  Answer([chosen |-> c, error |-> e])
  BY DEF Answer

\* One definition is chosen.
LEMMA ChosenSettles ==
    ASSUME NEW all, NEW ts, NEW x \in all, ~ Hidden(all, x),
           \A e \in Able(all, ts) : ~ Rivals(Able(all, ts), x, e),
           \A d \in Able(all, ts) :
              (\A e \in Able(all, ts) \ {d} : Rivals(Able(all, ts), e, d)) => d = x
    PROVE  Settles(Chosen(x), all, ts)
<1>1. Chosen(x).error = FALSE /\ Chosen(x).chosen = <<x>>
  BY DEF Chosen
<1>2. \A y : <<y>> = <<x>> => y = x
  <2> SUFFICES ASSUME NEW y, <<y>> = <<x>> PROVE y = x
    OBVIOUS
  <2>1. <<y>>[1] = y /\ <<x>>[1] = x
    OBVIOUS
  <2> QED
    BY <2>1
<1>3. AllSubTypes(ts, x.args) => x \in Able(all, ts)
  BY DEF Able
<1>4. Answer(Chosen(x))
  BY AnswerIs, Zenon DEF Chosen
<1> QED
  BY <1>1, <1>2, <1>3, <1>4 DEF Settles

ScoredOf(cs) == [i \in 1..Len(cs) |-> [def |-> cs[i], score |-> Score(cs, i), valid |-> Valid(cs, i)]]
ScoredSet(cs) == {ScoredOf(cs)[i] : i \in 1..Len(cs)}

\* Candidates with their scores.
LEMMA ScoredIs ==
    ASSUME NEW M, NEW cs \in Seq(M)
    PROVE  /\ ScoredOf(cs) \in Seq(ScoredSet(cs)) /\ Len(ScoredOf(cs)) = Len(cs)
           /\ \A i \in 1..Len(cs) : /\ ScoredOf(cs)[i].def = cs[i]
                                    /\ ScoredOf(cs)[i].score = Score(cs, i)
                                    /\ ScoredOf(cs)[i].valid <=> Valid(cs, i)
           /\ Distinct(cs) => Distinct(ScoredOf(cs))
<1>1. PICK s : s = ScoredOf(cs)
  OBVIOUS
<1>2. PICK n : n = Len(cs)
  OBVIOUS
<1>3. n \in Nat
  BY <1>2
<1>4. \A i \in 1..n : s[i] = [def |-> cs[i], score |-> Score(cs, i), valid |-> Valid(cs, i)]
  BY <1>1, <1>2 DEF ScoredOf
<1>5. s = [i \in 1..n |-> s[i]] /\ \A i \in 1..n : s[i] \in ScoredSet(cs)
  BY <1>1, <1>2 DEF ScoredOf, ScoredSet
<1>6. s \in Seq(ScoredSet(cs)) /\ Len(s) = n
  BY <1>3, <1>5
<1>7. ASSUME NEW i \in 1..n
      PROVE  s[i].def = cs[i] /\ s[i].score = Score(cs, i) /\ (s[i].valid <=> Valid(cs, i))
  <2>1. PICK v : v = Valid(cs, i)
    OBVIOUS
  <2>2. PICK r : r = [def |-> cs[i], score |-> Score(cs, i), valid |-> v]
    OBVIOUS
  <2>3. r.def = cs[i] /\ r.score = Score(cs, i) /\ r.valid = v
    BY <2>2
  <2>4. s[i] = r
    BY <1>4, <2>1, <2>2, Zenon
  <2>5. s[i].def = cs[i] /\ s[i].score = Score(cs, i) /\ s[i].valid = v
    BY <2>3, <2>4
  <2>6. v <=> Valid(cs, i)
    BY <2>1, Zenon
  <2> QED
    BY <2>5, <2>6, Zenon
<1>8. Distinct(cs) => Distinct(s)
  BY <1>2, <1>6, <1>7 DEF Distinct
<1> QED
  BY <1>1, <1>2, <1>6, <1>7, <1>8

\* Candidates that no other overrides, and all of them that take the arguments.
Remaining(q, cs, ts) ==
    /\ Len(q) \in Nat /\ Distinct(q)
    /\ \A k \in 1..Len(q) : \E i \in 1..Len(cs) : Valid(cs, i) /\ q[k] = ScoredOf(cs)[i]
    /\ \A i \in 1..Len(cs) : Valid(cs, i) /\ AllSubTypes(ts, cs[i].args) =>
          \E k \in 1..Len(q) : q[k] = ScoredOf(cs)[i]

\* Every definition that may be chosen has a representative among them.
LEMMA Represented ==
    ASSUME NEW M, Overloads(M), NEW all \in SUBSET M, NEW cs \in Seq(M), NEW ts \in Seq(Types),
           Candidates(cs, all, Len(ts)), NEW q, Remaining(q, cs, ts),
           NEW d \in Able(all, ts)
    PROVE  \E i \in 1..Len(cs), k \in 1..Len(q) :
              /\ Valid(cs, i) /\ q[k] = ScoredOf(cs)[i] /\ cs[i].args = d.args
              /\ cs[i] \in Able(all, ts)
              /\ (\A e \in Able(all, ts) \ {d} : Rivals(Able(all, ts), e, d)) => cs[i] = d
<1>1. d \in all /\ AllSubTypes(ts, d.args) /\ ~ Hidden(all, d) /\ Len(d.args) = Len(ts)
  BY DEF Able, AllSubTypes
<1>2. PICK i \in 1..Len(cs) : Valid(cs, i) /\ cs[i].args = d.args
  BY <1>1, UnhiddenValid
<1>3. cs[i] \in all
  BY DEF Candidates
<1>4. ~ Hidden(all, cs[i])
  BY <1>2, ValidUnhidden
<1>5. cs[i] \in Able(all, ts)
  BY <1>1, <1>2, <1>3, <1>4 DEF Able
<1>6. PICK k \in 1..Len(q) : q[k] = ScoredOf(cs)[i]
  BY <1>1, <1>2 DEF Remaining
<1>7. ASSUME \A e \in Able(all, ts) \ {d} : Rivals(Able(all, ts), e, d) PROVE cs[i] = d
  BY <1>2, <1>5, <1>7 DEF Rivals
<1> QED
  BY <1>2, <1>5, <1>6, <1>7

\* A candidate that is left alone is the one to choose.
LEMMA OneRemains ==
    ASSUME NEW M, Overloads(M), NEW all \in SUBSET M, NEW cs \in Seq(M), NEW ts \in Seq(Types),
           Candidates(cs, all, Len(ts)), NEW q, Remaining(q, cs, ts), Len(q) = 1
    PROVE  Settles(Chosen(q[1].def), all, ts)
<1>1. 1 \in 1..Len(q) /\ \A k \in 1..Len(q) : k = 1
  OBVIOUS
<1>2. PICK j \in 1..Len(cs) : Valid(cs, j) /\ q[1] = ScoredOf(cs)[j]
  BY <1>1 DEF Remaining
<1>3. PICK x : x = q[1].def
  OBVIOUS
<1>0. \A i \in 1..Len(cs) : ScoredOf(cs)[i].def = cs[i]
  BY ScoredIs, Zenon
<1>4. x = cs[j] /\ x \in all
  BY <1>0, <1>2, <1>3, Zenon DEF Candidates
<1>5. ~ Hidden(all, x)
  BY <1>2, <1>4, ValidUnhidden
<1>6. ASSUME NEW d \in Able(all, ts)
      PROVE  /\ d.args = x.args
             /\ (\A e \in Able(all, ts) \ {d} : Rivals(Able(all, ts), e, d)) => d = x
  <2>1. PICK i \in 1..Len(cs), k \in 1..Len(q) :
           /\ Valid(cs, i) /\ q[k] = ScoredOf(cs)[i] /\ cs[i].args = d.args
           /\ cs[i] \in Able(all, ts)
           /\ (\A e \in Able(all, ts) \ {d} : Rivals(Able(all, ts), e, d)) => cs[i] = d
    BY Represented
  <2>2. q[1] = ScoredOf(cs)[i]
    BY <1>1, <2>1
  <2>3. x = cs[i]
    BY <1>0, <1>3, <2>2, Zenon
  <2> QED
    BY <2>1, <2>3
<1>7. \A e \in Able(all, ts) : ~ Rivals(Able(all, ts), x, e)
  BY <1>6 DEF Rivals
<1>8. Settles(Chosen(x), all, ts)
  BY <1>4, <1>5, <1>6, <1>7, ChosenSettles
<1> QED
  BY <1>3, <1>8

\* Scores are numbers.
LEMMA ScoreType ==
    ASSUME NEW M, Overloads(M), NEW cs \in Seq(M), NEW i \in 1..Len(cs)
    PROVE  Score(cs, i) \in Nat
<1> DEFINE P == (1..Len(cs[i].args)) \X (1..Len(cs))
           T == {x \in P : x[2] # i /\ isSubTypeOf(cs[i].args[x[1]], cs[x[2]].args[x[1]])}
<1>1. 1 \in Int /\ Len(cs[i].args) \in Int /\ Len(cs) \in Int
  BY DEF Overloads
<1>2. IsFiniteSet(1..Len(cs[i].args)) /\ IsFiniteSet(1..Len(cs))
  BY <1>1, FS_Interval, Zenon
<1>3. IsFiniteSet(P)
  BY <1>2, FS_Product
<1>4. T \in SUBSET P /\ Score(cs, i) = Cardinality(T)
  BY DEF Score
<1> HIDE DEF T, P
<1>5. IsFiniteSet(T)
  BY <1>3, <1>4, FS_Subset
<1> QED
  BY <1>4, <1>5, FS_CardinalityType

\* The best score is that of the one more specific than the others.
LEMMA BestRemains ==
    ASSUME NEW M, Overloads(M), NEW all \in SUBSET M, NEW cs \in Seq(M), NEW ts \in Seq(Types),
           Candidates(cs, all, Len(ts)), NEW q \in Seq(ScoredSet(cs)), Remaining(q, cs, ts),
           \A k \in 1..Len(q) : AllSubTypes(ts, q[k].def.args)
    PROVE  Settles(Best(q), all, ts)
<1>1. PICK T : T = {s \in ToSet(q) : \A r \in ToSet(q) : r.score <= s.score}
  OBVIOUS
<1>2. PICK best : best = Select(q, T)
  OBVIOUS
<1>3. best \in Seq(ScoredSet(cs)) /\ SelectedFrom(best, q, T)
  BY <1>2, SelectedIs
<1>4. Best(q) = IF best = << >> THEN NoneChosen
                ELSE [chosen |-> <<best[1].def>>, error |-> Len(best) > 1]
  BY <1>1, <1>2 DEF Best
<1>5. Len(ts) \in Nat /\ \A k \in 1..Len(cs) : Len(cs[k].args) = Len(ts)
  BY DEF Candidates
<1>6. /\ Distinct(q) /\ Len(q) \in Nat
      /\ \A k \in 1..Len(q) : \E i \in 1..Len(cs) : Valid(cs, i) /\ q[k] = ScoredOf(cs)[i]
  BY DEF Remaining
<1>7. /\ Len(best) \in Nat /\ Distinct(best)
      /\ \A k \in 1..Len(best) : best[k] \in T /\ \E m \in 1..Len(q) : best[k] = q[m]
      /\ \A m \in 1..Len(q) : q[m] \in T => \E k \in 1..Len(best) : best[k] = q[m]
  BY <1>3, <1>6 DEF SelectedFrom
<1>8. \A k \in 1..Len(q) : q[k] \in ToSet(q)
  BY DEF ToSet
<1>9. \A s \in ToSet(q) : \E k \in 1..Len(q) : s = q[k]
  BY DEF ToSet
<1>10. ASSUME NEW i \in 1..Len(cs), NEW j \in 1..Len(cs), cs[i].args # cs[j].args,
              AllSubTypes(cs[i].args, cs[j].args)
       PROVE  Score(cs, i) \in Nat /\ Score(cs, j) \in Nat /\ Score(cs, j) < Score(cs, i)
  BY <1>5, <1>10, ScoreHigher
<1>11. ASSUME NEW k \in 1..Len(best)
       PROVE  \E j \in 1..Len(cs) :
                 /\ Valid(cs, j) /\ best[k] = ScoredOf(cs)[j] /\ best[k].def = cs[j]
                 /\ AllSubTypes(ts, cs[j].args)
                 /\ \A e \in Able(all, ts) : ~ Rivals(Able(all, ts), cs[j], e)
  <2>1. PICK m \in 1..Len(q) : best[k] = q[m]
    BY <1>7
  <2>2. PICK j \in 1..Len(cs) : Valid(cs, j) /\ q[m] = ScoredOf(cs)[j]
    BY <1>6
  <2>3. q[m].def = cs[j] /\ q[m].score = Score(cs, j)
    BY <2>2, ScoredIs
  <2>4. ASSUME NEW e \in Able(all, ts), e.args # cs[j].args, AllSubTypes(e.args, cs[j].args)
        PROVE  FALSE
    <3>1. PICK i \in 1..Len(cs), h \in 1..Len(q) :
             q[h] = ScoredOf(cs)[i] /\ cs[i].args = e.args
      BY Represented
    <3>2. q[h].score = Score(cs, i)
      BY <3>1, ScoredIs
    <3>3. Score(cs, i) \in Nat /\ Score(cs, j) \in Nat /\ Score(cs, j) < Score(cs, i)
      BY <1>10, <2>4, <3>1
    <3>4. q[h].score <= q[m].score
      BY <1>1, <1>7, <1>8, <2>1
    <3> QED
      BY <2>3, <3>2, <3>3, <3>4
  <2> QED
    BY <2>1, <2>2, <2>3, <2>4 DEF Rivals
<1>12. ASSUME NEW d \in Able(all, ts),
              \A e \in Able(all, ts) \ {d} : Rivals(Able(all, ts), e, d)
       PROVE  Len(best) = 1 /\ best[1].def = d
  <2>1. PICK i \in 1..Len(cs), m \in 1..Len(q) : q[m] = ScoredOf(cs)[i] /\ cs[i] = d
    BY <1>12, Represented
  <2>2. q[m].def = d /\ q[m].score = Score(cs, i)
    BY <2>1, ScoredIs
  <2>3. ASSUME NEW k \in 1..Len(q), k # m
        PROVE  q[k].score \in Nat /\ q[m].score \in Nat /\ q[k].score < q[m].score
    <3>1. PICK j \in 1..Len(cs) : Valid(cs, j) /\ q[k] = ScoredOf(cs)[j]
      BY <1>6
    <3>2. q[k].def = cs[j] /\ q[k].score = Score(cs, j)
      BY <3>1, ScoredIs
    <3>3. j # i
      BY <1>6, <2>1, <2>3, <3>1 DEF Distinct
    <3>4. cs[j] # d /\ cs[j] \in all
      BY <2>1, <3>3 DEF Candidates, Distinct
    <3>5. cs[j] \in Able(all, ts)
      <4>1. ~ Hidden(all, cs[j])
        BY <3>1, ValidUnhidden
      <4> QED
        BY <3>2, <3>4, <4>1 DEF Able
    <3>6. cs[i].args # cs[j].args /\ AllSubTypes(cs[i].args, cs[j].args)
      BY <1>12, <2>1, <3>4, <3>5 DEF Rivals
    <3> QED
      BY <1>10, <2>2, <3>2, <3>6
  <2>4. q[m] \in T
    <3>1. ASSUME NEW r \in ToSet(q) PROVE r.score <= q[m].score
      <4>1. PICK k \in 1..Len(q) : r = q[k]
        BY <1>9
      <4>2. CASE k = m
        <5>1. Score(cs, i) \in Nat
          BY ScoreType
        <5> QED
          BY <2>2, <4>1, <4>2, <5>1
      <4>3. CASE k # m
        BY <2>3, <4>1, <4>3
      <4> QED
        BY <4>2, <4>3
    <3> QED
      BY <1>1, <1>8, <3>1
  <2>5. \A k \in 1..Len(q) : q[k] \in T => k = m
    <3>1. ASSUME NEW k \in 1..Len(q), q[k] \in T, k # m PROVE FALSE
      <4>1. q[m].score <= q[k].score
        BY <1>1, <1>8, <3>1
      <4> QED
        BY <2>3, <3>1, <4>1
    <3> QED
      BY <3>1
  <2>6. PICK h \in 1..Len(best) : best[h] = q[m]
    BY <1>7, <2>4
  <2>7. \A k \in 1..Len(best) : best[k] = q[m]
    BY <1>7, <2>5
  <2>8. \A k \in 1..Len(best) : k = h
    BY <1>7, <2>6, <2>7 DEF Distinct
  <2>9. Len(best) = 1
    <3>1. 1 \in 1..Len(best) /\ Len(best) \in 1..Len(best)
      BY <1>7, <2>6
    <3> QED
      BY <2>8, <3>1
  <2> QED
    BY <2>2, <2>7, <2>9
<1>13. CASE best = << >>
  <2>1. Best(q).error = TRUE /\ Best(q).chosen = << >>
    BY <1>4, <1>13 DEF NoneChosen
  <2>4. Answer(Best(q))
    BY <1>4, <1>13, AnswerIs, Zenon DEF NoneChosen
  <2>2. \A x : <<x>> # << >>
    OBVIOUS
  <2>3. Len(best) # 1
    BY <1>13
  <2> QED
    BY <1>12, <2>1, <2>2, <2>3, <2>4 DEF Settles
<1>14. CASE best # << >>
  <2>1. 1 \in 1..Len(best)
    BY <1>3, <1>14
  <2>2. PICK x : x = best[1].def
    OBVIOUS
  <2>3. x \in Able(all, ts) /\ x \in all /\ \A e \in Able(all, ts) : ~ Rivals(Able(all, ts), x, e)
    <3>1. PICK j \in 1..Len(cs) :
             /\ Valid(cs, j) /\ best[1].def = cs[j] /\ AllSubTypes(ts, cs[j].args)
             /\ \A e \in Able(all, ts) : ~ Rivals(Able(all, ts), cs[j], e)
      BY <1>11, <2>1
    <3>2. ~ Hidden(all, cs[j]) /\ cs[j] \in all
      BY <3>1, ValidUnhidden DEF Candidates
    <3> QED
      BY <2>2, <3>1, <3>2 DEF Able
  <2>4. PICK more : more = (Len(best) > 1)
    OBVIOUS
  <2>5. Best(q) = [chosen |-> <<x>>, error |-> more]
    BY <1>4, <1>14, <2>2, <2>4, Zenon
  <2>6. more \in BOOLEAN /\ (Len(best) = 1 => more = FALSE)
    <3>1. ASSUME Len(best) = 1 PROVE more = FALSE
      <4>1. (Len(best) > 1) = FALSE
        BY <3>1
      <4> QED
        BY <2>4, <4>1, Zenon
    <3>2. more \in BOOLEAN
      <4>1. (Len(best) > 1) \in BOOLEAN
        OBVIOUS
      <4> QED
        BY <2>4, <4>1, Zenon
    <3> QED
      BY <3>1, <3>2
  <2>7. Best(q).chosen = <<x>> /\ Best(q).error = more
    BY <2>5
  <2>8. \A y : <<y>> = <<x>> => y = x
    <3> SUFFICES ASSUME NEW y, <<y>> = <<x>> PROVE y = x
      OBVIOUS
    <3>1. <<y>>[1] = y /\ <<x>>[1] = x
      OBVIOUS
    <3> QED
      BY <3>1
  <2>9. ASSUME NEW d \in Able(all, ts),
               \A e \in Able(all, ts) \ {d} : Rivals(Able(all, ts), e, d)
        PROVE  Best(q) = Chosen(d)
    BY <1>12, <2>2, <2>5, <2>6, <2>9 DEF Chosen
  <2>10. Answer(Best(q))
    BY <2>5, AnswerIs, Zenon
  <2> QED
    BY <2>3, <2>6, <2>7, <2>8, <2>9, <2>10 DEF Settles
<1> QED
  BY <1>13, <1>14

\* Leaving out what is overriden leaves a candidate for each that can be chosen.
LEMMA KeptRemain ==
    ASSUME NEW M, NEW cs \in Seq(M), NEW ts, Distinct(cs),
           NEW T, T = {s \in ToSet(ScoredOf(cs)) : s.valid},
           NEW kept, kept = Select(ScoredOf(cs), T)
    PROVE  kept \in Seq(ScoredSet(cs)) /\ Remaining(kept, cs, ts)
<1>1. PICK s : s = ScoredOf(cs)
  OBVIOUS
<1>2. /\ s \in Seq(ScoredSet(cs)) /\ Len(s) = Len(cs) /\ Distinct(s)
      /\ \A i \in 1..Len(cs) : s[i].valid <=> Valid(cs, i)
  BY <1>1, ScoredIs
<1>3. kept \in Seq(ScoredSet(cs)) /\ SelectedFrom(kept, s, T)
  BY <1>1, <1>2, SelectedIs
<1>4. /\ Len(kept) \in Nat /\ Distinct(kept)
      /\ \A k \in 1..Len(kept) : kept[k] \in T /\ \E i \in 1..Len(s) : kept[k] = s[i]
      /\ \A i \in 1..Len(s) : s[i] \in T => \E k \in 1..Len(kept) : kept[k] = s[i]
  BY <1>2, <1>3 DEF SelectedFrom
<1>5. ASSUME NEW k \in 1..Len(kept) PROVE \E i \in 1..Len(cs) : Valid(cs, i) /\ kept[k] = s[i]
  <2>1. PICK i \in 1..Len(cs) : kept[k] = s[i]
    BY <1>2, <1>4
  <2>2. s[i].valid
    BY <1>1, <1>4, <2>1
  <2> QED
    BY <1>2, <2>1, <2>2
<1>6. ASSUME NEW i \in 1..Len(cs), Valid(cs, i) PROVE \E k \in 1..Len(kept) : kept[k] = s[i]
  <2>1. s[i] \in ToSet(s)
    BY <1>2 DEF ToSet
  <2>2. s[i] \in T
    BY <1>1, <1>2, <1>6, <2>1
  <2> QED
    BY <1>2, <1>4, <2>2
<1> QED
  BY <1>1, <1>3, <1>4, <1>5, <1>6 DEF Remaining

\* So does leaving out what does not take the arguments.
LEMMA FitRemain ==
    ASSUME NEW M, Overloads(M), NEW all \in SUBSET M, NEW cs \in Seq(M), NEW ts \in Seq(Types),
           Candidates(cs, all, Len(ts)), NEW kept \in Seq(ScoredSet(cs)), Remaining(kept, cs, ts),
           NEW fit, fit = DiscardIncompatible(kept, ts)
    PROVE  /\ fit \in Seq(ScoredSet(cs)) /\ Remaining(fit, cs, ts)
           /\ Len(fit) # 1 => \A k \in 1..Len(fit) : AllSubTypes(ts, fit[k].def.args)
<1>1. fit \in Seq(ScoredSet(cs)) /\ Left(fit, kept, ts, Len(ts))
  BY Discarded DEF Remaining
<1>2. /\ Distinct(fit) /\ Len(fit) \in Nat
      /\ \A i \in 1..Len(fit) : \E k \in 1..Len(kept) : fit[i] = kept[k]
      /\ \A k \in 1..Len(kept) : (\A a \in 1..Len(ts) : isSubTypeOf(ts[a], kept[k].def.args[a])) =>
            \E i \in 1..Len(fit) : fit[i] = kept[k]
      /\ Len(fit) # 1 => \A i \in 1..Len(fit), a \in 1..Len(ts) : isSubTypeOf(ts[a], fit[i].def.args[a])
  BY <1>1 DEF Left
<1>3. \A i \in 1..Len(cs) : ScoredOf(cs)[i].def = cs[i] /\ Len(cs[i].args) = Len(ts)
  BY ScoredIs DEF Candidates
<1>4. ASSUME NEW k \in 1..Len(fit)
      PROVE  \E i \in 1..Len(cs) : Valid(cs, i) /\ fit[k] = ScoredOf(cs)[i]
  <2>1. PICK m \in 1..Len(kept) : fit[k] = kept[m]
    BY <1>2
  <2>2. PICK i \in 1..Len(cs) : Valid(cs, i) /\ kept[m] = ScoredOf(cs)[i]
    BY DEF Remaining
  <2> QED
    BY <2>1, <2>2
<1>5. ASSUME NEW i \in 1..Len(cs), Valid(cs, i), AllSubTypes(ts, cs[i].args)
      PROVE  \E k \in 1..Len(fit) : fit[k] = ScoredOf(cs)[i]
  <2>1. PICK k \in 1..Len(kept) : kept[k] = ScoredOf(cs)[i]
    BY <1>5 DEF Remaining
  <2>2. \A a \in 1..Len(ts) : isSubTypeOf(ts[a], kept[k].def.args[a])
    BY <1>3, <1>5, <2>1 DEF AllSubTypes
  <2>3. PICK m \in 1..Len(fit) : fit[m] = kept[k]
    <3>1. \A j \in 1..Len(kept) :
            (\A a \in 1..Len(ts) : isSubTypeOf(ts[a], kept[j].def.args[a])) =>
                \E i1 \in 1..Len(fit) : fit[i1] = kept[j]
      BY <1>2
    <3> QED
      BY <2>2, <3>1, Zenon
  <2>4. fit[m] = ScoredOf(cs)[i]
    BY <2>1, <2>3, Zenon
  <2> QED
    BY <2>4, Zenon
<1>6. ASSUME Len(fit) # 1, NEW k \in 1..Len(fit) PROVE AllSubTypes(ts, fit[k].def.args)
  <2>0. PICK i \in 1..Len(cs) : fit[k] = ScoredOf(cs)[i]
    BY <1>4
  <2>1. Len(fit[k].def.args) = Len(ts)
    BY <1>3, <2>0
  <2> QED
    BY <1>2, <1>6, <2>1 DEF AllSubTypes
<1> QED
  BY <1>1, <1>2, <1>4, <1>5, <1>6 DEF Remaining

\* Among several candidates the right one is chosen.
LEMMA ChooseAmongSettles ==
    ASSUME NEW M, Overloads(M), NEW all \in SUBSET M, NEW cs \in Seq(M), NEW ts \in Seq(Types),
           Candidates(cs, all, Len(ts))
    PROVE  Settles(ChooseAmong(cs, ts), all, ts)
<1>1. PICK T : T = {s \in ToSet(ScoredOf(cs)) : s.valid}
  OBVIOUS
<1>2. PICK kept : kept = Select(ScoredOf(cs), T)
  OBVIOUS
<1>3. PICK fit : fit = DiscardIncompatible(kept, ts)
  OBVIOUS
<1>4. ChooseAmong(cs, ts) = IF Len(kept) = 1 THEN Chosen(kept[1].def)
                            ELSE IF Len(fit) = 1 THEN Chosen(fit[1].def)
                            ELSE Best(fit)
  BY <1>1, <1>2, <1>3, Zenon DEF ChooseAmong, ScoredOf
<1>5. kept \in Seq(ScoredSet(cs)) /\ Remaining(kept, cs, ts)
  <2>1. Distinct(cs)
    BY DEF Candidates
  <2> QED
    BY <1>1, <1>2, <2>1, KeptRemain
<1>6. /\ fit \in Seq(ScoredSet(cs)) /\ Remaining(fit, cs, ts)
      /\ Len(fit) # 1 => \A k \in 1..Len(fit) : AllSubTypes(ts, fit[k].def.args)
  BY <1>3, <1>5, FitRemain
<1>7. CASE Len(kept) = 1
  BY <1>4, <1>5, <1>7, OneRemains
<1>8. CASE Len(kept) # 1 /\ Len(fit) = 1
  BY <1>4, <1>6, <1>8, OneRemains
<1>9. CASE Len(kept) # 1 /\ Len(fit) # 1
  BY <1>4, <1>6, <1>9, BestRemains
<1> QED
  BY <1>7, <1>8, <1>9

\* The only definition that may be chosen is chosen.
LEMMA OnlyAble ==
    ASSUME NEW all, NEW ts, NEW x \in all, ~ Hidden(all, x), \A d \in Able(all, ts) : d = x
    PROVE  Settles(Chosen(x), all, ts)
<1>1. \A e \in Able(all, ts) : ~ Rivals(Able(all, ts), x, e)
  BY DEF Rivals
<1> QED
  BY <1>1, ChosenSettles

\* A redef may stand for another definition of its name, which is none.
RedefsOverride(cs) == \A i \in 1..Len(cs) : cs[i].redef =>
    \E j \in 1..Len(cs) : ~ cs[j].redef /\ AllSubTypes(cs[j].args, cs[i].args)

\* resolveOverload settles the choice, its shortcuts included.
LEMMA ResolveSettles ==
    ASSUME NEW M, Overloads(M), NEW cs \in Seq(M), Distinct(cs), RedefsOverride(cs),
           NEW ts \in Seq(Types), NEW all, all = ToSet(cs)
    PROVE  Settles(resolveOverload(cs, ts), all, ts)
<1>1. PICK T : T = {c \in ToSet(cs) : Len(c.args) = Len(ts)}
  OBVIOUS
<1>2. PICK candidates : candidates = Select(cs, T)
  OBVIOUS
<1>3. resolveOverload(cs, ts) =
          IF cs = << >> THEN NoneChosen
          ELSE IF Len(cs) = 1 THEN Chosen(cs[1])
          ELSE IF OneRedef(cs) THEN Chosen(IF cs[1].redef THEN cs[1] ELSE cs[2])
          ELSE IF Len(candidates) = 1 THEN Chosen(candidates[1])
          ELSE ChooseAmong(candidates, ts)
  BY <1>1, <1>2 DEF resolveOverload
<1>4. /\ Len(cs) \in Nat /\ \A k \in 1..Len(cs) : cs[k] \in M /\ cs[k] \in all
      /\ \A m \in all : \E k \in 1..Len(cs) : m = cs[k]
      /\ all \in SUBSET M
  BY DEF ToSet
<1>5. candidates \in Seq(M) /\ SelectedFrom(candidates, cs, T)
  BY <1>2, SelectedIs
<1>6. Candidates(candidates, all, Len(ts))
  <2>1. /\ Distinct(candidates)
        /\ \A k \in 1..Len(candidates) : candidates[k] \in T
        /\ \A k \in 1..Len(cs) : cs[k] \in T => \E i \in 1..Len(candidates) : candidates[i] = cs[k]
    BY <1>5 DEF SelectedFrom
  <2>2. \A m \in all : Len(m.args) = Len(ts) => m \in T
    BY <1>1
  <2>3. \A k \in 1..Len(candidates) : candidates[k] \in all /\ Len(candidates[k].args) = Len(ts)
    BY <1>1, <2>1
  <2>4. \A m \in all : Len(m.args) = Len(ts) => \E k \in 1..Len(candidates) : candidates[k] = m
    BY <1>4, <2>1, <2>2
  <2> QED
    BY <2>1, <2>3, <2>4 DEF Candidates
<1>7. CASE cs = << >>
  <2>1. Able(all, ts) = {}
    BY <1>4, <1>7 DEF Able
  <2>2. NoneChosen.error = TRUE /\ NoneChosen.chosen = << >>
    BY DEF NoneChosen
  <2>3. \A x : <<x>> # << >>
    OBVIOUS
  <2>4. Answer(NoneChosen)
    BY AnswerIs, Zenon DEF NoneChosen
  <2>5. Settles(NoneChosen, all, ts)
    BY <2>1, <2>2, <2>3, <2>4 DEF Settles
  <2> QED
    BY <1>3, <1>7, <2>5
<1>8. CASE cs # << >> /\ Len(cs) = 1
  <2>1. cs[1] \in all /\ \A m \in all : m = cs[1]
    BY <1>4, <1>8
  <2>2. ~ Hidden(all, cs[1]) /\ \A d \in Able(all, ts) : d = cs[1]
    BY <2>1 DEF Hidden, Able
  <2>3. Settles(Chosen(cs[1]), all, ts)
    BY <2>1, <2>2, OnlyAble
  <2> QED
    BY <1>3, <1>8, <2>3
<1>9. CASE cs # << >> /\ Len(cs) # 1 /\ OneRedef(cs)
  <2>1. PICK x : x = IF cs[1].redef THEN cs[1] ELSE cs[2]
    OBVIOUS
  <2>2. 1 \in 1..Len(cs) /\ 2 \in 1..Len(cs) /\ \A k \in 1..Len(cs) : k = 1 \/ k = 2
    BY <1>9 DEF OneRedef
  <2>3. cs[1].redef \in BOOLEAN /\ cs[2].redef \in BOOLEAN
    BY <1>4, <2>2 DEF Overloads
  <2>4. x.redef /\ x \in all /\ \A m \in all : m # x => ~ m.redef
    BY <1>4, <1>9, <2>1, <2>2, <2>3 DEF OneRedef
  <2>5. PICK y \in all : ~ y.redef /\ AllSubTypes(y.args, x.args)
    BY <1>4, <2>4 DEF RedefsOverride
  <2>6. \A m \in all : m = x \/ m = y
    BY <1>4, <2>2, <2>4, <2>5
  <2>7. ~ Hidden(all, x)
    BY <2>4 DEF Hidden
  <2>8. Hidden(all, y)
    BY <2>4, <2>5 DEF Hidden
  <2>9. \A d \in Able(all, ts) : d = x
    BY <2>6, <2>8 DEF Able
  <2>10. Settles(Chosen(x), all, ts)
    BY <2>4, <2>7, <2>9, OnlyAble
  <2> QED
    BY <1>3, <1>9, <2>1, <2>10
<1>10. CASE cs # << >> /\ Len(cs) # 1 /\ ~ OneRedef(cs) /\ Len(candidates) = 1
  <2>1. PICK x : x = candidates[1]
    OBVIOUS
  <2>2. 1 \in 1..Len(candidates) /\ \A k \in 1..Len(candidates) : k = 1
    BY <1>10
  <2>3. x \in all /\ Len(x.args) = Len(ts) /\ \A m \in all : Len(m.args) = Len(ts) => m = x
    BY <1>6, <2>1, <2>2 DEF Candidates
  <2>4. ~ Hidden(all, x)
    BY <2>3 DEF Hidden, AllSubTypes
  <2>5. \A d \in Able(all, ts) : d = x
    BY <2>3 DEF Able, AllSubTypes
  <2>6. Settles(Chosen(x), all, ts)
    BY <2>3, <2>4, <2>5, OnlyAble
  <2> QED
    BY <1>3, <1>10, <2>1, <2>6
<1>11. CASE cs # << >> /\ Len(cs) # 1 /\ ~ OneRedef(cs) /\ Len(candidates) # 1
  <2>1. Settles(ChooseAmong(candidates, ts), all, ts)
    BY <1>4, <1>5, <1>6, ChooseAmongSettles
  <2> QED
    BY <1>3, <1>11, <2>1
<1> QED
  BY <1>7, <1>8, <1>9, <1>10, <1>11

-----------------------------------------------------------------------------
(* Calls *)

\* The scope of a class has the definitions of a name that the class has, once each.
Definitions == {program.defs[d] : d \in Def}
\* The definitions in the scope of a class are different ones.
LEMMA ScopeHas ==
    ASSUME program \in Programs, NEW c \in Class, NEW n
    PROVE  /\ ScopeOf(c, n) \in Seq(Definitions) /\ Distinct(ScopeOf(c, n))
           /\ \A x \in ToSet(ScopeOf(c, n)) : \E d \in Named(c, n) : x = program.defs[d]
           /\ \A d \in Named(c, n) : \E k \in 1..Len(ScopeOf(c, n)) : ScopeOf(c, n)[k] = program.defs[d]
<1>1. PICK q : q = ScopeWithout(c, n)
  OBVIOUS
<1>2. PICK s : s = ScopeOf(c, n)
  OBVIOUS
<1>3. /\ Lists(q, Named(c, n))
      /\ Len(s) \in Nat /\ DOMAIN s = 1..Len(s) /\ Len(s) = Len(q)
      /\ \A k \in 1..Len(s) : q[k] \in Named(c, n) /\ s[k] = program.defs[q[k]]
  BY <1>1, <1>2, ScopeIs
<1>4. Named(c, n) \subseteq Def /\ \A d \in Def : program.defs[d].id = d
  BY ProgramFacts DEF Named, DefsIn
<1>5. s = [k \in 1..Len(s) |-> s[k]]
  BY <1>2, <1>3 DEF ScopeOf
<1>6. s \in Seq(Definitions)
  <2>1. \A k \in 1..Len(s) : s[k] \in Definitions
    BY <1>3, <1>4 DEF Definitions
  <2> QED
    BY <1>3, <1>5, <2>1
<1>7. Distinct(s)
  <2> SUFFICES ASSUME NEW i \in 1..Len(s), NEW j \in 1..Len(s), s[i] = s[j] PROVE i = j
    BY DEF Distinct
  <2>1. q[i] \in Def /\ q[j] \in Def /\ program.defs[q[i]] = program.defs[q[j]]
    BY <1>3, <1>4
  <2>2. q[i] = q[j]
    BY <1>4, <2>1
  <2> QED
    BY <1>3, <2>2 DEF Lists
<1>8. \A d \in Named(c, n) : \E k \in 1..Len(s) : s[k] = program.defs[d]
  <2> SUFFICES ASSUME NEW d \in Named(c, n) PROVE \E k \in 1..Len(s) : s[k] = program.defs[d]
    OBVIOUS
  <2>1. PICK k \in 1..Len(q) : q[k] = d
    BY <1>3 DEF Lists
  <2> QED
    BY <1>3, <2>1
<1>9. \A x \in ToSet(s) : \E d \in Named(c, n) : x = program.defs[d]
  <2> SUFFICES ASSUME NEW x \in ToSet(s) PROVE \E d \in Named(c, n) : x = program.defs[d]
    OBVIOUS
  <2>1. PICK k \in 1..Len(s) : x = s[k]
    BY <1>3 DEF ToSet
  <2> QED
    BY <1>3, <2>1
<1> QED
  BY <1>2, <1>6, <1>7, <1>8, <1>9

\* The choice among what a class has of one name is settled.
LEMMA ScopeSettles ==
    ASSUME DispatchInvariant, Generated, NEW c \in Class, NEW n, NEW ts \in Seq(Types)
    PROVE  Settles(resolveOverload(ScopeOf(c, n), ts), ToSet(ScopeOf(c, n)), ts)
<1>1. PICK s : s = ScopeOf(c, n)
  OBVIOUS
<1>2. program \in Programs /\ OverridesInvariant /\ \A d \in Redefinitions : overriden[d] # 0
  BY DEF DispatchInvariant, OverridesInvariant, Generated
<1>3. /\ s \in Seq(Definitions) /\ Distinct(s)
      /\ \A x \in ToSet(s) : \E d \in Named(c, n) : x = program.defs[d]
      /\ \A d \in Named(c, n) : \E k \in 1..Len(s) : s[k] = program.defs[d]
  BY <1>1, <1>2, ScopeHas
<1>4. Overloads(Definitions)
  BY <1>2, ProgramFacts DEF Overloads, Definitions
<1>5. RedefsOverride(s)
  <2> SUFFICES ASSUME NEW i \in 1..Len(s), s[i].redef
               PROVE  \E j \in 1..Len(s) : ~ s[j].redef /\ AllSubTypes(s[j].args, s[i].args)
    BY DEF RedefsOverride
  <2>1. s[i] \in ToSet(s)
    BY <1>3 DEF ToSet
  <2>2. PICK d \in Named(c, n) : s[i] = program.defs[d]
    BY <1>3, <2>1
  <2>3. d \in Def /\ OwnerOf(d) \in Lineage(c) /\ program.defs[d].name = n
    BY DEF Named, DefsIn
  <2>4. PICK r : r = overriden[d]
    OBVIOUS
  <2>5. OverrideFound(d)
    <3>1. overriden[d] # 0
      BY <1>2, <2>2, <2>3 DEF Redefinitions
    <3> QED
      BY <1>2, <2>3, <3>1 DEF OverridesInvariant
  <2>6. /\ r \in Def /\ ~ program.defs[r].redef /\ OwnerOf(r) \in Lineage(OwnerOf(d))
        /\ program.defs[r].name = n /\ AllSubTypes(program.defs[r].args, program.defs[d].args)
    BY <2>3, <2>4, <2>5 DEF OverrideFound, isSubMethodOf
  <2>7. OwnerOf(r) \in Lineage(c)
    BY <1>2, <2>3, <2>6, LineageClosed
  <2>8. r \in Named(c, n)
    BY <2>6, <2>7 DEF Named, DefsIn
  <2>9. PICK j \in 1..Len(s) : s[j] = program.defs[r]
    BY <1>3, <2>8
  <2> QED
    BY <2>2, <2>6, <2>9
<1> QED
  BY <1>1, <1>3, <1>4, <1>5, ResolveSettles

\* The arguments of a call are those of the definition chosen.
LEMMA CallSettled ==
    ASSUME NEW all, NEW ts, NEW cs, Settles(resolveOverload(cs, ts), all, ts),
           NEW call, call = CallMember(cs, ts)
    PROVE  /\ ~ call.error => \E x \in Able(all, ts) :
                 /\ call.chosen = <<x>>
                 /\ \A e \in Able(all, ts) : ~ Rivals(Able(all, ts), x, e)
           /\ \A d \in Able(all, ts) :
                 (\A e \in Able(all, ts) \ {d} : Rivals(Able(all, ts), e, d)) => call = Chosen(d)
<1>1. PICK found : found = resolveOverload(cs, ts)
  OBVIOUS
<1>2. /\ found = [chosen |-> found.chosen, error |-> found.error]
      /\ found.error \/ \E x \in all : found.chosen = <<x>>
      /\ \A x : ~ found.error /\ found.chosen = <<x>> /\ AllSubTypes(ts, x.args) =>
            /\ x \in Able(all, ts)
            /\ \A e \in Able(all, ts) : ~ Rivals(Able(all, ts), x, e)
      /\ \A d \in Able(all, ts) :
            (\A e \in Able(all, ts) \ {d} : Rivals(Able(all, ts), e, d)) => found = Chosen(d)
  BY <1>1 DEF Settles, Answer
<1>3. call = IF found.chosen # << >> /\ ~ AllSubTypes(ts, found.chosen[1].args)
             THEN [found EXCEPT !.error = TRUE] ELSE found
  BY <1>1 DEF CallMember
<1>4. [found EXCEPT !.error = TRUE].error = TRUE
  BY <1>2
<1>5. \A x : <<x>> # << >> /\ <<x>>[1] = x
  OBVIOUS
<1>6. ASSUME ~ call.error
      PROVE  \E x \in Able(all, ts) :
                 /\ call.chosen = <<x>>
                 /\ \A e \in Able(all, ts) : ~ Rivals(Able(all, ts), x, e)
  <2>1. call = found /\ (found.chosen = << >> \/ AllSubTypes(ts, found.chosen[1].args))
    BY <1>3, <1>4, <1>6
  <2>2. PICK x \in all : found.chosen = <<x>>
    BY <1>2, <1>6, <2>1
  <2>3. AllSubTypes(ts, x.args)
    BY <1>5, <2>1, <2>2
  <2> QED
    BY <1>2, <1>6, <2>1, <2>2, <2>3
<1>7. ASSUME NEW d \in Able(all, ts),
             \A e \in Able(all, ts) \ {d} : Rivals(Able(all, ts), e, d)
      PROVE  call = Chosen(d)
  <2>1. found = Chosen(d)
    BY <1>2, <1>7
  <2>2. found.chosen = <<d>>
    BY <2>1 DEF Chosen
  <2>3. found.chosen[1] = d /\ AllSubTypes(ts, d.args)
    BY <1>5, <2>2 DEF Able
  <2> QED
    BY <1>3, <2>1, <2>3
<1> QED
  BY <1>6, <1>7

\* The arguments of calls are sequences of types.
LEMMA ArgumentsTyped ==
    ASSUME program \in Programs, NEW ts \in ArgTypes
    PROVE  ts \in Seq(Types)
<1>1. PICK d \in Def : ts \in [1..Len(program.defs[d].args) -> Types]
  BY DEF ArgTypes
<1>2. Len(program.defs[d].args) \in Nat
  BY ProgramFacts
<1> QED
  BY <1>1, <1>2

Specific(call, able) ==
    /\ ~ call.error => /\ call.chosen[1] \in able
                       /\ \A e \in able : ~ Rivals(able, call.chosen[1], e)
    /\ \A d \in able : (\A e \in able \ {d} : Rivals(able, e, d)) => call = Chosen(d)
\* Calls choose what is most specific.
LEMMA ChosenSpecific ==
    ASSUME DispatchInvariant, Generated, NEW s \in Class, NEW n, NEW ts \in ArgTypes,
           NEW all, all = ToSet(ScopeOf(s, n)), NEW able, able = Able(all, ts),
           NEW call, call = Call(s, n, ts)
    PROVE  Specific(call, able)
<1>1. ts \in Seq(Types)
  BY ArgumentsTyped DEF DispatchInvariant
<1>2. Settles(resolveOverload(ScopeOf(s, n), ts), all, ts)
  BY <1>1, ScopeSettles
<1>3. call = CallMember(ScopeOf(s, n), ts)
  BY DEF Call
<1>4. /\ ~ call.error => \E x \in Able(all, ts) :
             /\ call.chosen = <<x>>
             /\ \A e \in Able(all, ts) : ~ Rivals(Able(all, ts), x, e)
      /\ \A d \in Able(all, ts) :
             (\A e \in Able(all, ts) \ {d} : Rivals(Able(all, ts), e, d)) => call = Chosen(d)
  BY <1>2, <1>3, CallSettled
<1>5. /\ ~ call.error => \E x \in able : /\ call.chosen = <<x>>
                                         /\ \A e \in able : ~ Rivals(able, x, e)
      /\ \A d \in able : (\A e \in able \ {d} : Rivals(able, e, d)) => call = Chosen(d)
  BY <1>4, Zenon
<1>6. \A x : <<x>>[1] = x
  OBVIOUS
<1> QED
  BY <1>5, <1>6 DEF Specific

\* The same, as the property says it.
LEMMA SpecificChosen == DispatchInvariant => MostSpecificChosen
<1>1. ASSUME DispatchInvariant, Generated, NEW s \in Class, NEW n \in NameSet, NEW ts \in ArgTypes
      PROVE  Specific(Call(s, n, ts), Able(ToSet(ScopeOf(s, n)), ts))
  BY <1>1, ChosenSpecific
<1> QED
  BY <1>1, Zenon DEF MostSpecificChosen, Specific, Able

\* What runs overrides the same method as what was chosen.
LEMMA CallsRun == DispatchInvariant => CallsKept
<1> SUFFICES ASSUME DispatchInvariant, Generated, NEW c \in Class, NEW s \in Lineage(c),
                    NEW n \in NameSet, NEW ts \in ArgTypes,
                    NEW call, call = Call(s, n, ts), ~ call.error,
                    NEW d, d = call.chosen[1].id,
                    NEW r, r = program.defs[Root(d)],
                    NEW runs, runs = DynamicMethodCall(c, d)
             PROVE  /\ runs # 0 => /\ Root(runs) = Root(d)
                                   /\ isSubMethodOf(program.defs[runs], r)
                    /\ AllSubTypes(ts, r.args) /\ runs # 0 => AllSubTypes(ts, program.defs[runs].args)
  BY DEF CallsKept
<1>1. program \in Programs /\ OverridesInvariant
  BY DEF DispatchInvariant
<1>2. s \in Class /\ Lineage(s) \subseteq Lineage(c) /\ ts \in Seq(Types)
  BY <1>1, LineageIs, LineageClosed, ArgumentsTyped
<1>3. PICK all : all = ToSet(ScopeOf(s, n))
  OBVIOUS
<1>4. PICK x \in all : call.chosen = <<x>>
  <2>1. Settles(resolveOverload(ScopeOf(s, n), ts), all, ts)
    BY <1>2, <1>3, ScopeSettles
  <2>2. call = CallMember(ScopeOf(s, n), ts)
    BY DEF Call
  <2>3. PICK x \in Able(all, ts) : call.chosen = <<x>>
    BY <2>1, <2>2, CallSettled
  <2> QED
    BY <2>3 DEF Able
<1>5. PICK e \in Named(s, n) : x = program.defs[e]
  BY <1>1, <1>2, <1>3, ScopeHas
<1>6. d = e /\ d \in Def /\ OwnerOf(d) \in Lineage(s)
  <2>1. <<x>>[1] = x
    OBVIOUS
  <2>2. e \in Def /\ OwnerOf(e) \in Lineage(s)
    BY DEF Named, DefsIn
  <2>3. program.defs[e].id = e
    BY <1>1, <2>2, ProgramFacts
  <2> QED
    BY <1>4, <1>5, <2>1, <2>2, <2>3
<1>7. d \in DefsIn(Lineage(c))
  BY <1>2, <1>6 DEF DefsIn
<1> SUFFICES ASSUME runs # 0
             PROVE  /\ Root(runs) = Root(d) /\ isSubMethodOf(program.defs[runs], r)
                    /\ AllSubTypes(ts, r.args) => AllSubTypes(ts, program.defs[runs].args)
  OBVIOUS
<1>8. runs \in Def /\ Root(runs) = Root(d)
  <2>1. PICK y \in DefsIn(Lineage(c)) :
           /\ Root(y) = Root(d)
           /\ runs = IF program.defs[y].abstract THEN 0 ELSE y
    BY <1>7, RunsNearest
  <2> QED
    BY <2>1 DEF DefsIn
<1>9. isSubMethodOf(program.defs[runs], r)
  <2>1. isSubMethodOf(program.defs[runs], program.defs[Root(runs)])
    BY <1>1, <1>8, RootFound
  <2> QED
    BY <1>8, <2>1
<1>10. AllSubTypes(ts, r.args) => AllSubTypes(ts, program.defs[runs].args)
  <2>1. Root(d) \in Def
    BY <1>1, <1>6, RootFound
  <2>2. program.defs[runs].args \in Seq(Types) /\ r.args \in Seq(Types)
    BY <1>1, <1>8, <2>1, ProgramFacts
  <2>3. AllSubTypes(r.args, program.defs[runs].args)
    BY <1>9 DEF isSubMethodOf
  <2>4. PICK t, u : t = r.args /\ u = program.defs[runs].args
    OBVIOUS
  <2>5. ts \in Seq(Types) /\ t \in Seq(Types) /\ u \in Seq(Types) /\ AllSubTypes(t, u)
    BY <1>2, <2>2, <2>3, <2>4
  <2>6. \A a, b, z \in Seq(Types) : AllSubTypes(a, b) /\ AllSubTypes(b, z) => AllSubTypes(a, z)
    BY ArgumentOrder, Zenon
  <2>7. AllSubTypes(ts, t) => AllSubTypes(ts, u)
    BY <2>5, <2>6, Zenon
  <2> QED
    BY <2>4, <2>7, Zenon
<1> QED
  BY <1>8, <1>9, <1>10

-----------------------------------------------------------------------------
(* The theorems *)

\* The tables of methods are complete for every program that type checking
\* accepts: UserDataAssignment reads the location of a method, or the table of
\* a parent, only once it is set, but for the two exceptions that are named.
THEOREM LocationsAssigned == Spec => []LocationsKnown
<1>1. DispatchInvariant => LocationsKnown
  BY DEF DispatchInvariant, VisitsInvariant, VisitsInStage, LocationsKnown
<1> QED
  BY <1>1, InvariantHolds, PTL

\* What a dynamic call runs is the most derived of the definitions that
\* override one method, whatever the order in which classes are visited.
THEOREM NearestDefinitionRuns == Spec => []MostDerivedRuns
  BY NearestRuns, InvariantHolds, PTL

\* resolveOverload chooses the most specific of the definitions that take the
\* arguments, if there is one, and none that does not take them without error.
THEOREM OverloadsResolved == Spec => []MostSpecificChosen
  BY SpecificChosen, InvariantHolds, PTL

\* A call that type checking accepts runs, on an object of any class that
\* extends the one it is checked with, a method that overrides the same one and
\* that takes the arguments if that one does.
THEOREM AcceptedCallsKept == Spec => []CallsKept
  BY CallsRun, InvariantHolds, PTL
=============================================================================
