-------------------------- MODULE PhaseOrder_proofs --------------------------
(***************************************************************************)
(* What the orders of ValidOrders are, for every pipeline: each runs every *)
(* phase of the pipeline exactly once.                                     *)
(***************************************************************************)
EXTENDS PhaseOrder, Induction, FiniteSetTheorems

RunsNoneTwice(s) == \A i, j \in 1..Len(s) : s[i] = s[j] => i = j
RunsAll(d, s) == \A p \in DOMAIN d : \E i \in 1..Len(s) : s[i] = p

\* A sequence that has each of finitely many elements at most once, and is as
\* long as they are many, has them all.
LEMMA Pigeonhole ==
    ASSUME NEW S, IsFiniteSet(S), NEW s \in Seq(S), RunsNoneTwice(s),
           Len(s) = Cardinality(S)
    PROVE  \A p \in S : \E i \in 1..Len(s) : s[i] = p
<1>1. Len(s) \in Nat /\ s \in [1..Len(s) -> S]
  OBVIOUS
<1>2. Cardinality(1..Len(s)) = Len(s)
  <2>1. Cardinality(1..Len(s)) = IF 1 > Len(s) THEN 0 ELSE Len(s) - 1 + 1
    <3>1. 1 \in Int /\ Len(s) \in Int
      BY <1>1
    <3> QED
      BY <3>1, FS_Interval, Zenon
  <2> QED
    BY <1>1, <2>1
<1>3. s \in Injection(1..Len(s), S)
  BY <1>1 DEF RunsNoneTwice, Injection, IsInjective
<1>4. s \in Surjection(1..Len(s), S)
  BY <1>2, <1>3, FS_Injection
<1> QED
  BY <1>4 DEF Surjection

(* An order that ValidOrders builds from the front takes each phase of the *)
(* pipeline exactly once.                                                  *)
LEMMA OrdersRunEachOnce ==
    ASSUME NEW d, IsFiniteSet(DOMAIN d), NEW s \in ValidOrders(d)
    PROVE  /\ s \in Seq(DOMAIN d) /\ RunsNoneTwice(s) /\ RunsAll(d, s)
           /\ ValidOrder(d, s)
<1> DEFINE n == Cardinality(DOMAIN d)
           Partial == {q \in Seq(DOMAIN d) : RunsNoneTwice(q)}
           X == SUBSET Partial
           e(S) == UNION {{Append(q, p) : p \in {r \in DOMAIN d : MayFollow(d, q, r)}} : q \in S}
           start == {<< >>}
           F == [kS \in (1..n) \X X |-> e(kS[2])]
           first[k \in 0..n] == IF k = 0 THEN start ELSE e(first[k - 1])
<1>1. n \in Nat
  BY FS_CardinalityType
<1>2. ASSUME NEW S \in X PROVE e(S) \in X
  <2>1. ASSUME NEW q \in S, NEW p \in DOMAIN d, MayFollow(d, q, p)
        PROVE  Append(q, p) \in Partial
    <3>1. q \in Seq(DOMAIN d) /\ RunsNoneTwice(q)
      OBVIOUS
    <3>2. \A i \in 1..Len(q) : q[i] # p
      BY <2>1 DEF MayFollow
    <3>3. RunsNoneTwice(Append(q, p))
      BY <3>1, <3>2 DEF RunsNoneTwice
    <3> QED
      BY <3>1, <3>3
  <2>2. ASSUME NEW y \in e(S) PROVE y \in Partial
    <3>1. PICK q \in S : \E p \in {r \in DOMAIN d : MayFollow(d, q, r)} : y = Append(q, p)
      OBVIOUS
    <3> HIDE DEF Partial
    <3> QED
      BY <2>1, <3>1
  <2> HIDE DEF Partial, e
  <2> QED
    BY <2>2
<1>3. F \in Steps(n, X)
  <2> HIDE DEF X, e
  <2> QED
    BY <1>2 DEF Steps
<1>4. start \in X
  BY DEF RunsNoneTwice
<1>5. PICK g : Iterates(n, X, F, start, g)
  <2> HIDE DEF X, F, n, start
  <2> QED
    BY <1>1, <1>3, <1>4, Iteration
<1>6. g = [k \in 0..n |-> IF k = 0 THEN start ELSE e(g[k - 1])]
  <2>1. g \in [0..n -> X] /\ g[0] = start
    BY <1>5 DEF Iterates
  <2>2. ASSUME NEW k \in 1..n PROVE g[k] = e(g[k - 1])
    <3>1. <<k, g[k - 1]>> \in (1..n) \X X
      BY <1>1, <2>1
    <3>2. g[k] = F[<<k, g[k - 1]>>]
      BY <1>5 DEF Iterates
    <3> HIDE DEF X, e
    <3> QED
      BY <3>1, <3>2
  <2> HIDE DEF X, e, n
  <2> QED
    BY <1>1, <2>1, <2>2
<1>7. first = [k \in 0..n |-> IF k = 0 THEN start ELSE e(first[k - 1])]
  <2> HIDE DEF e, n
  <2> QED
    BY <1>6
<1>8. first[n] \in X
  <2>1. ASSUME NEW h, h = [k \in 0..n |-> IF k = 0 THEN start ELSE e(h[k - 1])]
        PROVE  h[n] \in X
    <3> DEFINE T == {k \in Nat : k <= n => h[k] \in X}
    <3>1. 0 \in T
      <4>1. h[0] = start
        BY <1>1, <2>1
      <4> HIDE DEF X
      <4> QED
        BY <1>4, <4>1
    <3>2. ASSUME NEW k \in Nat, k \in T PROVE k + 1 \in T
      <4>1. k + 1 <= n => h[k + 1] = e(h[k])
        <5> HIDE DEF e, n
        <5>1. ASSUME NEW m \in 0..n, m # 0 PROVE h[m] = e(h[m - 1])
          <6>1. h[m] = IF m = 0 THEN start ELSE e(h[m - 1])
            BY <2>1, Zenon
          <6> QED
            BY <5>1, <6>1
        <5>2. ASSUME k + 1 <= n PROVE k + 1 \in 0..n /\ k + 1 # 0 /\ k + 1 - 1 = k
          BY <1>1, <5>2
        <5> QED
          BY <5>1, <5>2
      <4> HIDE DEF X, e
      <4> QED
        BY <1>1, <1>2, <3>2, <4>1
    <3>3. \A k \in Nat : k \in T
      <4> HIDE DEF T
      <4> QED
        BY <3>1, <3>2, NumberInduction
    <3> QED
      BY <1>1, <3>3
  <2> HIDE DEF first, X, n
  <2> QED
    BY <1>7, <2>1
<1>9. s \in first[n] /\ ValidOrder(d, s)
  BY DEF ValidOrders
<1>10. s \in Seq(DOMAIN d) /\ RunsNoneTwice(s)
  BY <1>8, <1>9
<1>11. Len(s) = n
  BY <1>9 DEF ValidOrder
<1> QED
  BY <1>9, <1>10, <1>11, Pigeonhole DEF RunsAll
=============================================================================
