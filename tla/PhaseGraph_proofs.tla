-------------------------- MODULE PhaseGraph_proofs --------------------------
(***************************************************************************)
(* sortPhases, for every pipeline of every size: what it hands to the      *)
(* topological sort is a graph the sort is right about, and the trees of   *)
(* phases it merges are chains.  So every order it returns is topological  *)
(* and gives each phase the place it declared, every cycle it reports is   *)
(* there, and a pipeline it refuses has no such order.                     *)
(***************************************************************************)
EXTENDS PhaseGraph, Induction, PhaseOrder_proofs, FiniteSetTheorems

----------------------------------------------------------------------------
(* The depth-first search keeps SortInvariant, and the invariant implies   *)
(* what is wanted of the sort.  Nothing is assumed of the graph: any set   *)
(* of nodes, any edges, cycles or not.                                     *)

(* Appending adds one element at the end.                                  *)
LEMMA AppendAtEnd ==
    ASSUME NEW S, NEW s \in Seq(S), NEW e \in S
    PROVE  /\ Append(s, e) \in Seq(S)
           /\ Append(s, e) # << >>
           /\ Len(Append(s, e)) = Len(s) + 1
           /\ \A i \in 1..Len(s) : Append(s, e)[i] = s[i]
           /\ Append(s, e)[Len(s) + 1] = e
  OBVIOUS

(* The sort starts in a state that satisfies the invariant: nothing is     *)
(* marked, nothing is on the stack or in the result.                       *)
LEMMA SortStartInvariant == SortStart => SortInv
<1> SUFFICES ASSUME SortStart PROVE SortInv
  OBVIOUS
<1>1. SortTyped
  BY DEF SortStart, SortTyped, Mark
<1>2. StackIsPath /\ PassedAreDone
  BY DEF SortStart, StackIsPath, PassedAreDone
<1>3. ResultSoFar
  BY DEF SortStart, ResultSoFar, RespectsEdges
<1> QED
  BY <1>1, <1>2, <1>3 DEF SortStart, SortInv, CyclicOnlyWithCycle

-----------------------------------------------------------------------------
(* A new root is alone on the stack.                                       *)
LEMMA VisitRootKeeps ==
    ASSUME SortInv, NEW n \in nodes, VisitRoot(n)
    PROVE  SortInv'
<1> DEFINE F == [node |-> n, todo |-> edges[n]]
<1>1. /\ stack' = <<F>> /\ Len(stack') = 1 /\ stack'[1] = F
      /\ UNCHANGED <<nodes, edges, ordered, status>>
      /\ status = "visiting" /\ Len(stack) = 0 /\ mark[n] = "unmarked"
      /\ mark' = [mark EXCEPT ![n] = "temporary"]
  BY DEF VisitRoot
<1>2. SortTyped /\ StackIsPath /\ PassedAreDone /\ ResultSoFar
  BY DEF SortInv
<1>3. /\ \A x \in nodes : mark'[x] = IF x = n THEN "temporary" ELSE mark[x]
      /\ \A x \in nodes : mark[x] # "temporary"
  BY <1>1, <1>2 DEF SortTyped, StackIsPath
<1>4. SortTyped'
  BY <1>1, <1>2 DEF SortTyped, Mark
<1>5. StackIsPath'
  BY <1>1, <1>3 DEF StackIsPath
<1>6. PassedAreDone'
  BY <1>1 DEF PassedAreDone
<1>7. ResultSoFar'
  BY <1>1, <1>2, <1>3 DEF ResultSoFar, RespectsEdges
<1> QED
  BY <1>1, <1>4, <1>5, <1>6, <1>7 DEF SortInv, CyclicOnlyWithCycle

(* The innermost call of a nonempty stack and the calls below it.          *)
LEMMA TopProperties ==
    ASSUME SortTyped, stack # << >>
    PROVE  /\ Len(stack) \in Nat \ {0}
           /\ Top = stack[Len(stack)]
           /\ Top \in [node : nodes, todo : SUBSET nodes]
           /\ Pop \in Seq([node : nodes, todo : SUBSET nodes])
           /\ Len(Pop) = Len(stack) - 1
           /\ \A i \in 1..(Len(stack) - 1) : Pop[i] = stack[i]
<1>1. stack \in Seq([node : nodes, todo : SUBSET nodes])
  BY DEF SortTyped
<1>2. Len(stack) \in Nat \ {0}
  BY <1>1, EmptySeq
<1>3. Top \in [node : nodes, todo : SUBSET nodes]
  <2>1. Len(stack) \in 1..Len(stack)
    BY <1>2
  <2> QED
    BY <1>1, <2>1, ElementOfSeq DEF Top
<1>4. /\ Pop \in Seq([node : nodes, todo : SUBSET nodes]) /\ Len(Pop) = Len(stack) - 1
      /\ \A i \in 1..(Len(stack) - 1) : Pop[i] = stack[i]
  <2> DEFINE Frames == [node : nodes, todo : SUBSET nodes]
  <2>1. stack \in Seq(Frames) /\ Len(stack) > 0
    BY <1>1, <1>2
  <2> HIDE DEF Frames
  <2>2. /\ Pop \in Seq(Frames) /\ Len(Pop) = Len(stack) - 1
        /\ \A i \in 1..(Len(stack) - 1) : Pop[i] = stack[i]
    BY <2>1, FrontOfSeq DEF Pop
  <2> QED
    BY <2>2 DEF Frames
<1> QED
  BY <1>2, <1>3, <1>4 DEF Top

(* Moving the innermost loop past a neighbour changes nothing else.        *)
LEMMA AdvanceProperties ==
    ASSUME SortTyped, stack # << >>, NEW m
    PROVE  LET s == Append(Pop, TopWithout(m))
           IN  /\ s \in Seq([node : nodes, todo : SUBSET nodes])
               /\ Len(s) = Len(stack)
               /\ \A i \in 1..Len(stack) :
                     /\ s[i].node = stack[i].node
                     /\ s[i].todo = IF i = Len(stack) THEN Top.todo \ {m} ELSE stack[i].todo
<1> DEFINE s == Append(Pop, TopWithout(m))
<1> DEFINE T == TopWithout(m)
           K == Len(stack)
<1>1. /\ K \in Nat \ {0} /\ Top = stack[K]
      /\ Top \in [node : nodes, todo : SUBSET nodes]
      /\ Pop \in Seq([node : nodes, todo : SUBSET nodes]) /\ Len(Pop) = K - 1
      /\ \A i \in 1..(K - 1) : Pop[i] = stack[i]
  BY TopProperties
<1>2. /\ T \in [node : nodes, todo : SUBSET nodes]
      /\ T.node = Top.node /\ T.todo = Top.todo \ {m}
  BY <1>1 DEF TopWithout
<1> HIDE DEF T, K, s
<1>3. /\ s \in Seq([node : nodes, todo : SUBSET nodes]) /\ Len(s) = K
      /\ \A i \in 1..(K - 1) : s[i] = stack[i]
      /\ s[K] = T
  <2>1. s = Append(Pop, T)
    BY DEF T, s
  <2> QED
    BY <1>1, <1>2, <2>1, AppendAtEnd
<1>4. ASSUME NEW i \in 1..K
      PROVE  /\ s[i].node = stack[i].node
             /\ s[i].todo = IF i = K THEN Top.todo \ {m} ELSE stack[i].todo
  <2>1. CASE i = K
    BY <2>1, <1>1, <1>2, <1>3
  <2>2. CASE i \in 1..(K - 1)
    BY <2>2, <1>1, <1>3
  <2> QED
    BY <2>1, <2>2, <1>1
<1> QED
  BY <1>3, <1>4 DEF K, s

(* Passing a neighbour that is done: the path stays as it is.              *)
LEMMA PassNeighborKeeps ==
    ASSUME SortInv, NEW m \in nodes, VisitNeighbor(m), mark[m] # "unmarked"
    PROVE  SortInv'
<1> DEFINE K == Len(stack)
           s == Append(Pop, TopWithout(m))
<1>1. /\ UNCHANGED <<nodes, edges, mark, ordered, status>>
      /\ status = "visiting" /\ stack # << >> /\ m \in Top.todo /\ mark[m] # "temporary"
      /\ stack' = s
  BY DEF VisitNeighbor
<1>2. SortTyped /\ StackIsPath /\ PassedAreDone /\ ResultSoFar
  BY DEF SortInv
<1>3. /\ stack' \in Seq([node : nodes, todo : SUBSET nodes])
      /\ Len(stack') = K
      /\ \A i \in 1..K :
            /\ stack'[i].node = stack[i].node
            /\ stack'[i].todo = IF i = K THEN Top.todo \ {m} ELSE stack[i].todo
  BY <1>1, <1>2, AdvanceProperties
<1>4. K \in Nat \ {0} /\ Top = stack[K]
  BY <1>1, <1>2, TopProperties
<1>5. SortTyped'
  BY <1>1, <1>2, <1>3 DEF SortTyped
<1>6. StackIsPath'
  <2>1. /\ \A x \in nodes : mark[x] = "temporary" <=> \E k \in 1..K : stack'[k].node = x
        /\ \A k, l \in 1..K : stack'[k].node = stack'[l].node => k = l
    <3>1. /\ \A x \in nodes : mark[x] = "temporary" <=> \E k \in 1..K : stack[k].node = x
          /\ \A k, l \in 1..K : stack[k].node = stack[l].node => k = l
      BY <1>2 DEF StackIsPath
    <3>2. \A k \in 1..K : stack'[k].node = stack[k].node
      BY <1>3
    <3> HIDE DEF K, s
    <3> QED
      BY <3>1, <3>2
  <2>2. \A k \in 1..(K - 1) : stack'[k + 1].node \in edges[stack'[k].node]
    <3> SUFFICES ASSUME NEW k \in 1..(K - 1)
                 PROVE  stack'[k + 1].node \in edges[stack'[k].node]
      OBVIOUS
    <3>1. k \in 1..K /\ k + 1 \in 1..K
      BY <1>4
    <3> QED
      BY <3>1, <1>2, <1>3 DEF StackIsPath
  <2>3. \A k \in 1..K : stack'[k].todo \subseteq edges[stack'[k].node]
    BY <1>2, <1>3, <1>4 DEF StackIsPath
  <2> HIDE DEF K
  <2> QED
    BY <1>1, <1>3, <2>1, <2>2, <2>3 DEF StackIsPath
<1>7. PassedAreDone'
  <2> SUFFICES ASSUME NEW k \in 1..K, NEW x \in edges[stack[k].node] \ stack'[k].todo
               PROVE  mark[x] = "permanent" \/ (k < K /\ x = stack[k + 1].node)
    BY <1>1, <1>3, <1>4 DEF PassedAreDone
  <2>1. CASE k = K /\ x = m
    BY <2>1, <1>1, <1>2 DEF SortTyped, Mark
  <2>2. CASE k # K \/ x # m
    BY <2>2, <1>2, <1>3, <1>4 DEF PassedAreDone
  <2> QED
    BY <2>1, <2>2
<1>8. ResultSoFar'
  <2>1. UNCHANGED <<nodes, edges, mark, ordered>>
    BY <1>1
  <2>2. ResultSoFar
    BY <1>2
  <2>3. RespectsEdges(ordered) => RespectsEdges(ordered)'
    BY <2>1 DEF RespectsEdges
  <2> HIDE DEF K, s
  <2> QED
    BY <2>1, <2>2, <2>3 DEF ResultSoFar
<1> QED
  BY <1>1, <1>5, <1>6, <1>7, <1>8 DEF SortInv, CyclicOnlyWithCycle

(* Entering a neighbour extends the path by one edge.                      *)
LEMMA EnterNeighborKeeps ==
    ASSUME SortInv, NEW m \in nodes, VisitNeighbor(m), mark[m] = "unmarked"
    PROVE  SortInv'
<1> DEFINE K == Len(stack)
           F == [node |-> m, todo |-> edges[m]]
           s == Append(Pop, TopWithout(m))
<1>1. /\ UNCHANGED <<nodes, edges, ordered, status>>
      /\ status = "visiting" /\ stack # << >> /\ m \in Top.todo
      /\ stack' = Append(s, F)
      /\ mark' = [mark EXCEPT ![m] = "temporary"]
  BY DEF VisitNeighbor
<1>2. SortTyped /\ StackIsPath /\ PassedAreDone /\ ResultSoFar
  BY DEF SortInv
<1>3. /\ s \in Seq([node : nodes, todo : SUBSET nodes])
      /\ Len(s) = K
      /\ \A i \in 1..K :
            /\ s[i].node = stack[i].node
            /\ s[i].todo = IF i = K THEN Top.todo \ {m} ELSE stack[i].todo
  BY <1>1, <1>2, AdvanceProperties
<1>4. K \in Nat \ {0} /\ Top = stack[K]
  BY <1>1, <1>2, TopProperties
<1>5. F \in [node : nodes, todo : SUBSET nodes] /\ F.node = m /\ F.todo = edges[m]
  BY <1>2 DEF SortTyped
<1> HIDE DEF s, F
<1>6. /\ stack' \in Seq([node : nodes, todo : SUBSET nodes])
      /\ Len(stack') = K + 1
      /\ \A i \in 1..K :
            /\ stack'[i].node = stack[i].node
            /\ stack'[i].todo = IF i = K THEN Top.todo \ {m} ELSE stack[i].todo
      /\ stack'[K + 1].node = m /\ stack'[K + 1].todo = edges[m]
  <2>1. stack' \in Seq([node : nodes, todo : SUBSET nodes]) /\ Len(stack') = K + 1
    BY <1>1, <1>3, <1>5, AppendAtEnd
  <2>2. stack'[K + 1] = F /\ \A i \in 1..K : stack'[i] = s[i]
    BY <1>1, <1>3, <1>5, AppendAtEnd
  <2> QED
    BY <1>3, <1>5, <2>1, <2>2
<1>7. \A x \in nodes : mark'[x] = IF x = m THEN "temporary" ELSE mark[x]
  BY <1>1, <1>2 DEF SortTyped
<1>8. \A i \in 1..K : stack[i].node \in nodes /\ stack[i].node # m
  <2> SUFFICES ASSUME NEW i \in 1..K PROVE stack[i].node \in nodes /\ stack[i].node # m
    OBVIOUS
  <2>1. stack[i] \in [node : nodes, todo : SUBSET nodes]
    BY <1>2, ElementOfSeq DEF SortTyped
  <2> QED
    BY <2>1, <1>2 DEF StackIsPath
<1>9. SortTyped'
  BY <1>1, <1>2, <1>6 DEF SortTyped, Mark
<1>10. StackIsPath'
  <2>1. \A x \in nodes : mark'[x] = "temporary" <=> \E k \in 1..(K + 1) : stack'[k].node = x
    <3> SUFFICES ASSUME NEW x \in nodes
                 PROVE  mark'[x] = "temporary" <=> \E k \in 1..(K + 1) : stack'[k].node = x
      OBVIOUS
    <3>1. CASE x = m
      BY <3>1, <1>4, <1>6, <1>7
    <3>2. CASE x # m
      <4>1. mark'[x] = "temporary" <=> \E k \in 1..K : stack[k].node = x
        BY <3>2, <1>2, <1>7 DEF StackIsPath
      <4>2. (\E k \in 1..K : stack[k].node = x) <=> \E k \in 1..(K + 1) : stack'[k].node = x
        BY <3>2, <1>4, <1>6
      <4> QED
        BY <4>1, <4>2
    <3> QED
      BY <3>1, <3>2
  <2>2. \A k, l \in 1..(K + 1) : stack'[k].node = stack'[l].node => k = l
    <3> SUFFICES ASSUME NEW k \in 1..(K + 1), NEW l \in 1..(K + 1),
                        stack'[k].node = stack'[l].node
                 PROVE  k = l
      OBVIOUS
    <3>1. CASE k \in 1..K /\ l \in 1..K
      BY <3>1, <1>2, <1>6 DEF StackIsPath
    <3>2. CASE k = K + 1 \/ l = K + 1
      BY <3>2, <1>4, <1>6, <1>8
    <3> QED
      BY <3>1, <3>2, <1>4
  <2>3. \A k \in 1..K : stack'[k + 1].node \in edges[stack'[k].node]
    <3> SUFFICES ASSUME NEW k \in 1..K
                 PROVE  stack'[k + 1].node \in edges[stack[k].node]
      BY <1>6
    <3>1. CASE k = K
      BY <3>1, <1>1, <1>2, <1>4, <1>6 DEF StackIsPath
    <3>2. CASE k \in 1..(K - 1)
      BY <3>2, <1>2, <1>4, <1>6 DEF StackIsPath
    <3> QED
      BY <3>1, <3>2, <1>4
  <2>4. \A k \in 1..(K + 1) : stack'[k].todo \subseteq edges[stack'[k].node]
    BY <1>2, <1>4, <1>6 DEF StackIsPath
  <2>5. Len(stack') - 1 = K
    BY <1>4, <1>6
  <2> HIDE DEF K
  <2> QED
    BY <1>1, <1>6, <2>1, <2>2, <2>3, <2>4, <2>5 DEF StackIsPath
<1>11. PassedAreDone'
  <2> SUFFICES ASSUME NEW k \in 1..(K + 1), NEW x \in edges[stack'[k].node] \ stack'[k].todo
               PROVE  mark'[x] = "permanent" \/ (k < K + 1 /\ x = stack'[k + 1].node)
    BY <1>1, <1>6 DEF PassedAreDone
  <2>1. k \in 1..K
    BY <1>4, <1>6
  <2>2. CASE k = K /\ x = m
    BY <2>2, <1>4, <1>6
  <2>3. CASE k # K \/ x # m
    <3>1. x \in edges[stack[k].node] \ stack[k].todo
      BY <2>1, <2>3, <1>4, <1>6
    <3>2. mark[x] = "permanent" \/ (k < K /\ x = stack[k + 1].node)
      BY <2>1, <3>1, <1>2 DEF PassedAreDone
    <3>3. CASE mark[x] = "permanent"
      <4>1. x \in nodes
        BY <2>1, <3>1, <1>2, <1>8 DEF SortTyped
      <4> QED
        BY <3>3, <4>1, <1>7
    <3>4. CASE k < K /\ x = stack[k + 1].node
      BY <3>4, <2>1, <1>4, <1>6
    <3> QED
      BY <3>2, <3>3, <3>4
  <2> QED
    BY <2>2, <2>3
<1>12. ResultSoFar'
  BY <1>1, <1>2, <1>7 DEF ResultSoFar, RespectsEdges
<1> QED
  BY <1>1, <1>9, <1>10, <1>11, <1>12 DEF SortInv, CyclicOnlyWithCycle

(* A call that returns hands its node from the stack to the result.        *)
LEMMA FinishKeeps ==
    ASSUME SortInv, Finish
    PROVE  SortInv'
<1> DEFINE K == Len(stack)
           L == Len(ordered)
           t == Top.node
<1>1. /\ UNCHANGED <<nodes, edges, status>>
      /\ status = "visiting" /\ stack # << >> /\ Top.todo = {}
      /\ stack' = Pop
      /\ ordered' = Append(ordered, t)
      /\ mark' = [mark EXCEPT ![t] = "permanent"]
  BY DEF Finish
<1>2. SortTyped /\ StackIsPath /\ PassedAreDone /\ ResultSoFar
  BY DEF SortInv
<1>3. /\ K \in Nat \ {0} /\ K \in 1..K /\ Top = stack[K]
      /\ t \in nodes
      /\ stack' \in Seq([node : nodes, todo : SUBSET nodes])
      /\ Len(stack') = K - 1
      /\ \A i \in 1..(K - 1) : i \in 1..K /\ stack'[i] = stack[i]
  BY <1>1, <1>2, TopProperties
<1>4. /\ ordered' \in Seq(nodes)
      /\ L \in Nat /\ Len(ordered') = L + 1
      /\ \A i \in 1..L : ordered'[i] = ordered[i]
      /\ ordered'[L + 1] = t
  BY <1>1, <1>2, <1>3, AppendAtEnd DEF SortTyped
<1>5. /\ \A x \in nodes : mark'[x] = IF x = t THEN "permanent" ELSE mark[x]
      /\ mark[t] = "temporary"
  BY <1>1, <1>2, <1>3 DEF SortTyped, StackIsPath
<1>6. \A k \in 1..(K - 1) : stack[k].node # t
  BY <1>2, <1>3 DEF StackIsPath
<1> HIDE DEF K, L, t
<1>7. SortTyped'
  BY <1>1, <1>2, <1>3, <1>4 DEF SortTyped, Mark
<1>8. StackIsPath'
  <2>1. \A x \in nodes : mark'[x] = "temporary" <=> \E k \in 1..(K - 1) : stack'[k].node = x
    <3> SUFFICES ASSUME NEW x \in nodes
                 PROVE  mark'[x] = "temporary" <=> \E k \in 1..(K - 1) : stack'[k].node = x
      OBVIOUS
    <3>1. CASE x = t
      BY <3>1, <1>3, <1>5, <1>6
    <3>2. CASE x # t
      <4>1. mark'[x] = "temporary" <=> \E k \in 1..K : stack[k].node = x
        BY <3>2, <1>2, <1>5 DEF StackIsPath, K
      <4>2. stack[K].node = t
        BY <1>3 DEF t
      <4>3. (\E k \in 1..K : stack[k].node = x) <=> \E k \in 1..(K - 1) : stack'[k].node = x
        BY <3>2, <4>2, <1>3
      <4> QED
        BY <4>1, <4>3
    <3> QED
      BY <3>1, <3>2
  <2>2. \A k, l \in 1..(K - 1) : stack'[k].node = stack'[l].node => k = l
    BY <1>2, <1>3 DEF StackIsPath, K
  <2>3. \A k \in 1..(K - 1 - 1) : stack'[k + 1].node \in edges[stack'[k].node]
    <3> SUFFICES ASSUME NEW k \in 1..(K - 1 - 1)
                 PROVE  stack'[k + 1].node \in edges[stack'[k].node]
      OBVIOUS
    <3>1. k \in 1..(K - 1) /\ k + 1 \in 1..(K - 1)
      BY <1>3
    <3> QED
      BY <3>1, <1>2, <1>3 DEF StackIsPath, K
  <2>4. \A k \in 1..(K - 1) : stack'[k].todo \subseteq edges[stack'[k].node]
    BY <1>2, <1>3 DEF StackIsPath, K
  <2> QED
    BY <1>1, <1>3, <2>1, <2>2, <2>3, <2>4 DEF StackIsPath
<1>9. PassedAreDone'
  <2> SUFFICES ASSUME NEW k \in 1..(K - 1), NEW x \in edges[stack[k].node] \ stack[k].todo
               PROVE  mark'[x] = "permanent" \/ (k < K - 1 /\ x = stack'[k + 1].node)
    BY <1>1, <1>3 DEF PassedAreDone
  <2>1. mark[x] = "permanent" \/ (k < K /\ x = stack[k + 1].node)
    BY <1>2, <1>3 DEF PassedAreDone, K
  <2>2. x \in nodes
    <3>1. stack[k] \in [node : nodes, todo : SUBSET nodes]
      BY <1>2, <1>3, ElementOfSeq DEF SortTyped, K
    <3> QED
      BY <3>1, <1>2 DEF SortTyped
  <2>3. CASE mark[x] = "permanent"
    BY <2>2, <2>3, <1>5
  <2>4. CASE x = stack[k + 1].node /\ k + 1 = K
    BY <2>2, <2>4, <1>3, <1>5 DEF t
  <2>5. CASE x = stack[k + 1].node /\ k + 1 # K
    BY <2>5, <1>3
  <2> QED
    BY <2>1, <2>3, <2>4, <2>5
<1>10. ResultSoFar'
  <2>1. \A x \in nodes : mark'[x] = "permanent" <=> \E i \in 1..(L + 1) : ordered'[i] = x
    <3> SUFFICES ASSUME NEW x \in nodes
                 PROVE  mark'[x] = "permanent" <=> \E i \in 1..(L + 1) : ordered'[i] = x
      OBVIOUS
    <3>1. CASE x = t
      BY <3>1, <1>4, <1>5
    <3>2. CASE x # t
      <4>1. mark'[x] = "permanent" <=> \E i \in 1..L : ordered[i] = x
        BY <3>2, <1>2, <1>5 DEF ResultSoFar, L
      <4> QED
        BY <3>2, <4>1, <1>4
    <3> QED
      BY <3>1, <3>2
  <2>2. \A i \in 1..L : ordered[i] # t
    BY <1>2, <1>3, <1>5 DEF ResultSoFar, L
  <2>3. \A i, j \in 1..(L + 1) : ordered'[i] = ordered'[j] => i = j
    <3> SUFFICES ASSUME NEW i \in 1..(L + 1), NEW j \in 1..(L + 1), ordered'[i] = ordered'[j]
                 PROVE  i = j
      OBVIOUS
    <3>1. CASE i \in 1..L /\ j \in 1..L
      BY <3>1, <1>2, <1>4 DEF ResultSoFar, L
    <3>2. CASE i = L + 1 \/ j = L + 1
      BY <3>2, <2>2, <1>4
    <3> QED
      BY <3>1, <3>2, <1>4
  <2>4. \A i \in 1..(L + 1) : \A m \in edges[ordered'[i]] :
           \E j \in 1..(L + 1) : j < i /\ ordered'[j] = m
    <3> SUFFICES ASSUME NEW i \in 1..(L + 1), NEW m \in edges[ordered'[i]]
                 PROVE  \E j \in 1..(L + 1) : j < i /\ ordered'[j] = m
      OBVIOUS
    <3>1. CASE i \in 1..L
      <4>1. PICK j \in 1..L : j < i /\ ordered[j] = m
        BY <3>1, <1>2, <1>4 DEF ResultSoFar, RespectsEdges, L
      <4> QED
        BY <4>1, <1>4
    <3>2. CASE i = L + 1
      <4>1. m \in edges[t] /\ m \in nodes
        BY <3>2, <1>2, <1>3, <1>4 DEF SortTyped
      <4>2. mark[m] = "permanent"
        <5>1. m \in edges[stack[K].node] \ stack[K].todo
          BY <4>1, <1>1, <1>3 DEF t
        <5> QED
          BY <5>1, <1>2, <1>3 DEF PassedAreDone, K
      <4>3. PICK j \in 1..L : ordered[j] = m
        BY <4>1, <4>2, <1>2 DEF ResultSoFar, L
      <4> QED
        BY <4>3, <3>2, <1>4
    <3> QED
      BY <3>1, <3>2, <1>4
  <2>5. RespectsEdges(ordered)'
    <3>1. edges' = edges /\ Len(ordered') = L + 1
      BY <1>1, <1>4
    <3> QED
      BY <3>1, <2>4 DEF RespectsEdges
  <2> QED
    BY <1>1, <1>4, <2>1, <2>3, <2>5 DEF ResultSoFar
<1> QED
  BY <1>1, <1>7, <1>8, <1>9, <1>10 DEF SortInv, CyclicOnlyWithCycle

(* A temporarily marked neighbour closes a path that is on the stack.      *)
LEMMA FoundCycleKeeps ==
    ASSUME SortInv, NEW m \in nodes, FoundCycle(m)
    PROVE  SortInv'
<1> DEFINE K == Len(stack)
<1>1. /\ UNCHANGED <<nodes, edges, mark, stack, ordered>>
      /\ status' = "cyclic" /\ stack # << >> /\ m \in Top.todo /\ mark[m] = "temporary"
  BY DEF FoundCycle
<1>2. SortTyped /\ StackIsPath /\ PassedAreDone /\ ResultSoFar
  BY DEF SortInv
<1>3. K \in Nat \ {0} /\ Top = stack[K]
  BY <1>1, <1>2, TopProperties
<1>4. PICK k \in 1..K : stack[k].node = m
  BY <1>1, <1>2 DEF StackIsPath
<1> DEFINE n == K - k + 1
           c == [i \in 1..n |-> stack[k + i - 1].node]
<1>5. n \in Nat \ {0}
  BY <1>3
<1>6. Len(c) = n /\ c # << >> /\ \A i \in 1..n : c[i] = stack[k + i - 1].node
  <2> HIDE DEF n
  <2> QED
    BY <1>5
<1>7. IsCycle(c)
  <2>1. \A i \in 1..(n - 1) : c[i + 1] \in edges[c[i]]
    <3> SUFFICES ASSUME NEW i \in 1..(n - 1) PROVE c[i + 1] \in edges[c[i]]
      OBVIOUS
    <3>1. /\ k + i - 1 \in 1..(K - 1)
          /\ c[i] = stack[k + i - 1].node
          /\ c[i + 1] = stack[(k + i - 1) + 1].node
      <4>1. i \in 1..n /\ i + 1 \in 1..n /\ k + i - 1 \in 1..(K - 1)
            /\ k + (i + 1) - 1 = (k + i - 1) + 1
        BY <1>3
      <4> HIDE DEF c, n
      <4> QED
        BY <4>1, <1>6
    <3> HIDE DEF c, n
    <3> QED
      BY <3>1, <1>2 DEF StackIsPath
  <2>2. c[1] \in edges[c[n]]
    <3>1. c[1] = stack[k].node /\ c[n] = stack[K].node
      <4>1. 1 \in 1..n /\ n \in 1..n /\ k + 1 - 1 = k /\ k + n - 1 = K
        BY <1>3, <1>5
      <4> HIDE DEF c, n
      <4> QED
        BY <4>1, <1>6
    <3>2. m \in edges[stack[K].node]
      BY <1>1, <1>2, <1>3 DEF StackIsPath
    <3> HIDE DEF c, n
    <3> QED
      BY <3>1, <3>2, <1>4
  <2> HIDE DEF c, n
  <2> QED
    BY <1>6, <2>1, <2>2 DEF IsCycle
<1>8. (\E j \in 1..Len(stack) : IsCycle(PathFrom(j)))'
  <2>1. IsCycle(PathFrom(k))
    BY <1>7 DEF PathFrom
  <2>2. IsCycle(PathFrom(k))'
    <3>1. PathFrom(k)' = PathFrom(k)
      BY <1>1 DEF PathFrom
    <3> QED
      BY <2>1, <3>1, <1>1 DEF IsCycle
  <2> QED
    BY <2>2, <1>1
<1>9. (SortTyped /\ StackIsPath /\ PassedAreDone /\ ResultSoFar)'
  BY <1>1, <1>2
  DEF SortTyped, StackIsPath, PassedAreDone, ResultSoFar, RespectsEdges
<1> QED
  BY <1>1, <1>8, <1>9 DEF SortInv, CyclicOnlyWithCycle

(* When no root is left nothing is left unmarked, and nothing is on the    *)
(* stack, so everything is in the result.                                  *)
LEMMA SortedKeeps ==
    ASSUME SortInv, Sorted
    PROVE  SortInv'
<1>1. /\ UNCHANGED <<nodes, edges, mark, stack, ordered>>
      /\ status' = "sorted" /\ Len(stack) = 0 /\ \A n \in nodes : mark[n] # "unmarked"
  BY DEF Sorted
<1>2. SortTyped /\ StackIsPath /\ PassedAreDone /\ ResultSoFar
  BY DEF SortInv
<1>3. \A n \in nodes : mark[n] = "permanent"
  BY <1>1, <1>2 DEF SortTyped, StackIsPath, Mark
<1>4. (SortTyped /\ StackIsPath /\ PassedAreDone /\ ResultSoFar)'
  BY <1>1, <1>2
  DEF SortTyped, StackIsPath, PassedAreDone, ResultSoFar, RespectsEdges
<1> QED
  BY <1>1, <1>3, <1>4 DEF SortInv, CyclicOnlyWithCycle

-----------------------------------------------------------------------------
(* Every step of the sort keeps the invariant.                             *)
LEMMA SortStepInvariant == SortInvariant /\ [SortStep]_sortVars => SortInvariant'
<1> SUFFICES ASSUME SortInvariant, [SortStep]_sortVars
             PROVE  SortInvariant'
  OBVIOUS
<1>1. moved' = moved
  BY DEF SortStep, VisitRoot, VisitNeighbor, FoundCycle, VisitStale, Finish, Sorted, sortVars
<1>2. CASE moved
  BY <1>1, <1>2 DEF SortInvariant
<1>3. CASE ~ moved
  <2>1. SortInv
    BY <1>3 DEF SortInvariant
  <2>2. ASSUME NEW n \in nodes, VisitRoot(n) PROVE SortInv'
    BY <2>1, <2>2, VisitRootKeeps
  <2>3. ASSUME NEW m \in nodes, VisitNeighbor(m) PROVE SortInv'
    BY <2>1, <2>3, PassNeighborKeeps, EnterNeighborKeeps
  <2>4. ASSUME NEW m \in nodes, FoundCycle(m) PROVE SortInv'
    BY <2>1, <2>4, FoundCycleKeeps
  <2>5. ASSUME NEW m \in nodes, VisitStale(m) PROVE SortInv'
    BY <2>5, <1>3 DEF VisitStale
  <2>6. ASSUME Finish PROVE SortInv'
    BY <2>1, <2>6, FinishKeeps
  <2>7. ASSUME Sorted PROVE SortInv'
    BY <2>1, <2>7, SortedKeeps
  <2>8. ASSUME UNCHANGED sortVars PROVE SortInv'
    <3>1. UNCHANGED <<nodes, edges, moved, mark, stack, ordered, status>>
      BY <2>8 DEF sortVars
    <3>2. (SortTyped /\ StackIsPath /\ PassedAreDone /\ ResultSoFar)'
      BY <2>1, <3>1
      DEF SortInv, SortTyped, StackIsPath, PassedAreDone, ResultSoFar, RespectsEdges
    <3>3. CyclicOnlyWithCycle'
      <4>1. \A k : PathFrom(k)' = PathFrom(k)
        BY <3>1 DEF PathFrom
      <4> QED
        BY <2>1, <3>1, <4>1 DEF SortInv, CyclicOnlyWithCycle, IsCycle
    <3> QED
      BY <2>1, <3>1, <3>2, <3>3 DEF SortInv
  <2> QED
    BY <2>2, <2>3, <2>4, <2>5, <2>6, <2>7, <2>8 DEF SortStep, SortInvariant
<1> QED
  BY <1>2, <1>3

(* The invariant implies what is wanted of the sort.                       *)
LEMMA SortInvariantSuffices ==
    SortInvariant => SortedIsTopological /\ CyclicOnlyWithCycle
<1>1. CASE moved
  BY <1>1 DEF SortedIsTopological, CyclicOnlyWithCycle
<1>2. CASE ~ moved /\ SortInv
  <2>1. CyclicOnlyWithCycle /\ SortTyped /\ ResultSoFar
    BY <1>2 DEF SortInv
  <2>2. ASSUME status = "sorted"
        PROVE  Enumerates(ordered, nodes) /\ RespectsEdges(ordered)
    <3>1. \A n \in nodes : \E i \in 1..Len(ordered) : ordered[i] = n
      BY <1>2, <2>1, <2>2 DEF SortInv, ResultSoFar
    <3>2. \A i \in 1..Len(ordered) : ordered[i] \in nodes
      BY <2>1, ElementOfSeq DEF SortTyped
    <3>3. Elements(ordered) = nodes
      BY <3>1, <3>2 DEF Elements
    <3> QED
      BY <2>1, <3>3 DEF ResultSoFar, Enumerates
  <2> QED
    BY <2>1, <2>2 DEF SortedIsTopological
<1> QED
  BY <1>1, <1>2 DEF SortInvariant

(* topologicalSort on any graph: if it returns, the result is a            *)
(* topological order of the graph, and if it throws, the graph has a cycle *)
(* (the calls on its stack are one).                                       *)
THEOREM SortCorrect == SortSpec => [](SortedIsTopological /\ CyclicOnlyWithCycle)
<1>1. SortStart /\ moved = FALSE => SortInvariant
  BY SortStartInvariant DEF SortInvariant
<1> QED
  BY <1>1, SortStepInvariant, SortInvariantSuffices, PTL DEF SortSpec

----------------------------------------------------------------------------
(* The sort as sortPhases uses it *)

Before == {"declared", "edged", "related", "linked", "merged",
           "duplicateName", "unknownName", "severalHard", "hardCycle"}

(* The graph that createUniqueNodes builds is a fresh one, with edges      *)
(* between its own nodes only.                                             *)
LEMMA CreateUniqueNodesFresh ==
    ASSUME CreateUniqueNodes, stack = << >>, ordered = << >>
    PROVE  SortInv'
<1>1. /\ nodes' = MergedNodes \cup LoneNodes
      /\ edges' = [n \in nodes' |->
                    {NodeOf(e.from) : e \in {f \in SoftEdges : NodeOf(f.to) = n}}]
      /\ mark' = [n \in nodes' |-> "unmarked"]
      /\ status' = "visiting"
      /\ stack' = << >> /\ ordered' = << >>
  BY DEF CreateUniqueNodes
<1>2. ASSUME NEW e \in SoftEdges PROVE NodeOf(e.from) \in nodes'
  <2>1. e.from \in Connected
    BY DEF SoftEdges, Connected
  <2> QED
    BY <1>1, <2>1 DEF MergedNodes
<1>3. edges' \in [nodes' -> SUBSET nodes']
  BY <1>1, <1>2
<1>4. SortTyped'
  BY <1>1, <1>3 DEF SortTyped, Mark
<1>5. Len(stack') = 0 /\ Len(ordered') = 0 /\ \A n \in nodes' : mark'[n] = "unmarked"
  BY <1>1
<1>6. StackIsPath' /\ PassedAreDone'
  BY <1>5 DEF StackIsPath, PassedAreDone
<1>7. ResultSoFar'
  BY <1>5 DEF ResultSoFar, RespectsEdges
<1> QED
  BY <1>1, <1>4, <1>6, <1>7 DEF SortInv, CyclicOnlyWithCycle

(* Every step of sortPhases keeps GraphInvariant.                          *)
LEMMA NextInvariant == GraphInvariant /\ [Next]_vars => GraphInvariant'
<1> SUFFICES ASSUME GraphInvariant, [Next]_vars
             PROVE  GraphInvariant'
  OBVIOUS
<1> USE DEF GraphInvariant
<1>1. CASE CreateEdges
  BY <1>1 DEF CreateEdges
<1>2. CASE FindStrongRelations
  BY <1>2 DEF FindStrongRelations
<1>3. CASE LinkParents
  BY <1>3 DEF LinkParents
<1>4. CASE FindParents
  BY <1>4 DEF FindParents
<1>5. CASE CreateUniqueNodes
  <2>1. status = "merged" /\ status' = "visiting"
    BY <1>5 DEF CreateUniqueNodes
  <2>2. SortInv'
    BY <1>5, <2>1, CreateUniqueNodesFresh
  <2> QED
    BY <2>1, <2>2 DEF SortInvariant
<1>6. CASE Sort
  <2>1. SortStep
    BY <1>6 DEF Sort
  <2>2. status = "visiting" /\ status' \in {"visiting", "sorted", "cyclic", "crashed"}
    BY <2>1 DEF SortStep, VisitRoot, VisitNeighbor, FoundCycle, VisitStale, Finish, Sorted
  <2>3. SortInvariant'
    BY <2>1, <2>2, SortStepInvariant
  <2> QED
    BY <2>2, <2>3
<1>7. CASE UNCHANGED vars
  <2>1. UNCHANGED <<status, stack, ordered, sortVars>>
    BY <1>7 DEF vars, sortVars
  <2>2. SortInvariant => SortInvariant'
    BY <2>1, SortStepInvariant
  <2> QED
    BY <2>1, <2>2
<1>8. CASE Terminated
  BY <1>7, <1>8 DEF Terminated
<1> QED
  BY <1>1, <1>2, <1>3, <1>4, <1>5, <1>6, <1>7, <1>8 DEF Next

(* For every pipeline of every size: an order returned by sortPhases takes *)
(* every node of merged phases once and after all those its soft links put *)
(* before it, and a cycle error is raised only over a cycle, unless the    *)
(* edges were left pointing into freed storage.                            *)
THEOREM SortPhasesCorrect == Spec => [](SortedIsTopological /\ CyclicOnlyWithCycle)
<1>1. Init => GraphInvariant
  BY DEF Init, GraphInvariant
<1>2. ASSUME GraphInvariant PROVE SortedIsTopological /\ CyclicOnlyWithCycle
  <2>1. CASE status \in {"sorted", "cyclic"}
    BY <1>2, <2>1, SortInvariantSuffices DEF GraphInvariant
  <2>2. CASE status \notin {"sorted", "cyclic"}
    BY <2>2 DEF SortedIsTopological, CyclicOnlyWithCycle
  <2> QED
    BY <2>1, <2>2
<1> QED
  BY <1>1, <1>2, NextInvariant, PTL DEF Spec

(* sortPhases calls a pipeline cyclic only where the calls on the stack    *)
(* close a cycle of its nodes, unless the edges point into freed storage.  *)
THEOREM CyclesAreThere == Spec => []CyclicOnlyWithCycle
  BY SortPhasesCorrect, PTL
-----------------------------------------------------------------------------
(* Min returns the least element of a nonempty set of numbers.             *)
LEMMA MinProperties ==
    ASSUME NEW S \in SUBSET Nat, S # {}
    PROVE  Min(S) \in S
  BY LeastElement DEF Min

(* The edges of an accepted pipeline join its phases.                      *)
LEMMA CreateEdgesTyped ==
    ASSUME TypeOK, ~ UnknownName
    PROVE  UNION {{EdgeOf(p, l) : l \in decl[p].links} : p \in Phase}
             \subseteq [from : Phase, to : Phase, kind : HardKind \cup SoftKind]
<1> SUFFICES ASSUME NEW p \in Phase, NEW l \in decl[p].links
             PROVE  EdgeOf(p, l) \in [from : Phase, to : Phase, kind : HardKind \cup SoftKind]
  OBVIOUS
<1>1. l.kind \in HardKind \cup SoftKind
  BY DEF TypeOK, IsDeclaration, Link
<1>2. \E q \in Phase : decl[q].name = l.name
  BY DEF UnknownName
<1>3. phaseForName(l.name) \in Phase
  BY <1>2 DEF phaseForName
<1> QED
  BY <1>1, <1>3 DEF EdgeOf

(* The connected phases are phases, and each is merged at least with       *)
(* itself, so that its node is one of them.                                *)
LEMMA NodeOfTyped ==
    ASSUME TypeOK
    PROVE  /\ Connected \subseteq Phase
           /\ \A p \in Connected : NodeOf(p) \in Phase
<1>1. Connected \subseteq Phase
  BY DEF TypeOK, Connected
<1>2. ASSUME NEW p \in Connected PROVE NodeOf(p) \in Phase
  <2>1. Merged(p) \subseteq Phase /\ p \in Merged(p)
    BY <1>1 DEF Merged
  <2>2. Merged(p) \in SUBSET Nat /\ Merged(p) # {}
    BY <2>1 DEF Phase
  <2> QED
    BY <2>1, <2>2, MinProperties DEF NodeOf
<1> QED
  BY <1>1, <1>2

(* createUniqueNodes stays within the node numbers there are.              *)
LEMMA CreateUniqueNodesTyped ==
    ASSUME TypeOK, CreateUniqueNodes
    PROVE  nodes' \subseteq Node
<1>1. nodes' = MergedNodes \cup LoneNodes
  BY DEF CreateUniqueNodes
<1>2. MergedNodes \subseteq Phase
  BY NodeOfTyped DEF MergedNodes
<1>3. \A p \in Phase : p \in 1..(2 * N) /\ N + p \in 1..(2 * N)
  BY NAssumption DEF Phase
<1> QED
  BY <1>1, <1>2, <1>3, NodeAssumption DEF LoneNodes

(* A step of the sort keeps the types of its variables, into freed storage *)
(* or not.                                                                 *)
SortTypeOK == SortTyped /\ moved \in BOOLEAN

\* A step of the sort keeps the types of its state.
LEMMA SortStepTyped ==
    ASSUME SortTypeOK, SortStep
    PROVE  SortTypeOK'
<1> DEFINE Frame == [node : nodes, todo : SUBSET nodes]
<1>1. /\ edges \in [nodes -> SUBSET nodes] /\ mark \in [nodes -> Mark]
      /\ stack \in Seq(Frame) /\ ordered \in Seq(nodes) /\ moved \in BOOLEAN
  BY DEF SortTypeOK, SortTyped
<1>2. \A n \in nodes : [node |-> n, todo |-> edges[n]] \in Frame
  BY <1>1
<1>3. ASSUME stack # << >>
      PROVE  /\ Top.node \in nodes /\ Pop \in Seq(Frame)
             /\ \A m : Append(Pop, TopWithout(m)) \in Seq(Frame)
  BY <1>3, TopProperties, AdvanceProperties DEF SortTypeOK
<1> USE DEF SortTypeOK, SortTyped
<1>4. ASSUME NEW n \in nodes, VisitRoot(n) PROVE SortTypeOK'
  BY <1>1, <1>2, <1>4 DEF VisitRoot, Mark
<1>5. ASSUME NEW m \in nodes, VisitNeighbor(m) PROVE SortTypeOK'
  <2>1. Append(Pop, TopWithout(m)) \in Seq(Frame)
    BY <1>3, <1>5 DEF VisitNeighbor
  <2>2. Append(Append(Pop, TopWithout(m)), [node |-> m, todo |-> edges[m]]) \in Seq(Frame)
    BY <2>1, <1>2, AppendAtEnd
  <2> QED
    BY <2>1, <2>2, <1>1, <1>5 DEF VisitNeighbor, Mark
<1>6. ASSUME NEW m \in nodes, FoundCycle(m) PROVE SortTypeOK'
  BY <1>1, <1>6 DEF FoundCycle
<1>7. ASSUME NEW m \in nodes, VisitStale(m) PROVE SortTypeOK'
  <2>1. Append(Pop, TopWithout(m)) \in Seq(Frame)
    BY <1>3, <1>7 DEF VisitStale
  <2>2. Append(ordered, m) \in Seq(nodes)
    BY <1>1, <1>7, AppendAtEnd
  <2> QED
    BY <2>1, <2>2, <1>1, <1>7 DEF VisitStale
<1>8. ASSUME Finish PROVE SortTypeOK'
  <2>1. Top.node \in nodes /\ Pop \in Seq(Frame)
    BY <1>3, <1>8 DEF Finish
  <2>2. Append(ordered, Top.node) \in Seq(nodes)
    BY <2>1, <1>1, AppendAtEnd
  <2> QED
    BY <2>1, <2>2, <1>1, <1>8 DEF Finish, Mark
<1>9. ASSUME Sorted PROVE SortTypeOK'
  BY <1>1, <1>9 DEF Sorted
<1> QED
  BY <1>4, <1>5, <1>6, <1>7, <1>8, <1>9 DEF SortStep

(* Every step of sortPhases keeps TypeOK, because nothing is on the stack  *)
(* or in the result before there are nodes.                                *)
LEMMA NextTyped == TypeOK /\ GraphInvariant /\ [Next]_vars => TypeOK'
<1> SUFFICES ASSUME TypeOK, GraphInvariant, [Next]_vars PROVE TypeOK'
  OBVIOUS
<1>1. CASE CreateEdges
  BY <1>1, CreateEdgesTyped DEF CreateEdges, TypeOK
<1>2. CASE FindStrongRelations
  <2>1. {e.from : e \in HardEdges} \subseteq Phase
    BY DEF TypeOK, HardEdges
  <2> QED
    BY <1>2, <2>1 DEF FindStrongRelations, TypeOK
<1>3. CASE LinkParents
  BY <1>3, NodeOfTyped DEF LinkParents, TypeOK
<1>4. CASE FindParents
  BY <1>4 DEF FindParents, TypeOK
<1>5. CASE CreateUniqueNodes
  <2>1. /\ UNCHANGED <<decl, phaseEdges, rels, parents, stack, ordered>>
        /\ edges' = [n \in nodes' |->
                      {NodeOf(e.from) : e \in {f \in SoftEdges : NodeOf(f.to) = n}}]
        /\ mark' = [n \in nodes' |-> "unmarked"] /\ moved' \in BOOLEAN
        /\ nodes' = MergedNodes \cup LoneNodes /\ status' = "visiting"
    BY <1>5 DEF CreateUniqueNodes
  <2>2. edges' \in [nodes' -> SUBSET nodes']
    <3>1. ASSUME NEW e \in SoftEdges PROVE NodeOf(e.from) \in nodes'
      BY <2>1 DEF SoftEdges, Connected, MergedNodes
    <3> QED
      BY <2>1, <3>1
  <2>3. nodes' \subseteq Node
    BY <1>5, CreateUniqueNodesTyped
  <2>4. stack' = << >> /\ ordered' = << >>
    BY <1>5, <2>1 DEF CreateUniqueNodes, GraphInvariant
  <2> QED
    BY <2>1, <2>2, <2>3, <2>4 DEF TypeOK, Mark
<1>6. CASE Sort
  <2>1. SortTypeOK
    BY DEF TypeOK, SortTypeOK, SortTyped
  <2>2. SortTypeOK' /\ SortStep /\ UNCHANGED <<decl, phaseEdges, rels, parents>>
    BY <1>6, <2>1, SortStepTyped DEF Sort
  <2>3. nodes' = nodes /\ status' \in {"visiting", "sorted", "cyclic", "crashed"}
    BY <2>2 DEF SortStep, VisitRoot, VisitNeighbor, FoundCycle, VisitStale, Finish, Sorted
  <2> QED
    BY <2>2, <2>3 DEF TypeOK, SortTypeOK, SortTyped
<1>7. CASE UNCHANGED vars
  BY <1>7 DEF vars, sortVars, TypeOK
<1>8. CASE Terminated
  BY <1>7, <1>8 DEF Terminated
<1> QED
  BY <1>1, <1>2, <1>3, <1>4, <1>5, <1>6, <1>7, <1>8 DEF Next

\* The types and the facts about the graph hold at first.
LEMMA InitTyped == Init => TypeOK /\ GraphInvariant
<1> SUFFICES ASSUME Init PROVE TypeOK /\ GraphInvariant
  OBVIOUS
<1>1. /\ DOMAIN NoGraph = {} /\ NoGraph \in [{} -> SUBSET {}] /\ NoGraph \in [{} -> Mark]
  BY DEF NoGraph
<1>2. DOMAIN decl = Phase /\ IsDeclaration(decl)
  BY DeclarationsAssumption DEF Init
<1>3. edges \in [nodes -> SUBSET nodes] /\ mark \in [nodes -> Mark]
  BY <1>1 DEF Init
<1>4. stack = << >> /\ ordered = << >> /\ status = "declared"
  BY DEF Init
<1>5. /\ phaseEdges = {} /\ nodes = {} /\ moved = FALSE
      /\ DOMAIN rels = {} /\ DOMAIN parents = {}
  BY <1>1 DEF Init
<1>6. /\ stack \in Seq([node : nodes, todo : SUBSET nodes])
      /\ ordered \in Seq(nodes)
  BY <1>4
<1>7. TypeOK
  BY <1>2, <1>3, <1>4, <1>5, <1>6 DEF TypeOK
<1> QED
  BY <1>4, <1>7 DEF GraphInvariant

(* For every pipeline of every size the state of sortPhases has its types: *)
(* the edges join phases of the pipeline, the nodes stay within their      *)
(* numbering, edges, calls and result stay within the nodes.               *)
THEOREM TypeCorrect == Spec => []TypeOK
  BY InitTyped, NextTyped, NextInvariant, PTL DEF Spec
-----------------------------------------------------------------------------
(* Sequences put one after the other *)

\* Every place in the flattened sequence is a place in one of the sequences.
LEMMA OffsetsCover ==
    ASSUME NEW n \in Nat, NEW q, NEW off, Offsets(n, q, off), NEW x \in 1..off[n]
    PROVE  \E i \in 1..n : \E k \in 1..Len(q[i]) : x = off[i - 1] + k
<1>1. off \in [0..n -> Nat] /\ \A i \in 1..n : off[i] = off[i - 1] + Len(q[i]) /\ Len(q[i]) \in Nat
  BY DEF Offsets
<1> DEFINE S == {i \in 0..n : x <= off[i]}
<1>2. S \in SUBSET Nat /\ n \in S
  BY <1>1
<1>3. PICK i \in S : \A j \in S : i <= j
  <2> HIDE DEF S
  <2> QED
    BY <1>2, LeastElement
<1>4. i # 0
  BY <1>3 DEF Offsets
<1>5. i \in 1..n /\ i - 1 \in 0..n /\ i - 1 < i
  BY <1>3, <1>4
<1>6. ~ (x <= off[i - 1])
  BY <1>3, <1>5
<1>7. x \in Nat /\ off[i - 1] \in Nat /\ x <= off[i]
  BY <1>1, <1>3, <1>5
<1>8. x - off[i - 1] \in 1..Len(q[i]) /\ x = off[i - 1] + (x - off[i - 1])
  BY <1>1, <1>5, <1>6, <1>7
<1> QED
  BY <1>5, <1>8
-----------------------------------------------------------------------------
(* The parents of the phases *)

Linked == Connected \subseteq Phase /\ parents \in [Connected -> Connected]

\* The k-th ancestor is the parent of the one before.
LEMMA AncestorIs ==
    ASSUME Linked
    PROVE  /\ \A k \in 0..N : ancestor[k] \in [Connected -> Connected]
           /\ \A p \in Connected : ancestor[0][p] = p
           /\ \A k \in 1..N : \A p \in Connected : ancestor[k][p] = parents[ancestor[k - 1][p]]
<1> DEFINE X == [Connected -> Connected]
           F == [ka \in (1..N) \X X |-> [p \in Connected |-> parents[ka[2][p]]]]
           start == [p \in Connected |-> p]
           Is(h) == h = [k \in 0..N |-> [p \in Connected |->
                                          IF k = 0 THEN p ELSE parents[h[k - 1][p]]]]
<1>1. parents \in X /\ start \in X /\ N \in Nat
  BY NAssumption DEF Linked
<1>2. \A a \in X : [p \in Connected |-> parents[a[p]]] \in X
  BY <1>1
<1>3. F \in Steps(N, X)
  <2> HIDE DEF X
  <2> QED
    BY <1>2 DEF Steps
<1>4. PICK g : Iterates(N, X, F, start, g)
  <2> HIDE DEF F, start, X
  <2> QED
    BY <1>1, <1>3, Iteration
<1>5. Is(g)
  <2>1. g \in [0..N -> X] /\ g[0] = start
    BY <1>4 DEF Iterates
  <2>2. ASSUME NEW k \in 1..N PROVE g[k] = [p \in Connected |-> parents[g[k - 1][p]]]
    <3>1. k - 1 \in 0..N
      BY <1>1
    <3>2. <<k, g[k - 1]>> \in (1..N) \X X
      <4> HIDE DEF X
      <4> QED
        BY <2>1, <3>1
    <3>3. g[k] = F[<<k, g[k - 1]>>]
      BY <1>4 DEF Iterates
    <3> HIDE DEF X
    <3> QED
      BY <3>2, <3>3
  <2>3. ASSUME NEW k \in 0..N
        PROVE  g[k] = [p \in Connected |-> IF k = 0 THEN p ELSE parents[g[k - 1][p]]]
    <3>1. CASE k = 0
      BY <2>1, <3>1
    <3>2. CASE k # 0
      <4>1. k \in 1..N
        BY <1>1, <3>2
      <4> QED
        BY <2>2, <3>2, <4>1
    <3> QED
      BY <3>1, <3>2
  <2> HIDE DEF X, start
  <2> QED
    BY <2>1, <2>3
<1>6. Is(ancestor)
  <2> QED
    BY <1>5 DEF ancestor
<1>7. ASSUME NEW h, Is(h)
      PROVE  /\ \A k \in 0..N : h[k] \in X
             /\ \A p \in Connected : h[0][p] = p
             /\ \A k \in 1..N : \A p \in Connected : h[k][p] = parents[h[k - 1][p]]
  <2>1. \A k \in 0..N : h[k] = [p \in Connected |-> IF k = 0 THEN p ELSE parents[h[k - 1][p]]]
    BY <1>7, Zenon
  <2> HIDE DEF F, Is
  <2>2. h[0] = [p \in Connected |-> p]
    <3>1. ASSUME NEW k \in 0..N, k = 0 PROVE h[k] = [p \in Connected |-> p]
      <4>1. h[k] = [p \in Connected |-> IF k = 0 THEN p ELSE parents[h[k - 1][p]]]
        BY <2>1
      <4> QED
        BY <3>1, <4>1
    <3>2. 0 \in 0..N
      BY <1>1
    <3> QED
      BY <3>1, <3>2
  <2>3. \A k \in 1..N : h[k] = [p \in Connected |-> parents[h[k - 1][p]]]
    <3> SUFFICES ASSUME NEW k \in 1..N PROVE h[k] = [p \in Connected |-> parents[h[k - 1][p]]]
      OBVIOUS
    <3>1. k \in 0..N /\ k # 0
      BY <1>1
    <3>2. h[k] = [p \in Connected |-> IF k = 0 THEN p ELSE parents[h[k - 1][p]]]
      BY <2>1, <3>1
    <3> QED
      BY <3>1, <3>2
  <2> DEFINE T == {k \in Nat : k <= N => h[k] \in X}
  <2>4. 0 \in T
    <3> HIDE DEF X
    <3> QED
      BY <1>1, <2>2
  <2>5. ASSUME NEW k \in Nat, k \in T PROVE k + 1 \in T
    <3>1. ASSUME k + 1 <= N PROVE h[k + 1] \in X
      <4>1. k + 1 \in 1..N /\ k + 1 - 1 = k /\ k <= N
        BY <1>1, <3>1
      <4>2. h[k + 1] = [p \in Connected |-> parents[h[k][p]]]
        BY <2>3, <4>1
      <4>3. h[k] \in X
        BY <2>5, <4>1
      <4> QED
        BY <1>2, <4>2, <4>3
    <3> HIDE DEF X
    <3> QED
      BY <3>1
  <2>6. \A k \in Nat : k \in T
    <3> HIDE DEF T
    <3> QED
      BY <2>4, <2>5, NumberInduction
  <2>7. \A k \in 0..N : h[k] \in X
    BY <1>1, <2>6
  <2> HIDE DEF T
  <2>8. \A p \in Connected : h[0][p] = p
    BY <2>2
  <2>9. ASSUME NEW k \in 1..N, NEW p \in Connected PROVE h[k][p] = parents[h[k - 1][p]]
    <3>1. h[k] = [q \in Connected |-> parents[h[k - 1][q]]]
      BY <2>3
    <3> QED
      BY <3>1
  <2> QED
    BY <2>7, <2>8, <2>9
<1> HIDE DEF Is, F, start
<1>8. /\ \A k \in 0..N : ancestor[k] \in X
      /\ \A p \in Connected : ancestor[0][p] = p
      /\ \A k \in 1..N : \A p \in Connected : ancestor[k][p] = parents[ancestor[k - 1][p]]
  BY <1>6, <1>7
<1> QED
  BY <1>8

(* The ancestors of a phase that has a parent are those of the parent.     *)
LEMMA AncestorOfParent ==
    ASSUME Linked
    PROVE  \A k \in 1..N : \A p \in Connected : ancestor[k][p] = ancestor[k - 1][parents[p]]
<1> DEFINE T == {k \in Nat : k + 1 <= N =>
                    \A p \in Connected : ancestor[k + 1][p] = ancestor[k][parents[p]]}
<1>1. N \in Nat /\ parents \in [Connected -> Connected]
  BY NAssumption DEF Linked
<1>2. /\ \A p \in Connected : ancestor[0][p] = p
      /\ \A k \in 1..N : \A p \in Connected : ancestor[k][p] = parents[ancestor[k - 1][p]]
  BY AncestorIs
<1>3. 0 \in T
  <2>1. 1 <= N => 1 \in 1..N /\ 1 - 1 = 0
    BY <1>1
  <2>2. ASSUME 1 <= N, NEW p \in Connected PROVE ancestor[1][p] = ancestor[0][parents[p]]
    <3>1. ancestor[1][p] = parents[ancestor[0][p]]
      BY <1>2, <2>1, <2>2
    <3>2. ancestor[0][p] = p /\ ancestor[0][parents[p]] = parents[p]
      BY <1>1, <1>2
    <3> QED
      BY <3>1, <3>2
  <2> QED
    BY <2>2
<1>4. ASSUME NEW k \in Nat, k \in T PROVE k + 1 \in T
  <2> SUFFICES ASSUME k + 1 + 1 <= N, NEW p \in Connected
               PROVE  ancestor[k + 1 + 1][p] = ancestor[k + 1][parents[p]]
    OBVIOUS
  <2>1. ASSUME NEW i \in 1..N, i = k + 1 + 1 PROVE ancestor[i][p] = parents[ancestor[k + 1][p]]
    BY <1>2, <2>1
  <2>2. ASSUME NEW i \in 1..N, i = k + 1
        PROVE  ancestor[i][parents[p]] = parents[ancestor[k][parents[p]]]
    BY <1>1, <1>2, <2>2
  <2>3. ancestor[k + 1][p] = ancestor[k][parents[p]]
    BY <1>1, <1>4
  <2>4. k + 1 + 1 \in 1..N /\ k + 1 \in 1..N
    BY <1>1
  <2> QED
    BY <2>1, <2>2, <2>3, <2>4
<1>5. \A k \in Nat : k \in T
  <2> HIDE DEF T
  <2> QED
    BY <1>3, <1>4, NumberInduction
<1> SUFFICES ASSUME NEW k \in 1..N, NEW p \in Connected
             PROVE  ancestor[k][p] = ancestor[k - 1][parents[p]]
  OBVIOUS
<1>6. k - 1 \in Nat /\ k - 1 + 1 = k /\ k <= N
  BY <1>1
<1>7. k - 1 \in T
  BY <1>5, <1>6
<1> QED
  BY <1>6, <1>7

\* k steps up from p the walk to the outermost parent stands still.
Still(k, p) == parents[ancestor[k][p]] = ancestor[k][p]

\* Above the root of a chain of parents there is only the root.
LEMMA StaysStill ==
    ASSUME Linked, NEW p \in Connected, NEW k \in 0..N, NEW m \in k..N, Still(k, p)
    PROVE  Still(m, p) /\ ancestor[m][p] = ancestor[k][p]
<1> DEFINE T == {d \in Nat : k + d <= N => ancestor[k + d][p] = ancestor[k][p]}
<1>1. N \in Nat
  BY NAssumption
<1>2. 0 \in T
  OBVIOUS
<1>3. ASSUME NEW d \in Nat, d \in T PROVE d + 1 \in T
  <2> SUFFICES ASSUME k + (d + 1) <= N PROVE ancestor[k + (d + 1)][p] = ancestor[k][p]
    OBVIOUS
  <2>1. ASSUME NEW i \in 1..N, i - 1 = k + d PROVE ancestor[i][p] = parents[ancestor[k + d][p]]
    BY <2>1, AncestorIs
  <2>2. k + (d + 1) \in 1..N /\ k + (d + 1) - 1 = k + d /\ k + d <= N
    BY <1>1
  <2>3. ancestor[k + (d + 1)][p] = parents[ancestor[k + d][p]]
    BY <2>1, <2>2
  <2>4. ancestor[k + d][p] = ancestor[k][p]
    BY <1>3, <2>2
  <2> QED
    BY <2>3, <2>4 DEF Still
<1>4. \A d \in Nat : d \in T
  <2> HIDE DEF T
  <2> QED
    BY <1>2, <1>3, NumberInduction
<1>5. m - k \in Nat /\ k + (m - k) = m /\ m <= N
  BY <1>1
<1>6. m - k \in T
  BY <1>4, <1>5
<1>7. ancestor[m][p] = ancestor[k][p]
  BY <1>5, <1>6
<1> QED
  BY <1>7 DEF Still

\* There is no cycle of parents.
Rooted == Linked /\ \A p \in Connected : Still(N, p)

\* How many steps p is below its outermost parent.
Height(p) == CHOOSE k \in 0..N : Still(k, p) /\ \A j \in 0..N : Still(j, p) => k <= j

\* The height of a phase is the number of steps to its root.
LEMMA HeightIs ==
    ASSUME Rooted, NEW p \in Connected
    PROVE  /\ Height(p) \in 0..N /\ Still(Height(p), p)
           /\ \A j \in 0..N : Still(j, p) => Height(p) <= j
<1> DEFINE S == {k \in 0..N : Still(k, p)}
<1>1. S \in SUBSET Nat /\ N \in S
  BY NAssumption DEF Rooted
<1>2. \E k \in S : \A j \in S : k <= j
  <2> HIDE DEF S
  <2> QED
    BY <1>1, LeastElement
<1>3. \E k \in 0..N : Still(k, p) /\ \A j \in 0..N : Still(j, p) => k <= j
  BY <1>2
<1> QED
  BY <1>3 DEF Height

\* Only roots have the height 0.
LEMMA HeightZero ==
    ASSUME Rooted, NEW p \in Connected
    PROVE  Height(p) = 0 <=> parents[p] = p
<1>1. ancestor[0][p] = p /\ 0 \in 0..N
  BY NAssumption, AncestorIs DEF Rooted
<1>2. Still(0, p) <=> parents[p] = p
  BY <1>1 DEF Still
<1> QED
  BY <1>1, <1>2, HeightIs

\* A phase is one step higher than its parent.
LEMMA HeightStep ==
    ASSUME Rooted, NEW p \in Connected, parents[p] # p
    PROVE  parents[p] \in Connected /\ Height(p) = Height(parents[p]) + 1
<1> DEFINE r == parents[p]
<1>1. r \in Connected /\ N \in Nat
  BY NAssumption DEF Rooted, Linked
<1>2. \A k \in 1..N : Still(k, p) <=> Still(k - 1, r)
  BY AncestorOfParent DEF Rooted, Still
<1>3. /\ Height(p) \in 0..N /\ Still(Height(p), p)
      /\ \A j \in 0..N : Still(j, p) => Height(p) <= j
  BY HeightIs
<1>4. Height(p) # 0
  BY HeightZero
<1> HIDE DEF r
<1>5. /\ Height(r) \in 0..N /\ Still(Height(r), r)
      /\ \A j \in 0..N : Still(j, r) => Height(r) <= j
  BY <1>1, HeightIs
<1>6. Height(p) \in 1..N /\ Height(p) - 1 \in 0..N
  BY <1>1, <1>3, <1>4
<1>7. Height(r) <= Height(p) - 1
  BY <1>2, <1>3, <1>5, <1>6
<1>8. Height(r) + 1 \in 1..N /\ Height(r) + 1 \in 0..N /\ Height(r) + 1 - 1 = Height(r)
  BY <1>1, <1>5, <1>6, <1>7
<1>9. Still(Height(r) + 1, p)
  <2>1. ASSUME NEW k \in 1..N, k - 1 = Height(r) PROVE Still(k, p)
    BY <1>2, <1>5, <2>1
  <2> DEFINE k1 == Height(r) + 1
  <2>2. k1 \in 1..N /\ k1 - 1 = Height(r)
    BY <1>5, <1>8
  <2> HIDE DEF k1
  <2>3. Still(k1, p)
    BY <2>1, <2>2
  <2> QED
    BY <2>3 DEF k1
<1>10. Height(p) <= Height(r) + 1
  BY <1>3, <1>8, <1>9
<1>11. Height(p) = Height(r) + 1
  BY <1>5, <1>6, <1>7, <1>10
<1> QED
  BY <1>1, <1>11 DEF r

(* All phases above p have the outermost parent of p, which is above all.  *)
LEMMA OutermostIs ==
    ASSUME Rooted, NEW p \in Connected
    PROVE  /\ Outermost(p) \in Connected /\ parents[p] \in Connected
           /\ parents[p] = p => Outermost(p) = p
           /\ Outermost(p) = Outermost(parents[p])
<1>1. N \in Nat /\ N \in 0..N /\ 0 \in 0..N /\ N \in 0..N
  BY NAssumption
<1>2. parents[p] \in Connected /\ Outermost(p) \in Connected
  BY <1>1, AncestorIs DEF Rooted, Linked, Outermost
<1>3. ancestor[0][p] = p
  BY AncestorIs DEF Rooted
<1>4. parents[p] = p => Outermost(p) = p
  <2>1. ASSUME parents[p] = p PROVE Outermost(p) = p
    <3>1. Still(0, p)
      BY <1>3, <2>1 DEF Still
    <3> QED
      BY <1>1, <1>3, <3>1, StaysStill DEF Rooted, Outermost
  <2> QED
    BY <2>1
<1>5. ASSUME parents[p] # p PROVE Outermost(p) = Outermost(parents[p])
  <2>1. Height(parents[p]) + 1 \in 0..N /\ Height(parents[p]) \in 0..N
    BY <1>2, <1>5, HeightStep, HeightIs
  <2>2. N \in 1..N /\ N - 1 \in Height(parents[p])..N /\ N \in Height(parents[p])..N
    BY <1>1, <2>1
  <2>3. Still(Height(parents[p]), parents[p])
    BY <1>2, HeightIs
  <2>4. ancestor[N - 1][parents[p]] = ancestor[Height(parents[p])][parents[p]]
    BY <1>2, <2>1, <2>2, <2>3, StaysStill DEF Rooted
  <2>5. ancestor[N][parents[p]] = ancestor[Height(parents[p])][parents[p]]
    BY <1>2, <2>1, <2>2, <2>3, StaysStill DEF Rooted
  <2>6. ancestor[N][p] = ancestor[N - 1][parents[p]]
    BY <2>2, AncestorOfParent DEF Rooted
  <2> QED
    BY <2>4, <2>5, <2>6 DEF Outermost
<1> QED
  BY <1>2, <1>4, <1>5
-----------------------------------------------------------------------------
(* What each pass leaves behind *)

\* Max returns the greatest of some numbers up to n.
LEMMA MaxProperties ==
    ASSUME NEW n \in Nat, NEW S \in SUBSET (1..n), S # {}
    PROVE  Max(S) \in S
<1> DEFINE Below == {k \in Nat : n - k \in S}
<1>1. PICK x \in S : TRUE
  OBVIOUS
<1>2. n - x \in Nat /\ n - (n - x) = x
  BY <1>1
<1>3. Below \in SUBSET Nat /\ Below # {}
  BY <1>1, <1>2
<1>4. PICK k \in Below : \A m \in Below : k <= m
  <2> HIDE DEF Below
  <2> QED
    BY <1>3, LeastElement
<1>5. ASSUME NEW y \in S PROVE n - k >= y
  <2>1. y \in 1..n /\ n - y \in Nat /\ n - (n - y) = y
    OBVIOUS
  <2>2. n - y \in Below
    BY <2>1
  <2> QED
    BY <1>4, <2>1, <2>2
<1>6. \E x1 \in S : \A y \in S : x1 >= y
  BY <1>4, <1>5
<1> QED
  BY <1>6 DEF Max

(* createEdges: the names tell the phases apart, and each link becomes the *)
(* edge it declares.                                                       *)
LEMMA CreateEdgesKeeps ==
    ASSUME TypeOK, CreateEdges, ~ DuplicateName, ~ UnknownName
    PROVE  EdgesFromLinks'
<1>1. /\ decl' = decl
      /\ phaseEdges' = UNION {{EdgeOf(p, l) : l \in decl[p].links} : p \in Phase}
  BY DEF CreateEdges
<1>2. ASSUME NEW p \in Phase, NEW l \in decl[p].links
      PROVE  /\ phaseForName(l.name) \in Phase
             /\ decl[phaseForName(l.name)].name = l.name
             /\ EdgeOf(p, l) = Edge(p, l, phaseForName(l.name))
             /\ EdgeOf(p, l) \in phaseEdges'
  <2>1. \E q \in Phase : decl[q].name = l.name
    BY DEF UnknownName
  <2>2. phaseForName(l.name) \in Phase /\ decl[phaseForName(l.name)].name = l.name
    BY <2>1 DEF phaseForName
  <2>3. EdgeOf(p, l) = Edge(p, l, phaseForName(l.name))
    BY DEF EdgeOf, Edge
  <2>4. EdgeOf(p, l) \in phaseEdges'
    BY <1>1
  <2> QED
    BY <2>2, <2>3, <2>4
<1>3. ASSUME NEW e \in phaseEdges'
      PROVE  \E p, q \in Phase : \E l \in decl[p].links : decl[q].name = l.name /\ e = Edge(p, l, q)
  <2>1. PICK p \in Phase : e \in {EdgeOf(p, l) : l \in decl[p].links}
    BY <1>1
  <2>2. PICK l \in decl[p].links : e = EdgeOf(p, l)
    BY <2>1
  <2> QED
    BY <1>2, <2>2
<1>4. \A p, q \in Phase : decl[p].name = decl[q].name => p = q
  BY DEF DuplicateName
<1>5. \A p \in Phase : \A l \in decl[p].links : \E q \in Phase :
         decl[q].name = l.name /\ Edge(p, l, q) \in phaseEdges'
  BY <1>2
<1> QED
  BY <1>1, <1>3, <1>4, <1>5 DEF EdgesFromLinks, Phase, Edge

\* findStrongRelations finds the relations that the edges say.
LEMMA FindStrongRelationsKeeps ==
    ASSUME FindStrongRelations, ~ SeveralHard
    PROVE  RelationsFromEdges'
<1>1. /\ phaseEdges' = phaseEdges
      /\ rels' = [p \in {e.from : e \in HardEdges} |-> (CHOOSE e \in HardEdges : e.from = p).to]
  BY DEF FindStrongRelations
<1>2. ASSUME NEW e \in HardEdges
      PROVE  rels'[e.from] = e.to /\ e.to \in Connected
  <2>1. e.from \in {f.from : f \in HardEdges}
    OBVIOUS
  <2>2. \A f \in HardEdges : f.from = e.from => f = e
    BY DEF SeveralHard
  <2>3. (CHOOSE f \in HardEdges : f.from = e.from) = e
    BY <2>2
  <2>4. e.to \in Connected
    BY DEF HardEdges, Connected
  <2> QED
    BY <1>1, <2>1, <2>3, <2>4
<1>3. rels' \in [{e.from : e \in HardEdges} -> Connected]
  <2>1. ASSUME NEW p \in {e.from : e \in HardEdges} PROVE rels'[p] \in Connected
    BY <1>2
  <2> QED
    BY <1>1, <2>1
<1>4. HardEdges' = HardEdges /\ Connected' = Connected
  BY <1>1 DEF HardEdges, Connected
<1> QED
  BY <1>2, <1>3, <1>4 DEF RelationsFromEdges

\* The parents that are linked are those of the relations.
LEMMA LinkParentsKeeps ==
    ASSUME TypeOK, RelationsFromEdges, LinkParents
    PROVE  ParentsFromRelations'
<1> DEFINE before(p) == {q \in DOMAIN rels : rels[q] = p}
<1>1. /\ phaseEdges' = phaseEdges /\ rels' = rels
      /\ parents' = [p \in Connected |-> IF before(p) = {} THEN p ELSE Max(before(p))]
  BY DEF LinkParents
<1>2. DOMAIN rels \subseteq Connected /\ DOMAIN rels \subseteq 1..N /\ N \in Nat
  BY NAssumption DEF TypeOK, RelationsFromEdges, HardEdges, Connected, Phase
<1>3. ASSUME NEW p, before(p) # {} PROVE Max(before(p)) \in before(p)
  <2>1. before(p) \in SUBSET (1..N)
    BY <1>2
  <2> HIDE DEF before
  <2> QED
    BY <1>2, <1>3, <2>1, MaxProperties
<1>4. ASSUME NEW p \in Connected
      PROVE  /\ parents'[p] \in Connected
             /\ IF \E q \in DOMAIN rels : rels[q] = p
                THEN parents'[p] \in DOMAIN rels /\ rels[parents'[p]] = p
                ELSE parents'[p] = p
  <2>1. CASE before(p) = {}
    <3>1. parents'[p] = p
      BY <1>1, <2>1
    <3> QED
      BY <2>1, <3>1
  <2>2. CASE before(p) # {}
    <3>1. parents'[p] = Max(before(p))
      <4> HIDE DEF before
      <4> QED
        BY <1>1, <2>2
    <3>2. parents'[p] \in before(p)
      BY <1>3, <2>2, <3>1
    <3> QED
      BY <1>2, <3>2
  <2> QED
    BY <2>1, <2>2
<1>5. Connected' = Connected
  BY <1>1 DEF Connected
<1>6. parents' \in [Connected -> Connected]
  BY <1>1, <1>4
<1> QED
  BY <1>1, <1>4, <1>5, <1>6 DEF ParentsFromRelations

(* The depth that find counts is the number of steps to the outermost      *)
(* parent: the phases it passes on the way are all different.              *)
LEMMA AncestorHeights ==
    ASSUME Rooted, NEW p \in Connected
    PROVE  \A k \in 0..Height(p) : ancestor[k][p] \in Connected /\ Height(ancestor[k][p]) = Height(p) - k
<1>1. Height(p) \in 0..N /\ N \in Nat
  BY NAssumption, HeightIs
<1> DEFINE T == {k \in Nat : k <= Height(p) =>
                    ancestor[k][p] \in Connected /\ Height(ancestor[k][p]) = Height(p) - k}
<1>2. 0 \in T
  BY <1>1, AncestorIs DEF Rooted
<1>3. ASSUME NEW k \in Nat, k \in T PROVE k + 1 \in T
  <2> SUFFICES ASSUME k + 1 <= Height(p)
               PROVE  /\ ancestor[k + 1][p] \in Connected
                      /\ Height(ancestor[k + 1][p]) = Height(p) - (k + 1)
    OBVIOUS
  <2> DEFINE a == ancestor[k][p]
  <2>1. a \in Connected /\ Height(a) = Height(p) - k
    BY <1>1, <1>3
  <2>2. ASSUME NEW i \in 1..N, i - 1 = k PROVE ancestor[i][p] = parents[a]
    BY <2>2, AncestorIs DEF Rooted
  <2>3. k + 1 \in 1..N /\ k + 1 - 1 = k
    BY <1>1
  <2>4. ancestor[k + 1][p] = parents[a]
    BY <2>2, <2>3
  <2> HIDE DEF a
  <2>5. Height(a) # 0
    BY <1>1, <2>1
  <2>6. parents[a] # a
    BY <2>1, <2>5, HeightZero
  <2>7. parents[a] \in Connected /\ Height(a) = Height(parents[a]) + 1
    BY <2>1, <2>6, HeightStep
  <2>8. Height(parents[a]) \in Nat
    BY <1>1, <2>7, HeightIs
  <2> QED
    BY <1>1, <2>1, <2>4, <2>7, <2>8
<1>4. \A k \in Nat : k \in T
  <2> HIDE DEF T
  <2> QED
    BY <1>2, <1>3, NumberInduction
<1> SUFFICES ASSUME NEW k \in 0..Height(p)
             PROVE  ancestor[k][p] \in Connected /\ Height(ancestor[k][p]) = Height(p) - k
  OBVIOUS
<1>5. k \in T
  BY <1>4
<1> QED
  BY <1>1, <1>5

\* The depth the code counts is the height.
LEMMA DepthIsHeight ==
    ASSUME Rooted, NEW p \in Connected
    PROVE  Cardinality({ancestor[k][p] : k \in 0..N}) - 1 = Height(p)
<1> DEFINE h == Height(p)
           A == {ancestor[k][p] : k \in 0..N}
           f == [k \in 0..h |-> ancestor[k][p]]
<1>1. h \in 0..N /\ N \in Nat /\ Still(h, p)
  BY NAssumption, HeightIs
<1>2. \A k \in 0..h : Height(ancestor[k][p]) = h - k
  BY AncestorHeights
<1> HIDE DEF h
<1>3. ASSUME NEW k \in 0..N PROVE \E j \in 0..h : ancestor[k][p] = ancestor[j][p]
  <2>1. CASE k <= h
    BY <2>1
  <2>2. CASE k > h
    <3>1. k \in h..N /\ h \in 0..h
      BY <1>1, <2>2
    <3>2. ancestor[k][p] = ancestor[h][p]
      BY <1>1, <3>1, StaysStill DEF Rooted
    <3> QED
      BY <3>1, <3>2
  <2> QED
    BY <1>1, <2>1, <2>2
<1>4. f \in [0..h -> A]
  BY <1>1
<1>5. \A j, k \in 0..h : f[j] = f[k] => j = k
  BY <1>1, <1>2
<1>6. \A a \in A : \E j \in 0..h : f[j] = a
  BY <1>3
<1>7. ExistsBijection(0..h, A)
  <2> HIDE DEF f, A
  <2> QED
    BY <1>4, <1>5, <1>6 DEF ExistsBijection, Bijection, Injection, Surjection, IsInjective
<1>8. IsFiniteSet(0..h) /\ Cardinality(0..h) = IF 0 > h THEN 0 ELSE h - 0 + 1
  <2>1. 0 \in Int /\ h \in Int
    BY <1>1
  <2> QED
    BY <2>1, FS_Interval, Zenon
<1>9. Cardinality(A) = Cardinality(0..h)
  <2> HIDE DEF A
  <2> QED
    BY <1>7, <1>8, FS_Bijection
<1> QED
  BY <1>1, <1>8, <1>9 DEF h

(* find: every phase gets the place one below that of its parent.          *)
LEMMA FindParentsKeeps ==
    ASSUME TypeOK, ParentsFromRelations, FindParents
    PROVE  /\ status' = "merged" => PlacesFromParents'
           /\ status' = "hardCycle" => ParentsOnACycle'
<1>1. /\ phaseEdges' = phaseEdges /\ parents' = parents /\ Connected' = Connected
      /\ place' = [p \in Connected |->
                     [top |-> Outermost(p),
                      depth |-> Cardinality({ancestor[k][p] : k \in 0..N}) - 1]]
      /\ status' = IF \E p \in Connected : parents[Outermost(p)] # Outermost(p)
                   THEN "hardCycle" ELSE "merged"
  BY DEF FindParents, Connected
<1>2. Linked /\ N \in Nat
  BY NAssumption, NodeOfTyped DEF Linked, ParentsFromRelations
<1>3. ASSUME status' = "merged" PROVE PlacesFromParents'
  <2>1. Rooted
    BY <1>1, <1>2, <1>3 DEF Rooted, Still, Outermost
  <2>2. place' = [p \in Connected |-> [top |-> Outermost(p), depth |-> Height(p)]]
    BY <1>1, <2>1, DepthIsHeight
  <2>3. ASSUME NEW p \in Connected
        PROVE  /\ place'[p] \in [top : Connected, depth : Nat]
               /\ IF parents[p] = p THEN place'[p].top = p /\ place'[p].depth = 0
                  ELSE /\ place'[p].top = place'[parents[p]].top
                       /\ place'[p].depth = place'[parents[p]].depth + 1
    <3>1. place'[p].top = Outermost(p) /\ place'[p].depth = Height(p)
      BY <2>2
    <3>2. Outermost(p) \in Connected /\ Height(p) \in Nat /\ parents[p] \in Connected
      BY <1>2, <2>1, OutermostIs, HeightIs
    <3>3. place'[parents[p]].top = Outermost(parents[p]) /\ place'[parents[p]].depth = Height(parents[p])
      BY <2>2, <3>2
    <3>4. place'[p] \in [top : Connected, depth : Nat]
      BY <2>2, <3>2
    <3>5. CASE parents[p] = p
      BY <2>1, <3>1, <3>4, <3>5, OutermostIs, HeightZero
    <3>6. CASE parents[p] # p
      BY <2>1, <3>1, <3>3, <3>4, <3>6, OutermostIs, HeightStep
    <3> QED
      BY <3>5, <3>6
  <2>4. place' \in [Connected -> [top : Connected, depth : Nat]]
    BY <2>2, <2>3
  <2>5. \A p \in Connected :
            IF parents[p] = p THEN place'[p].top = p /\ place'[p].depth = 0
            ELSE /\ place'[p].top = place'[parents[p]].top
                 /\ place'[p].depth = place'[parents[p]].depth + 1
    BY <2>3
  <2>6. parents' = parents /\ Connected' = Connected
    BY <1>1
  <2> QED
    BY <2>4, <2>5, <2>6 DEF PlacesFromParents
<1>4. ASSUME status' = "hardCycle" PROVE ParentsOnACycle'
  <2>1. PICK p \in Connected : parents[Outermost(p)] # Outermost(p)
    BY <1>1, <1>4
  <2> DEFINE w == [k \in 0..N |-> ancestor[k][p]]
  <2>2. w \in [0..N -> Connected]
    BY <1>2, AncestorIs
  <2>3. ASSUME NEW k \in 1..N PROVE w[k] = parents[w[k - 1]]
    <3>1. k \in 0..N /\ k - 1 \in 0..N
      BY <1>2
    <3>2. ancestor[k][p] = parents[ancestor[k - 1][p]]
      BY <1>2, AncestorIs
    <3> QED
      BY <3>1, <3>2
  <2>4. w[N] = Outermost(p)
    BY <1>2 DEF Outermost
  <2> HIDE DEF w
  <2>5. \E v \in [0..N -> Connected] :
            (\A k \in 1..N : v[k] = parents[v[k - 1]]) /\ parents[v[N]] # v[N]
    BY <2>1, <2>2, <2>3, <2>4
  <2> QED
    BY <1>1, <2>5 DEF ParentsOnACycle
<1> QED
  BY <1>3, <1>4
-----------------------------------------------------------------------------
(* The chains *)

Placed == TypeOK /\ ParentsFromRelations /\ PlacesFromParents

\* No two phases have the same parent above them.
LEMMA OneBelow ==
    ASSUME Placed, NEW q \in Connected, NEW r \in Connected,
           parents[q] # q, parents[r] # r, parents[q] = parents[r]
    PROVE  q = r
<1>1. rels[parents[q]] = q /\ rels[parents[r]] = r
  BY DEF Placed, ParentsFromRelations
<1> QED
  BY <1>1

\* So below one outermost parent there is one phase at each depth.
LEMMA OneAtEachDepth ==
    ASSUME Placed, NEW q \in Connected, NEW r \in Connected,
           place[q].top = place[r].top, place[q].depth = place[r].depth
    PROVE  q = r
<1> DEFINE T == {h \in Nat : \A x, y \in Connected :
                    place[x].top = place[y].top /\ place[x].depth = h /\ place[y].depth = h => x = y}
<1>1. ASSUME NEW x \in Connected
      PROVE  /\ parents[x] \in Connected /\ place[x].depth \in Nat /\ place[parents[x]].depth \in Nat
             /\ parents[x] = x => place[x].top = x /\ place[x].depth = 0
             /\ parents[x] # x => /\ place[x].top = place[parents[x]].top
                                  /\ place[x].depth = place[parents[x]].depth + 1
  <2>1. parents[x] \in Connected
    BY DEF Placed, ParentsFromRelations
  <2>2. \A y \in Connected : place[y].depth \in Nat
    BY DEF Placed, PlacesFromParents
  <2> QED
    BY <2>1, <2>2 DEF Placed, PlacesFromParents
<1>2. 0 \in T
  <2> SUFFICES ASSUME NEW x \in Connected, NEW y \in Connected, place[x].top = place[y].top,
                      place[x].depth = 0, place[y].depth = 0
               PROVE  x = y
    OBVIOUS
  <2>1. parents[x] = x /\ parents[y] = y
    BY <1>1
  <2> QED
    BY <1>1, <2>1
<1>3. ASSUME NEW h \in Nat, h \in T PROVE h + 1 \in T
  <2> SUFFICES ASSUME NEW x \in Connected, NEW y \in Connected, place[x].top = place[y].top,
                      place[x].depth = h + 1, place[y].depth = h + 1
               PROVE  x = y
    OBVIOUS
  <2>1. ASSUME NEW z \in Connected, place[z].depth = h + 1
        PROVE  /\ parents[z] \in Connected /\ parents[z] # z
               /\ place[parents[z]].top = place[z].top /\ place[parents[z]].depth = h
    <3>1. parents[z] # z
      BY <1>1, <2>1
    <3>2. place[z].depth = place[parents[z]].depth + 1 /\ place[parents[z]].depth \in Nat
      BY <1>1, <3>1
    <3>3. place[parents[z]].depth = h
      BY <2>1, <3>2
    <3> QED
      BY <1>1, <3>1, <3>3
  <2>2. parents[x] = parents[y]
    BY <1>3, <2>1
  <2> QED
    BY <2>1, <2>2, OneBelow
<1>4. \A h \in Nat : h \in T
  <2> HIDE DEF T
  <2> QED
    BY <1>2, <1>3, NumberInduction
<1>5. place[q].depth \in T
  BY <1>1, <1>4
<1> QED
  BY <1>5

\* A finite set of numbers without gaps is the numbers below its cardinality.
LEMMA NoGaps ==
    ASSUME NEW D \in SUBSET Nat, IsFiniteSet(D), \A k \in Nat : k + 1 \in D => k \in D
    PROVE  D = {k \in Nat : k < Cardinality(D)}
<1> DEFINE c == Cardinality(D)
<1>1. c \in Nat
  BY FS_CardinalityType
<1>2. ASSUME NEW n \in Nat, NEW k \in Nat, n + k \in D PROVE n \in D
  <2> DEFINE T == {d \in Nat : n + d \in D => n \in D}
  <2>1. 0 \in T
    OBVIOUS
  <2>2. ASSUME NEW d \in Nat, d \in T PROVE d + 1 \in T
    <3>1. n + d \in Nat /\ n + (d + 1) = (n + d) + 1
      OBVIOUS
    <3>2. (n + d) + 1 \in D => n + d \in D
      BY <3>1
    <3> QED
      BY <2>2, <3>1, <3>2
  <2>3. \A d \in Nat : d \in T
    <3> HIDE DEF T
    <3> QED
      BY <2>1, <2>2, NumberInduction
  <2> QED
    BY <1>2, <2>3
<1>3. ASSUME NEW m \in Nat, NEW k \in D, m <= k PROVE m \in D
  <2>1. k - m \in Nat /\ m + (k - m) = k
    BY <1>3
  <2> QED
    BY <1>2, <2>1
<1> HIDE DEF c
<1>4. c \notin D
  <2> SUFFICES ASSUME c \in D PROVE FALSE
    OBVIOUS
  <2>1. 0..c \in SUBSET D
    BY <1>1, <1>3
  <2>2. Cardinality(0..c) <= c
    BY <2>1, FS_Subset DEF c
  <2>3. Cardinality(0..c) = c + 1
    <3>1. 0 \in Int /\ c \in Int
      BY <1>1
    <3>2. Cardinality(0..c) = IF 0 > c THEN 0 ELSE c - 0 + 1
      BY <3>1, FS_Interval, Zenon
    <3> QED
      BY <1>1, <3>2
  <2> QED
    BY <1>1, <2>2, <2>3
<1>5. ASSUME NEW k \in D PROVE k < c
  BY <1>1, <1>3, <1>4
<1>6. D \in SUBSET (0..(c - 1))
  BY <1>1, <1>5
<1>7. IsFiniteSet(0..(c - 1)) /\ Cardinality(0..(c - 1)) = c
  <2>1. 0 \in Int /\ c - 1 \in Int
    BY <1>1
  <2>2. /\ IsFiniteSet(0..(c - 1))
        /\ Cardinality(0..(c - 1)) = IF 0 > c - 1 THEN 0 ELSE (c - 1) - 0 + 1
    BY <2>1, FS_Interval, Zenon
  <2> QED
    BY <1>1, <2>2
<1>8. 0..(c - 1) = D
  BY <1>6, <1>7, FS_Subset DEF c
<1> QED
  BY <1>1, <1>8 DEF c

(* ChainOf puts the phases merged with p in the order of their depths, and *)
(* all of them.                                                            *)
LEMMA ChainIs ==
    ASSUME Placed, NEW p \in Connected
    PROVE  /\ ChainOf(p) \in Seq(Phase)
           /\ \A i \in 1..Len(ChainOf(p)) :
                 ChainOf(p)[i] \in Merged(p) /\ place[ChainOf(p)[i]].depth = i - 1
           /\ \A q \in Merged(p) : place[q].depth + 1 \in 1..Len(ChainOf(p))
                                   /\ ChainOf(p)[place[q].depth + 1] = q
<1> DEFINE M == Merged(p)
           D == {place[q].depth : q \in M}
           f == [q \in M |-> place[q].depth]
           n == Cardinality(M)
<1>1. Connected \subseteq Phase /\ M \subseteq Phase /\ M \subseteq Connected
  BY NodeOfTyped DEF Placed, Merged
<1>2. \A q \in M : place[q].depth \in Nat /\ place[q].top = place[p].top
  BY DEF Placed, PlacesFromParents, Merged
<1>3. \A q, r \in M : place[q].depth = place[r].depth => q = r
  BY <1>1, <1>2, OneAtEachDepth
<1>4. \A k \in Nat : k + 1 \in D => k \in D
  <2> SUFFICES ASSUME NEW k \in Nat, NEW q \in M, place[q].depth = k + 1 PROVE k \in D
    OBVIOUS
  <2>1. q \in Connected /\ parents[q] \in Connected
    BY <1>1 DEF Placed, ParentsFromRelations
  <2>2. parents[q] # q
    BY <2>1 DEF Placed, PlacesFromParents
  <2>3. place[q].top = place[parents[q]].top /\ place[q].depth = place[parents[q]].depth + 1
    BY <2>1, <2>2 DEF Placed, PlacesFromParents
  <2>4. parents[q] \in M
    BY <1>2, <2>1, <2>3 DEF Merged
  <2>5. place[parents[q]].depth \in Nat
    BY <1>2, <2>4
  <2> QED
    BY <2>3, <2>4, <2>5
<1>5. IsFiniteSet(M)
  <2>1. N \in Int /\ 1 \in Int
    BY NAssumption
  <2>2. IsFiniteSet(1..N)
    BY <2>1, FS_Interval
  <2>3. M \in SUBSET (1..N)
    BY <1>1 DEF Phase
  <2> HIDE DEF M
  <2> QED
    BY <2>2, <2>3, FS_Subset
<1> HIDE DEF M
<1>6. IsFiniteSet(D) /\ Cardinality(D) = n
  <2>1. f \in [M -> D] /\ \A q \in M : f[q] = place[q].depth
    OBVIOUS
  <2>2. \A d \in D : \E q \in M : f[q] = d
    OBVIOUS
  <2> HIDE DEF f, D
  <2>3. ExistsBijection(M, D)
    BY <1>3, <2>1, <2>2 DEF ExistsBijection, Bijection, Injection, Surjection, IsInjective
  <2> QED
    BY <1>5, <2>3, FS_Bijection
<1>7. D \in SUBSET Nat
  BY <1>2
<1>8. D = {k \in Nat : k < n}
  <2>1. D = {k \in Nat : k < Cardinality(D)}
    <3> HIDE DEF D
    <3> QED
      BY <1>4, <1>6, <1>7, NoGaps
  <2> HIDE DEF D, n
  <2> QED
    BY <1>6, <2>1
<1>9. n \in Nat
  BY <1>5, FS_CardinalityType
<1> DEFINE At(i) == CHOOSE q \in M : place[q].depth = i - 1
           c == [i \in 1..n |-> At(i)]
<1>10. ChainOf(p) = c
  BY DEF ChainOf, M
<1> HIDE DEF n
<1>11. ASSUME NEW i \in 1..n PROVE At(i) \in M /\ place[At(i)].depth = i - 1
  <2>1. i - 1 \in Nat /\ i - 1 < n
    BY <1>9
  <2>2. i - 1 \in D
    BY <1>8, <2>1
  <2>3. \E q \in M : place[q].depth = i - 1
    BY <2>2
  <2> QED
    BY <2>3
<1> HIDE DEF At
<1>12. c \in Seq(Phase) /\ Len(c) = n
  BY <1>1, <1>9, <1>11
<1>13. ASSUME NEW q \in M PROVE place[q].depth + 1 \in 1..n /\ c[place[q].depth + 1] = q
  <2>1. place[q].depth \in D
    OBVIOUS
  <2>2. place[q].depth \in Nat /\ place[q].depth < n
    BY <1>2, <1>8, <2>1
  <2> DEFINE i == place[q].depth + 1
  <2>3. i \in 1..n /\ i - 1 = place[q].depth
    BY <1>9, <2>2
  <2> HIDE DEF i
  <2>4. At(i) \in M /\ place[At(i)].depth = place[q].depth
    BY <1>11, <2>3
  <2>5. At(i) = q
    BY <1>3, <2>4
  <2>6. c[i] = q
    BY <2>3, <2>5
  <2> QED
    BY <2>3, <2>6 DEF i
<1>14. \A i \in 1..n : c[i] \in M /\ place[c[i]].depth = i - 1
  BY <1>11
<1> HIDE DEF c
<1> QED
  BY <1>10, <1>12, <1>13, <1>14 DEF M

\* Merged phases have one node, which is one of them.
LEMMA NodeIs ==
    ASSUME Placed, NEW p \in Connected
    PROVE  /\ NodeOf(p) \in Merged(p) /\ NodeOf(p) \in Connected /\ p \in Merged(NodeOf(p))
           /\ \A q \in Merged(p) : NodeOf(q) = NodeOf(p)
           /\ \A q \in Connected : NodeOf(q) = NodeOf(p) => q \in Merged(p)
<1>1. ASSUME NEW q \in Connected PROVE NodeOf(q) \in Merged(q)
  <2>1. Merged(q) \in SUBSET Nat /\ q \in Merged(q)
    BY NodeOfTyped DEF Placed, Merged, Phase
  <2> QED
    BY <2>1, MinProperties DEF NodeOf
<1>2. NodeOf(p) \in Merged(p) /\ NodeOf(p) \in Connected /\ p \in Merged(NodeOf(p))
  BY <1>1 DEF Merged
<1>3. ASSUME NEW q \in Merged(p) PROVE NodeOf(q) = NodeOf(p)
  <2>1. Merged(q) = Merged(p)
    BY DEF Merged
  <2> QED
    BY <2>1 DEF NodeOf
<1>4. ASSUME NEW q \in Connected, NodeOf(q) = NodeOf(p) PROVE q \in Merged(p)
  BY <1>1, <1>4 DEF Merged
<1> QED
  BY <1>2, <1>3, <1>4
(* createUniqueNodes: the chains hold every phase once, and chains and     *)
(* node edges say of the phases what relations and soft edges said.        *)
LEMMA CreateUniqueNodesKeeps ==
    ASSUME Placed, CreateUniqueNodes
    PROVE  ChainsFromPlaces'
<1> DEFINE In(q, n) == \E i \in 1..Len(chain'[n]) : chain'[n][i] = q
<1>1. /\ nodes' = MergedNodes \cup LoneNodes
      /\ chain' = [n \in nodes' |-> IF n \in MergedNodes THEN ChainOf(n) ELSE <<n - N>>]
      /\ edges' = [n \in nodes' |->
                     {NodeOf(e.from) : e \in {f \in SoftEdges : NodeOf(f.to) = n}}]
      /\ UNCHANGED <<phaseEdges, rels, parents, place>>
  BY DEF CreateUniqueNodes
<1>2. Connected \subseteq Phase /\ N \in Nat /\ Phase = 1..N
  BY NAssumption, NodeOfTyped DEF Placed, Phase
<1>3. ASSUME NEW n \in MergedNodes
      PROVE  n \in Connected /\ n \in nodes' /\ NodeOf(n) = n /\ chain'[n] = ChainOf(n)
  <2>1. PICK p \in Connected : n = NodeOf(p)
    BY DEF MergedNodes
  <2>2. n \in Connected /\ NodeOf(n) = n
    BY <2>1, NodeIs
  <2> QED
    BY <1>1, <2>2
<1>4. ASSUME NEW n \in LoneNodes
      PROVE  /\ n \in nodes' /\ n \notin MergedNodes /\ n \in Int
             /\ n - N \in Phase \ Connected /\ chain'[n] = <<n - N>>
  <2>1. PICK p \in Phase \ Connected : n = N + p
    BY DEF LoneNodes
  <2>2. n \notin Connected /\ n - N = p /\ n \in Int
    BY <1>2, <2>1
  <2>3. n \notin MergedNodes
    BY <1>3, <2>2
  <2> QED
    BY <1>1, <2>2, <2>3
<1>5. ASSUME NEW n \in MergedNodes
      PROVE  /\ chain'[n] \in Seq(Phase)
             /\ \A i \in 1..Len(chain'[n]) :
                   chain'[n][i] \in Merged(n) /\ place[chain'[n][i]].depth = i - 1
             /\ \A q \in Merged(n) : /\ place[q].depth + 1 \in 1..Len(chain'[n])
                                     /\ chain'[n][place[q].depth + 1] = q
                                     /\ q \in Connected /\ NodeOf(q) = n
                                     /\ place[q].top = place[n].top
             /\ \A q : In(q, n) <=> q \in Merged(n)
  <2>1. n \in Connected /\ NodeOf(n) = n /\ chain'[n] = ChainOf(n)
    BY <1>3
  <2>2. /\ ChainOf(n) \in Seq(Phase)
        /\ \A i \in 1..Len(ChainOf(n)) :
              ChainOf(n)[i] \in Merged(n) /\ place[ChainOf(n)[i]].depth = i - 1
        /\ \A q \in Merged(n) : place[q].depth + 1 \in 1..Len(ChainOf(n))
                                /\ ChainOf(n)[place[q].depth + 1] = q
    BY <2>1, ChainIs
  <2>3. \A q \in Merged(n) : q \in Connected /\ NodeOf(q) = n /\ place[q].top = place[n].top
    BY <2>1, NodeIs DEF Merged
  <2> QED
    BY <2>1, <2>2, <2>3
<1>6. ASSUME NEW n \in LoneNodes
      PROVE  /\ chain'[n] \in Seq(Phase) /\ Len(chain'[n]) = 1 /\ chain'[n][1] = n - N
             /\ \A q : In(q, n) <=> q = n - N
  <2> DEFINE x == n - N
  <2>1. chain'[n] = <<x>> /\ x \in Phase
    BY <1>4
  <2> HIDE DEF x
  <2>2. Len(chain'[n]) = 1 /\ chain'[n][1] = x /\ chain'[n] \in Seq(Phase)
    BY <2>1
  <2>3. \A q : In(q, n) <=> q = x
    BY <2>2
  <2> QED
    BY <2>2, <2>3 DEF x
<1>7. ASSUME NEW p \in Connected
      PROVE  /\ NodeOf(p) \in MergedNodes /\ NodeOf(p) \in nodes' /\ p \in Merged(NodeOf(p))
             /\ In(p, NodeOf(p))
  <2>1. NodeOf(p) \in MergedNodes /\ p \in Merged(NodeOf(p))
    BY NodeIs DEF MergedNodes
  <2> QED
    BY <1>3, <1>5, <2>1
<1> HIDE DEF In
<1>8. ASSUME NEW n \in nodes' PROVE n \in MergedNodes \/ n \in LoneNodes
  BY <1>1
<1>9. \A n \in nodes' : chain'[n] \in Seq(Phase)
  BY <1>5, <1>6, <1>8
<1>10. \A p \in Phase : \E n \in nodes' : In(p, n)
  <2> SUFFICES ASSUME NEW p \in Phase PROVE \E n \in nodes' : In(p, n)
    OBVIOUS
  <2>1. CASE p \in Connected
    BY <1>7, <2>1
  <2>2. CASE p \notin Connected
    <3>1. N + p \in LoneNodes /\ N + p - N = p
      BY <1>2, <2>2 DEF LoneNodes
    <3> DEFINE n == N + p
    <3> HIDE DEF n
    <3>2. n \in LoneNodes /\ n - N = p
      BY <1>2, <3>1 DEF n
    <3> QED
      BY <1>4, <1>6, <3>2
  <2> QED
    BY <2>1, <2>2
<1>11. ASSUME NEW n \in nodes', NEW m \in nodes',
              NEW i \in 1..Len(chain'[n]), NEW j \in 1..Len(chain'[m]),
              chain'[n][i] = chain'[m][j]
       PROVE  n = m /\ i = j
  <2> DEFINE q == chain'[n][i]
  <2>1. In(q, n) /\ In(q, m) /\ q = chain'[m][j]
    BY <1>11 DEF In
  <2> HIDE DEF q
  <2>2. CASE n \in MergedNodes /\ m \in MergedNodes
    <3>1. q \in Merged(n) /\ q \in Merged(m)
      BY <1>5, <2>1, <2>2
    <3>2. n = m
      BY <1>5, <2>2, <3>1
    <3>3. place[q].depth = i - 1 /\ place[q].depth = j - 1
      BY <1>5, <2>1, <2>2 DEF q
    <3> QED
      BY <3>2, <3>3
  <2>3. CASE n \in LoneNodes /\ m \in LoneNodes
    <3>1. q = n - N /\ q = m - N
      BY <1>6, <2>1, <2>3
    <3>2. n = m
      BY <1>2, <1>4, <2>3, <3>1
    <3>3. Len(chain'[n]) = 1 /\ Len(chain'[m]) = 1
      BY <1>6, <2>3
    <3>4. i = 1 /\ j = 1
      BY <3>3
    <3> QED
      BY <3>2, <3>4
  <2>4. CASE n \in MergedNodes /\ m \in LoneNodes
    BY <1>4, <1>5, <1>6, <2>1, <2>4
  <2>5. CASE n \in LoneNodes /\ m \in MergedNodes
    BY <1>4, <1>5, <1>6, <2>1, <2>5
  <2> QED
    BY <1>8, <2>2, <2>3, <2>4, <2>5
<1>12. /\ parents \in [Connected -> Connected]
       /\ \A p \in Connected :
             parents[p] # p => parents[p] \in DOMAIN rels /\ rels[parents[p]] = p
       /\ \A p \in Connected : place[p].depth \in Nat
       /\ \A p \in Connected : parents[p] = p => place[p].depth = 0
       /\ \A p \in Connected : parents[p] # p =>
             place[p].top = place[parents[p]].top /\ place[p].depth = place[parents[p]].depth + 1
  BY DEF Placed, ParentsFromRelations, PlacesFromParents
<1>13. ASSUME NEW n \in nodes', NEW i \in 1..Len(chain'[n]), NEW j \in 1..Len(chain'[n]), j = i + 1
       PROVE  chain'[n][i] \in DOMAIN rels /\ rels[chain'[n][i]] = chain'[n][j]
  <2>1. n \in MergedNodes
    <3>1. Len(chain'[n]) \in Nat
      BY <1>9
    <3> DEFINE L == Len(chain'[n])
    <3>3. i \in 1..L /\ j \in 1..L
      OBVIOUS
    <3> HIDE DEF L
    <3>2. L # 1
      BY <1>13, <3>1, <3>3
    <3> QED
      BY <1>6, <1>8, <3>2 DEF L
  <2> DEFINE a == chain'[n][i]
             b == chain'[n][j]
  <2>2. /\ a \in Connected /\ place[a].depth = i - 1 /\ place[a].top = place[n].top
        /\ b \in Connected /\ place[b].depth = i /\ place[b].top = place[n].top
    BY <1>5, <1>13, <2>1
  <2> HIDE DEF a, b
  <2>3. parents[b] # b
    BY <1>12, <2>2
  <2>4. /\ parents[b] \in Connected /\ place[parents[b]].top = place[a].top
        /\ place[parents[b]].depth \in Nat /\ i = place[parents[b]].depth + 1
    BY <1>12, <2>2, <2>3
  <2>5. place[parents[b]].depth = place[a].depth
    BY <2>2, <2>4
  <2>6. parents[b] = a
    BY <2>2, <2>4, <2>5, OneAtEachDepth
  <2>7. a \in DOMAIN rels /\ rels[a] = b
    BY <1>12, <2>2, <2>3, <2>6
  <2> QED
    BY <2>7 DEF a, b
<1>14. ASSUME NEW p \in Connected, parents[p] # p
       PROVE  \E n \in nodes' : \E i, j \in 1..Len(chain'[n]) :
                 j = i + 1 /\ chain'[n][i] = parents[p] /\ chain'[n][j] = p
  <2> DEFINE n == NodeOf(p)
             r == parents[p]
             i == place[r].depth + 1
             j == place[p].depth + 1
  <2>1. n \in MergedNodes /\ n \in nodes' /\ p \in Merged(n)
    BY <1>7
  <2>2. r \in Connected /\ place[r].top = place[p].top /\ j = i + 1
    BY <1>12, <1>14
  <2> HIDE DEF n, r
  <2>3. r \in Merged(n)
    BY <2>1, <2>2 DEF Merged
  <2>4. i \in 1..Len(chain'[n]) /\ chain'[n][i] = r
    BY <1>5, <2>1, <2>3
  <2>5. j \in 1..Len(chain'[n]) /\ chain'[n][j] = p
    BY <1>5, <2>1
  <2> HIDE DEF i, j
  <2> QED
    BY <2>1, <2>2, <2>4, <2>5 DEF r
<1>15. ASSUME NEW n \in nodes', NEW p \in Connected, NEW q \in Connected, In(p, n), In(q, n)
       PROVE  place[p].top = place[q].top
  <2>1. n \in MergedNodes
    BY <1>4, <1>6, <1>8, <1>15
  <2> QED
    BY <1>5, <1>15, <2>1
<1>16. ASSUME NEW e \in SoftEdges
       PROVE  \E n, m \in nodes' : In(e.from, n) /\ In(e.to, m) /\ n \in edges'[m]
  <2>1. e.from \in Connected /\ e.to \in Connected
    BY DEF SoftEdges, Connected
  <2>2. NodeOf(e.from) \in nodes' /\ NodeOf(e.to) \in nodes'
    BY <1>7, <2>1
  <2>3. NodeOf(e.from) \in edges'[NodeOf(e.to)]
    BY <1>1, <2>2
  <2> QED
    BY <1>7, <2>1, <2>2, <2>3
<1>17. ASSUME NEW m \in nodes', NEW n \in edges'[m]
       PROVE  \E e \in SoftEdges : In(e.from, n) /\ In(e.to, m)
  <2>1. PICK e \in SoftEdges : NodeOf(e.to) = m /\ n = NodeOf(e.from)
    BY <1>1
  <2>2. e.from \in Connected /\ e.to \in Connected
    BY DEF SoftEdges, Connected
  <2> QED
    BY <1>7, <2>1, <2>2
<1>18. Connected' = Connected /\ SoftEdges' = SoftEdges /\ rels' = rels /\ parents' = parents
       /\ place' = place
  BY <1>1 DEF Connected, SoftEdges
<1>19. \A p, n : InNode(p, n)' <=> In(p, n)
  BY DEF InNode, In
<1> QED
  BY <1>9, <1>10, <1>11, <1>13, <1>14, <1>15, <1>16, <1>17, <1>18, <1>19
  DEF ChainsFromPlaces
\* What the passes left behind stays so when what it speaks of does.
LEMMA PassesKept ==
    /\ UNCHANGED decl /\ DuplicateName => DuplicateName'
    /\ UNCHANGED decl /\ UnknownName => UnknownName'
    /\ UNCHANGED phaseEdges /\ SeveralHard => SeveralHard'
    /\ UNCHANGED <<decl, phaseEdges>> /\ EdgesFromLinks => EdgesFromLinks'
    /\ UNCHANGED <<phaseEdges, rels>> /\ RelationsFromEdges => RelationsFromEdges'
    /\ UNCHANGED <<phaseEdges, rels, parents>> /\ ParentsFromRelations => ParentsFromRelations'
    /\ UNCHANGED <<phaseEdges, parents>> /\ ParentsOnACycle => ParentsOnACycle'
    /\ UNCHANGED <<phaseEdges, parents, place>> /\ PlacesFromParents => PlacesFromParents'
    /\ UNCHANGED <<phaseEdges, rels, parents, place, nodes, chain, edges>> /\ ChainsFromPlaces
          => ChainsFromPlaces'
<1>1. UNCHANGED decl /\ DuplicateName => DuplicateName'
  BY DEF DuplicateName
<1>2. UNCHANGED decl /\ UnknownName => UnknownName'
  BY DEF UnknownName
<1>3. UNCHANGED phaseEdges => HardEdges' = HardEdges /\ SoftEdges' = SoftEdges /\ Connected' = Connected
  BY DEF HardEdges, SoftEdges, Connected
<1>4. UNCHANGED phaseEdges /\ SeveralHard => SeveralHard'
  BY <1>3 DEF SeveralHard
<1>5. UNCHANGED <<decl, phaseEdges>> /\ EdgesFromLinks => EdgesFromLinks'
  BY DEF EdgesFromLinks
<1>6. UNCHANGED <<phaseEdges, rels>> /\ RelationsFromEdges => RelationsFromEdges'
  BY <1>3 DEF RelationsFromEdges
<1>7. UNCHANGED <<phaseEdges, rels, parents>> /\ ParentsFromRelations => ParentsFromRelations'
  BY <1>3 DEF ParentsFromRelations
<1>8. UNCHANGED <<phaseEdges, parents>> /\ ParentsOnACycle => ParentsOnACycle'
  BY <1>3 DEF ParentsOnACycle
<1>9. UNCHANGED <<phaseEdges, parents, place>> /\ PlacesFromParents => PlacesFromParents'
  BY <1>3 DEF PlacesFromParents
<1>10. UNCHANGED <<phaseEdges, rels, parents, place, nodes, chain, edges>> /\ ChainsFromPlaces
          => ChainsFromPlaces'
  <2>1. UNCHANGED chain => \A p, n : InNode(p, n)' <=> InNode(p, n)
    BY DEF InNode
  <2> QED
    BY <1>3, <2>1 DEF ChainsFromPlaces
<1> QED
  BY <1>1, <1>2, <1>4, <1>5, <1>6, <1>7, <1>8, <1>9, <1>10

\* Every step keeps what the passes have found.
LEMMA NextPasses == TypeOK /\ PassesInvariant /\ [Next]_vars => PassesInvariant'
<1> SUFFICES ASSUME TypeOK, PassesInvariant, [Next]_vars
             PROVE  PassesInvariant'
  OBVIOUS
<1>1. CASE CreateEdges
  <2>1. /\ UNCHANGED decl
        /\ status' = IF DuplicateName THEN "duplicateName"
                     ELSE IF UnknownName THEN "unknownName" ELSE "edged"
    BY <1>1 DEF CreateEdges
  <2>2. ~ DuplicateName /\ ~ UnknownName => EdgesFromLinks'
    BY <1>1, CreateEdgesKeeps
  <2> QED
    BY <2>1, <2>2, PassesKept DEF PassesInvariant, NamesRefused, HardRefused
<1>2. CASE FindStrongRelations
  <2>1. /\ UNCHANGED <<decl, phaseEdges>> /\ status = "edged"
        /\ status' = IF SeveralHard THEN "severalHard" ELSE "related"
    BY <1>2 DEF FindStrongRelations
  <2>2. ~ SeveralHard => RelationsFromEdges'
    BY <1>2, FindStrongRelationsKeeps
  <2> QED
    BY <2>1, <2>2, PassesKept DEF PassesInvariant, NamesRefused, HardRefused
<1>3. CASE LinkParents
  <2>1. UNCHANGED <<decl, phaseEdges, rels>> /\ status = "related" /\ status' = "linked"
    BY <1>3 DEF LinkParents
  <2>2. RelationsFromEdges
    BY <2>1 DEF PassesInvariant, NamesRefused, HardRefused
  <2>3. ParentsFromRelations'
    BY <1>3, <2>2, LinkParentsKeeps
  <2> QED
    BY <2>1, <2>3, PassesKept DEF PassesInvariant, NamesRefused, HardRefused
<1>4. CASE FindParents
  <2>1. /\ UNCHANGED <<decl, phaseEdges, rels, parents>>
        /\ status = "linked" /\ status' \in {"hardCycle", "merged"}
    BY <1>4 DEF FindParents
  <2>2. ParentsFromRelations
    BY <2>1 DEF PassesInvariant, NamesRefused, HardRefused
  <2>3. /\ status' = "merged" => PlacesFromParents'
        /\ status' = "hardCycle" => ParentsOnACycle'
    BY <1>4, <2>2, FindParentsKeeps
  <2> QED
    BY <2>1, <2>3, PassesKept DEF PassesInvariant, NamesRefused, HardRefused
<1>5. CASE CreateUniqueNodes
  <2>1. /\ UNCHANGED <<decl, phaseEdges, rels, parents, place>>
        /\ status = "merged" /\ status' = "visiting"
    BY <1>5 DEF CreateUniqueNodes
  <2>2. ParentsFromRelations /\ PlacesFromParents
    BY <2>1 DEF PassesInvariant, NamesRefused, HardRefused
  <2>3. ChainsFromPlaces'
    BY <1>5, <2>2, CreateUniqueNodesKeeps DEF Placed
  <2> QED
    BY <2>1, <2>3, PassesKept DEF PassesInvariant, NamesRefused, HardRefused
<1>6. CASE Sort
  <2>1. SortStep /\ UNCHANGED <<decl, phaseEdges, rels, parents, place, chain>>
    BY <1>6 DEF Sort
  <2>2. /\ UNCHANGED <<nodes, edges>>
        /\ status = "visiting" /\ status' \in {"visiting", "sorted", "cyclic", "crashed"}
    BY <2>1 DEF SortStep, VisitRoot, VisitNeighbor, FoundCycle, VisitStale, Finish, Sorted
  <2> QED
    BY <2>1, <2>2, PassesKept DEF PassesInvariant, NamesRefused, HardRefused
<1>7. CASE UNCHANGED vars
  <2>1. UNCHANGED <<decl, phaseEdges, rels, parents, place, chain, nodes, edges, status>>
    BY <1>7 DEF vars, sortVars
  <2> QED
    BY <2>1, PassesKept DEF PassesInvariant
<1>8. CASE Terminated
  BY <1>7, <1>8 DEF Terminated
<1> QED
  BY <1>1, <1>2, <1>3, <1>4, <1>5, <1>6, <1>7, <1>8 DEF Next
-----------------------------------------------------------------------------
(* The order *)

\* A sort has ended well, and what the passes did before it is known.
WellSorted ==
    /\ TypeOK /\ EdgesFromLinks /\ RelationsFromEdges /\ ParentsFromRelations /\ ChainsFromPlaces
    /\ Enumerates(ordered, nodes) /\ RespectsEdges(ordered)

\* off[r] is the place in sortedPhases where the chain of the r-th node ends.
Blocks(off) ==
    /\ off \in [0..Len(ordered) -> Nat]
    /\ \A r, t \in 0..Len(ordered) : r <= t => off[r] <= off[t]
    /\ sortedPhases \in Seq(Phase)
    /\ \A r \in 1..Len(ordered) : off[r] = off[r - 1] + Len(chain[ordered[r]])
    /\ \A r \in 1..Len(ordered) : \A i \in 1..Len(chain[ordered[r]]) :
          /\ off[r - 1] + i \in 1..Len(sortedPhases)
          /\ sortedPhases[off[r - 1] + i] = chain[ordered[r]][i]
    /\ \A x \in 1..Len(sortedPhases) : \E r \in 1..Len(ordered) : \E i \in 1..Len(chain[ordered[r]]) :
          x = off[r - 1] + i

\* Every merged node is a block of the order, in the order of the sort.
LEMMA BlocksExist ==
    ASSUME WellSorted
    PROVE  \E off : Blocks(off)
<1> DEFINE q == [i \in 1..Len(ordered) |-> chain[ordered[i]]]
           n == Len(ordered)
<1>1. n \in Nat /\ ordered \in Seq(nodes) /\ \A i \in 1..n : ordered[i] \in nodes
  BY DEF WellSorted, TypeOK
<1>2. sortedPhases = FlattenSeq(q)
  BY DEF sortedPhases
<1>3. Len(q) = n /\ \A i \in 1..n : q[i] = chain[ordered[i]] /\ q[i] \in Seq(Phase)
  BY <1>1 DEF WellSorted, ChainsFromPlaces
<1> HIDE DEF q, n
<1>4. CASE n = 0
  <2> DEFINE off == [k \in 0..0 |-> 0]
  <2>1. q = << >>
    BY <1>4 DEF q, n
  <2>2. sortedPhases = << >>
    BY <1>2, <2>1 DEF FlattenSeq
  <2>3. off \in [0..n -> Nat] /\ \A r, t \in 0..n : off[r] <= off[t]
    BY <1>4
  <2> HIDE DEF off
  <2>4. sortedPhases \in Seq(Phase) /\ Len(sortedPhases) = 0
    BY <2>2
  <2>5. Blocks(off)
    BY <1>4, <2>3, <2>4 DEF Blocks, n
  <2> QED
    BY <2>5
<1>5. CASE n # 0
  <2>1. Len(q) \in Nat \ {0} /\ \A i \in 1..Len(q) : q[i] \in Seq(Phase)
    BY <1>1, <1>3, <1>5
  <2>2. FlattenSeq(q) \in Seq(Phase) /\ \E off : Spread(Len(q), q, off, FlattenSeq(q))
    BY <2>1, Flattened
  <2>3. PICK off : Spread(n, q, off, sortedPhases)
    BY <1>2, <1>3, <2>2
  <2>4. Offsets(n, q, off)
    BY <2>3 DEF Spread
  <2>5. /\ off \in [0..n -> Nat]
        /\ \A i \in 1..n : off[i] = off[i - 1] + Len(q[i]) /\ Len(q[i]) \in Nat
    BY <2>4 DEF Offsets
  <2>6. \A r, t \in 0..n : r <= t => off[r] <= off[t]
    BY <1>1, <2>4, OffsetsGrow
  <2>7. ASSUME NEW x \in 1..off[n]
        PROVE  \E i \in 1..n : \E k \in 1..Len(q[i]) : x = off[i - 1] + k
    BY <1>1, <2>4, OffsetsCover
  <2>8. sortedPhases \in Seq(Phase) /\ Len(sortedPhases) = off[n]
    BY <1>2, <2>2, <2>3 DEF Spread
  <2>9. ASSUME NEW r \in 1..n, NEW i \in 1..Len(q[r])
        PROVE  off[r - 1] + i \in 1..off[n] /\ sortedPhases[off[r - 1] + i] = q[r][i]
    <3>1. r \in 0..n /\ n \in 0..n /\ r <= n /\ r - 1 \in 0..n
      BY <1>1
    <3>2. off[r] <= off[n]
      BY <2>6, <3>1
    <3>3. off[r - 1] \in Nat /\ off[r] \in Nat /\ off[n] \in Nat /\ Len(q[r]) \in Nat
          /\ off[r] = off[r - 1] + Len(q[r])
      BY <2>5, <3>1
    <3>4. off[r - 1] + i \in 1..off[n]
      BY <3>2, <3>3
    <3> QED
      BY <2>3, <3>4 DEF Spread
  <2>10. Blocks(off)
    <3>1. \A r \in 1..n : off[r] = off[r - 1] + Len(chain[ordered[r]])
      BY <1>3, <2>5
    <3>2. \A r \in 1..n : \A i \in 1..Len(chain[ordered[r]]) :
             off[r - 1] + i \in 1..Len(sortedPhases)
             /\ sortedPhases[off[r - 1] + i] = chain[ordered[r]][i]
      BY <1>3, <2>8, <2>9
    <3>3. \A x \in 1..Len(sortedPhases) : \E r \in 1..n : \E i \in 1..Len(chain[ordered[r]]) :
             x = off[r - 1] + i
      <4> SUFFICES ASSUME NEW x \in 1..off[n]
                   PROVE  \E r \in 1..n : \E i \in 1..Len(chain[ordered[r]]) : x = off[r - 1] + i
        BY <2>8
      <4>1. PICK r \in 1..n : \E k \in 1..Len(q[r]) : x = off[r - 1] + k
        BY <2>7
      <4>2. q[r] = chain[ordered[r]]
        BY <1>3
      <4> QED
        BY <4>1, <4>2
    <3> QED
      BY <2>5, <2>6, <2>8, <3>1, <3>2, <3>3 DEF Blocks, n
  <2> QED
    BY <2>10
<1> QED
  BY <1>4, <1>5

(* Every phase runs, and none runs twice.                                  *)
LEMMA EachRunsOnce ==
    ASSUME WellSorted, NEW off, Blocks(off)
    PROVE  /\ RunsNoneTwice(sortedPhases)
           /\ \A p \in Phase : \E x \in 1..Len(sortedPhases) : sortedPhases[x] = p
           /\ Len(sortedPhases) = Cardinality(DOMAIN decl)
<1> DEFINE s == sortedPhases
           n == Len(s)
<1>1. /\ s \in Seq(Phase) /\ n \in Nat /\ DOMAIN decl = Phase
      /\ \A i \in 1..Len(ordered) : ordered[i] \in nodes
  BY DEF WellSorted, TypeOK, Blocks
<1>2. ASSUME NEW x \in 1..n, NEW y \in 1..n, s[x] = s[y] PROVE x = y
  <2>1. PICK r \in 1..Len(ordered) : \E i \in 1..Len(chain[ordered[r]]) : x = off[r - 1] + i
    BY DEF Blocks
  <2>2. PICK i \in 1..Len(chain[ordered[r]]) : x = off[r - 1] + i
    BY <2>1
  <2>3. PICK t \in 1..Len(ordered) : \E j \in 1..Len(chain[ordered[t]]) : y = off[t - 1] + j
    BY DEF Blocks
  <2>4. PICK j \in 1..Len(chain[ordered[t]]) : y = off[t - 1] + j
    BY <2>3
  <2>5. chain[ordered[r]][i] = chain[ordered[t]][j]
    BY <1>2, <2>2, <2>4 DEF Blocks
  <2>6. ordered[r] = ordered[t] /\ i = j
    BY <1>1, <2>5 DEF WellSorted, ChainsFromPlaces
  <2>7. r = t
    BY <2>6 DEF WellSorted, Enumerates
  <2> QED
    BY <2>2, <2>4, <2>6, <2>7
<1>3. ASSUME NEW p \in Phase PROVE \E x \in 1..n : s[x] = p
  <2>1. PICK m \in nodes : \E i \in 1..Len(chain[m]) : chain[m][i] = p
    BY DEF WellSorted, ChainsFromPlaces, InNode
  <2>2. PICK r \in 1..Len(ordered) : ordered[r] = m
    BY DEF WellSorted, Enumerates, Elements
  <2>3. PICK i \in 1..Len(chain[ordered[r]]) : chain[ordered[r]][i] = p
    BY <2>1, <2>2
  <2>4. off[r - 1] + i \in 1..n /\ s[off[r - 1] + i] = p
    BY <2>3 DEF Blocks
  <2> QED
    BY <2>4
<1>4. n = Cardinality(Phase)
  <2>1. IsFiniteSet(1..n) /\ Cardinality(1..n) = n
    <3>1. 1 \in Int /\ n \in Int
      BY <1>1
    <3>2. IsFiniteSet(1..n) /\ Cardinality(1..n) = IF 1 > n THEN 0 ELSE n - 1 + 1
      BY <3>1, FS_Interval, Zenon
    <3> QED
      BY <1>1, <3>2
  <2>2. s \in [1..n -> Phase]
    BY <1>1
  <2> HIDE DEF s, n
  <2>3. ExistsBijection(1..n, Phase)
    BY <1>2, <1>3, <2>2 DEF ExistsBijection, Bijection, Injection, Surjection, IsInjective
  <2> QED
    BY <2>1, <2>3, FS_Bijection
<1> QED
  BY <1>1, <1>2, <1>3, <1>4 DEF RunsNoneTwice

(* Where the chain of a node holds two phases one after the other, they    *)
(* run one after the other.                                                *)
LEMMA ChainsRunTogether ==
    ASSUME WellSorted, NEW off, Blocks(off), NEW n \in nodes,
           NEW i \in 1..Len(chain[n]), NEW j \in 1..Len(chain[n]), j = i + 1,
           NEW x \in 1..Len(sortedPhases), NEW y \in 1..Len(sortedPhases),
           sortedPhases[x] = chain[n][i], sortedPhases[y] = chain[n][j]
    PROVE  y = x + 1
<1>1. PICK r \in 1..Len(ordered) : ordered[r] = n
  BY DEF WellSorted, Enumerates, Elements
<1> DEFINE o == off[r - 1]
<1>2. /\ o + i \in 1..Len(sortedPhases) /\ sortedPhases[o + i] = chain[n][i]
      /\ o + j \in 1..Len(sortedPhases) /\ sortedPhases[o + j] = chain[n][j]
  BY <1>1 DEF Blocks
<1>3. x = o + i /\ y = o + j
  BY <1>2, EachRunsOnce DEF RunsNoneTwice
<1>4. o \in Nat /\ i \in Nat
  <2>1. r - 1 \in 0..Len(ordered) /\ n \in nodes
    BY DEF WellSorted, TypeOK
  <2>2. chain[n] \in Seq(Phase)
    BY <2>1 DEF WellSorted, ChainsFromPlaces
  <2> QED
    BY <2>1, <2>2 DEF Blocks
<1> HIDE DEF o
<1> QED
  BY <1>3, <1>4

(* The phases of a node run after those of the nodes its edges lead to.    *)
LEMMA EdgesRunBefore ==
    ASSUME WellSorted, NEW off, Blocks(off), NEW m \in nodes, NEW n \in edges[m],
           NEW x \in 1..Len(sortedPhases), NEW y \in 1..Len(sortedPhases),
           InNode(sortedPhases[x], n), InNode(sortedPhases[y], m)
    PROVE  x < y
<1>1. n \in nodes /\ Len(ordered) \in Nat
  BY DEF WellSorted, TypeOK
<1>2. PICK t \in 1..Len(ordered) : ordered[t] = m
  BY DEF WellSorted, Enumerates, Elements
<1>3. PICK r \in 1..Len(ordered) : r < t /\ ordered[r] = n
  BY <1>2 DEF WellSorted, RespectsEdges
<1>4. PICK i \in 1..Len(chain[n]) : chain[n][i] = sortedPhases[x]
  BY DEF InNode
<1>5. PICK j \in 1..Len(chain[m]) : chain[m][j] = sortedPhases[y]
  BY DEF InNode
<1>6. off[r - 1] + i \in 1..Len(sortedPhases) /\ sortedPhases[off[r - 1] + i] = sortedPhases[x]
  BY <1>3, <1>4 DEF Blocks
<1>7. off[t - 1] + j \in 1..Len(sortedPhases) /\ sortedPhases[off[t - 1] + j] = sortedPhases[y]
  BY <1>2, <1>5 DEF Blocks
<1>8. x = off[r - 1] + i /\ y = off[t - 1] + j
  BY <1>6, <1>7, EachRunsOnce DEF RunsNoneTwice
<1>9. r \in 0..Len(ordered) /\ r - 1 \in 0..Len(ordered) /\ t - 1 \in 0..Len(ordered) /\ r <= t - 1
  BY <1>1, <1>3
<1>10. /\ off[r - 1] \in Nat /\ off[r] \in Nat /\ off[t - 1] \in Nat
       /\ off[r] <= off[t - 1] /\ off[r] = off[r - 1] + Len(chain[n])
  BY <1>3, <1>9 DEF Blocks
<1>11. Len(chain[n]) \in Nat /\ Len(chain[m]) \in Nat
  BY <1>1 DEF WellSorted, ChainsFromPlaces
<1> DEFINE L == Len(chain[n])
           a == off[r - 1]
           b == off[t - 1]
<1>12. i \in 1..L /\ L \in Nat /\ j \in Nat /\ j >= 1
  BY <1>11
<1>13. x = a + i /\ y = b + j /\ a \in Nat /\ b \in Nat /\ a + L <= b
  BY <1>8, <1>10
<1> HIDE DEF L, a, b
<1> QED
  BY <1>12, <1>13

\* An order made from a good sort has every phase in a valid place.
LEMMA SortedIsValid ==
    ASSUME WellSorted, ~ AmbiguousHard
    PROVE  ValidOrder(decl, sortedPhases)
<1> DEFINE s == sortedPhases
<1>1. PICK off : Blocks(off)
  BY BlocksExist
<1>2. /\ \A p \in Phase : \E x \in 1..Len(s) : s[x] = p
      /\ Len(s) = Cardinality(DOMAIN decl)
  BY <1>1, EachRunsOnce
<1>3. s \in Seq(Phase) /\ Len(s) \in Nat /\ \A x \in 1..Len(s) : s[x] \in Phase
  BY <1>1 DEF Blocks
<1>4. ASSUME NEW e \in HardEdges, NEW x \in 1..Len(s), NEW y \in 1..Len(s),
             s[x] = e.from, s[y] = e.to
      PROVE  y = x + 1
  <2>1. e.from \in DOMAIN rels /\ rels[e.from] = e.to /\ e.to \in Connected
    BY DEF WellSorted, RelationsFromEdges, HardEdges, Connected
  <2>2. parents[e.to] \in DOMAIN rels /\ rels[parents[e.to]] = e.to
    BY <2>1 DEF WellSorted, ParentsFromRelations
  <2>3. PICK f \in HardEdges : f.from = parents[e.to] /\ f.to = e.to
    BY <2>2 DEF WellSorted, RelationsFromEdges
  <2>4. f = e /\ e.from # e.to
    BY <2>3 DEF AmbiguousHard
  <2>5. PICK n \in nodes : \E i, j \in 1..Len(chain[n]) :
                              j = i + 1 /\ chain[n][i] = e.from /\ chain[n][j] = e.to
    BY <2>1, <2>3, <2>4 DEF WellSorted, ChainsFromPlaces
  <2>6. PICK i \in 1..Len(chain[n]), j \in 1..Len(chain[n]) :
               j = i + 1 /\ sortedPhases[x] = chain[n][i] /\ sortedPhases[y] = chain[n][j]
    BY <1>4, <2>5
  <2>7. x \in 1..Len(sortedPhases) /\ y \in 1..Len(sortedPhases)
    OBVIOUS
  <2> HIDE DEF s
  <2> QED
    BY <1>1, <2>6, <2>7, ChainsRunTogether
<1>5. ASSUME NEW e \in SoftEdges, NEW x \in 1..Len(s), NEW y \in 1..Len(s),
             s[x] = e.from, s[y] = e.to
      PROVE  x < y
  <2>1. PICK n \in nodes, m \in nodes : InNode(e.from, n) /\ InNode(e.to, m) /\ n \in edges[m]
    BY DEF WellSorted, ChainsFromPlaces
  <2> QED
    BY <1>1, <1>5, <2>1, EdgesRunBefore
<1>6. ASSUME NEW i \in 1..Len(s), NEW l \in decl[s[i]].links
      PROVE  LinkHolds(decl, s, i, l)
  <2>1. s[i] \in Phase /\ l.kind \in HardKind \cup SoftKind
    BY <1>3 DEF WellSorted, TypeOK, IsDeclaration, Link
  <2>2. PICK q \in Phase : decl[q].name = l.name /\ Edge(s[i], l, q) \in phaseEdges
    BY <2>1 DEF WellSorted, EdgesFromLinks
  <2>3. PICK j \in 1..Len(s) : s[j] = q
    BY <1>2
  <2> DEFINE e == Edge(s[i], l, q)
  <2>4. /\ e.kind = l.kind
        /\ l.kind \in {"rightAfter", "after"} => e.from = s[j] /\ e.to = s[i]
        /\ l.kind \notin {"rightAfter", "after"} => e.from = s[i] /\ e.to = s[j]
    BY <2>3 DEF Edge
  <2>5. e \in phaseEdges
    BY <2>2
  <2> HIDE DEF e, s
  <2>6. l.kind \in HardKind => e \in HardEdges
    BY <2>4, <2>5 DEF HardEdges
  <2>7. l.kind \in SoftKind => e \in SoftEdges
    BY <2>4, <2>5 DEF SoftEdges
  <2>8. CASE l.kind = "rightAfter"
    <3>1. i = j + 1
      BY <1>4, <2>4, <2>6, <2>8 DEF HardKind
    <3>2. i - 1 = j
      BY <1>3, <3>1
    <3> QED
      BY <2>2, <2>3, <2>8, <3>2 DEF LinkHolds, RunsAt
  <2>9. CASE l.kind = "rightBefore"
    <3>1. j = i + 1
      BY <1>4, <2>4, <2>6, <2>9 DEF HardKind
    <3> QED
      BY <2>2, <2>3, <2>9, <3>1 DEF LinkHolds, RunsAt
  <2>10. CASE l.kind = "after"
    <3>1. j < i
      BY <1>5, <2>4, <2>7, <2>10 DEF SoftKind
    <3>2. j \in 1..(i - 1)
      BY <1>3, <3>1
    <3> QED
      BY <2>2, <2>3, <2>10, <3>2 DEF LinkHolds, RunsAt
  <2>11. CASE l.kind = "before"
    <3>1. i < j
      BY <1>5, <2>4, <2>7, <2>11 DEF SoftKind
    <3>2. j \in (i + 1)..Len(s)
      BY <1>3, <3>1
    <3> QED
      BY <2>2, <2>3, <2>11, <3>2 DEF LinkHolds, RunsAt
  <2> QED
    BY <2>1, <2>8, <2>9, <2>10, <2>11 DEF HardKind, SoftKind
<1> QED
  BY <1>2, <1>6 DEF ValidOrder

SortedProperly == TypeOK /\ GraphInvariant /\ PassesInvariant

\* What the sort promises holds at first.
LEMMA InitProper == Init => SortedProperly
<1> SUFFICES ASSUME Init PROVE SortedProperly
  OBVIOUS
<1>1. status = "declared" /\ stack = << >> /\ ordered = << >>
  BY DEF Init
<1>2. TypeOK
  BY InitTyped
<1> QED
  BY <1>1, <1>2 DEF SortedProperly, GraphInvariant, PassesInvariant, NamesRefused

\* Every step keeps what the sort promises.
LEMMA NextProper == SortedProperly /\ [Next]_vars => SortedProperly'
  BY NextTyped, NextInvariant, NextPasses DEF SortedProperly

(* For every pipeline of every size: the order sortPhases returns runs     *)
(* every phase once and puts each where it declared to run, unless hard    *)
(* links compete for one place or the edges point into freed storage.      *)
THEOREM OrderValid == Spec => []OrderIsValid
<1>1. SortedProperly => OrderIsValid
  <2> SUFFICES ASSUME SortedProperly, status = "sorted", ~ moved, ~ AmbiguousHard
               PROVE  ValidOrder(decl, sortedPhases)
    BY DEF OrderIsValid
  <2>1. SortedIsTopological
    BY SortInvariantSuffices DEF SortedProperly, GraphInvariant
  <2>2. WellSorted
    BY <2>1 DEF WellSorted, SortedIsTopological, SortedProperly, PassesInvariant,
                NamesRefused, HardRefused
  <2> QED
    BY <2>2, SortedIsValid
<1> QED
  BY <1>1, InitProper, NextProper, PTL DEF Spec
-----------------------------------------------------------------------------
(* The pipelines that are refused *)

\* In the order s of all the phases, phase p is at pos[p].
Positions(s, pos) ==
    /\ Len(s) = N
    /\ pos \in [Phase -> 1..N]
    /\ \A p \in Phase : s[pos[p]] = p
    /\ \A i \in 1..N : s[i] \in Phase /\ pos[s[i]] = i

\* A valid order gives every phase a position.
LEMMA PositionsExist ==
    ASSUME TypeOK, NEW s \in ValidOrders(decl)
    PROVE  ValidOrder(decl, s) /\ \E pos : Positions(s, pos)
<1>1. DOMAIN decl = Phase /\ IsFiniteSet(Phase) /\ Cardinality(Phase) = N
  <2>1. 1 \in Int /\ N \in Int
    BY NAssumption
  <2>2. IsFiniteSet(1..N) /\ Cardinality(1..N) = IF 1 > N THEN 0 ELSE N - 1 + 1
    BY <2>1, FS_Interval, Zenon
  <2>3. Cardinality(1..N) = N
    BY <2>2, NAssumption
  <2> QED
    BY <2>2, <2>3 DEF TypeOK, Phase
<1>2. s \in Seq(Phase) /\ RunsNoneTwice(s) /\ RunsAll(decl, s) /\ ValidOrder(decl, s)
  BY <1>1, OrdersRunEachOnce
<1>3. Len(s) = N
  BY <1>1, <1>2 DEF ValidOrder
<1> DEFINE pos == [p \in Phase |-> CHOOSE i \in 1..N : s[i] = p]
<1>4. ASSUME NEW p \in Phase PROVE pos[p] \in 1..N /\ s[pos[p]] = p
  <2>1. \E i \in 1..N : s[i] = p
    BY <1>1, <1>2, <1>3 DEF RunsAll
  <2> QED
    BY <2>1
<1>5. pos \in [Phase -> 1..N]
  BY <1>4
<1> HIDE DEF pos
<1>6. ASSUME NEW i \in 1..N PROVE s[i] \in Phase /\ pos[s[i]] = i
  <2>1. s[i] \in Phase
    BY <1>2, <1>3
  <2>2. pos[s[i]] \in 1..N /\ s[pos[s[i]]] = s[i]
    BY <1>4, <2>1
  <2> QED
    BY <1>2, <1>3, <2>1, <2>2 DEF RunsNoneTwice
<1>7. Positions(s, pos)
  BY <1>3, <1>4, <1>5, <1>6 DEF Positions
<1> QED
  BY <1>2, <1>7

\* A valid order goes along the edges.
LEMMA EdgesHold ==
    ASSUME TypeOK, EdgesFromLinks, NEW s, ValidOrder(decl, s), NEW pos, Positions(s, pos),
           NEW e \in phaseEdges
    PROVE  /\ e.from \in Phase /\ e.to \in Phase
           /\ e \in HardEdges => pos[e.to] = pos[e.from] + 1
           /\ e \in SoftEdges => pos[e.from] < pos[e.to]
<1>1. PICK p \in Phase, q \in Phase : \E l \in decl[p].links : decl[q].name = l.name /\ e = Edge(p, l, q)
  BY DEF EdgesFromLinks
<1>2. PICK l \in decl[p].links : decl[q].name = l.name /\ e = Edge(p, l, q)
  BY <1>1
<1>3. l.kind \in HardKind \cup SoftKind
  BY DEF TypeOK, IsDeclaration, Link
<1> DEFINE i == pos[p]
           j == pos[q]
<1>4. i \in 1..N /\ s[i] = p /\ j \in 1..N /\ Len(s) = N
  BY DEF Positions
<1>5. LinkHolds(decl, s, i, l)
  BY <1>4 DEF ValidOrder
<1>6. ASSUME NEW P, RunsAt(decl, s, l.name, P) PROVE j \in P
  <2>1. PICK k \in P \cap 1..N : decl[s[k]].name = l.name
    BY <1>4, <1>6 DEF RunsAt
  <2>2. s[k] \in Phase /\ pos[s[k]] = k
    BY DEF Positions
  <2>3. s[k] = q
    BY <1>2, <2>1, <2>2 DEF EdgesFromLinks
  <2> QED
    BY <2>2, <2>3
<1> HIDE DEF i, j
<1>7. N \in Nat
  BY NAssumption
<1>8. CASE l.kind = "rightAfter"
  <2>1. RunsAt(decl, s, l.name, {i - 1})
    BY <1>5, <1>8 DEF LinkHolds
  <2>2. j \in {i - 1}
    BY <1>6, <2>1
  <2>3. i = j + 1
    BY <1>4, <2>2
  <2>4. e.from = q /\ e.to = p /\ e.kind = l.kind
    BY <1>2, <1>8 DEF Edge
  <2> QED
    BY <1>8, <2>3, <2>4 DEF HardEdges, SoftEdges, SoftKind, i, j
<1>9. CASE l.kind = "rightBefore"
  <2>1. RunsAt(decl, s, l.name, {i + 1})
    BY <1>5, <1>9 DEF LinkHolds
  <2>2. j = i + 1
    BY <1>6, <2>1
  <2>3. e.from = p /\ e.to = q /\ e.kind = l.kind
    BY <1>2, <1>9 DEF Edge
  <2> QED
    BY <1>9, <2>2, <2>3 DEF HardEdges, SoftEdges, SoftKind, i, j
<1>10. CASE l.kind = "after"
  <2>1. RunsAt(decl, s, l.name, 1..(i - 1))
    BY <1>5, <1>10 DEF LinkHolds
  <2>2. j \in 1..(i - 1)
    BY <1>6, <2>1
  <2>3. j < i
    BY <1>4, <2>2
  <2>4. e.from = q /\ e.to = p /\ e.kind = l.kind
    BY <1>2, <1>10 DEF Edge
  <2> QED
    BY <1>10, <2>3, <2>4 DEF HardEdges, SoftEdges, HardKind, i, j
<1>11. CASE l.kind = "before"
  <2>1. RunsAt(decl, s, l.name, (i + 1)..N)
    BY <1>4, <1>5, <1>11 DEF LinkHolds
  <2>2. j \in (i + 1)..N
    BY <1>6, <2>1
  <2>3. i < j
    BY <1>4, <1>7, <2>2
  <2>4. e.from = p /\ e.to = q /\ e.kind = l.kind
    BY <1>2, <1>11 DEF Edge
  <2> QED
    BY <1>11, <2>3, <2>4 DEF HardEdges, SoftEdges, HardKind, i, j
<1> QED
  BY <1>3, <1>8, <1>9, <1>10, <1>11 DEF HardKind, SoftKind

\* A pipeline that names a phase which is not there has no valid order.
LEMMA NoOrderOfUnknown ==
    ASSUME TypeOK, UnknownName, NEW s, ValidOrder(decl, s), NEW pos, Positions(s, pos)
    PROVE  FALSE
<1>1. PICK p \in Phase : \E l \in decl[p].links : \A q \in Phase : decl[q].name # l.name
  BY DEF UnknownName
<1>2. PICK l \in decl[p].links : \A q \in Phase : decl[q].name # l.name
  BY <1>1
<1>3. l.kind \in HardKind \cup SoftKind
  BY DEF TypeOK, IsDeclaration, Link
<1>4. pos[p] \in 1..Len(s) /\ s[pos[p]] = p
  BY DEF Positions
<1>5. LinkHolds(decl, s, pos[p], l)
  BY <1>4 DEF ValidOrder
<1>6. \E P : RunsAt(decl, s, l.name, P)
  BY <1>3, <1>5 DEF LinkHolds, HardKind, SoftKind
<1>7. \E j \in 1..N : decl[s[j]].name = l.name
  BY <1>6 DEF RunsAt, Positions
<1> QED
  BY <1>2, <1>7 DEF Positions

\* The edges as they are when the names are in order, and an order along them.
Ordering(s, pos) ==
    /\ TypeOK /\ ~ Redundant /\ ~ LinkInChain /\ EdgesFromLinks
    /\ ValidOrder(decl, s) /\ Positions(s, pos)

\* Two phases cannot be right after, or right before, the same one.
LEMMA NoOrderOfSeveralHard ==
    ASSUME SeveralHard, NEW s, NEW pos, Ordering(s, pos)
    PROVE  FALSE
<1>1. PICK e \in HardEdges, f \in HardEdges : e # f /\ e.from = f.from
  BY DEF SeveralHard
<1>2. e \in phaseEdges /\ f \in phaseEdges
  BY DEF HardEdges
<1>3. /\ e.to \in Phase /\ f.to \in Phase
      /\ pos[e.to] = pos[e.from] + 1 /\ pos[f.to] = pos[f.from] + 1
  BY <1>2, EdgesHold DEF Ordering
<1>4. e.to = f.to
  <2>1. pos[e.to] = pos[f.to]
    BY <1>1, <1>3
  <2>2. s[pos[e.to]] = e.to /\ s[pos[f.to]] = f.to
    BY <1>3 DEF Ordering, Positions
  <2> QED
    BY <2>1, <2>2
<1> QED
  BY <1>1, <1>4 DEF Ordering, Redundant

(* Each phase that has a parent runs right after it: up a cycle of parents *)
(* the positions would go down forever.                                    *)
LEMMA NoOrderOfHardCycle ==
    ASSUME RelationsFromEdges, ParentsFromRelations, ParentsOnACycle,
           NEW s, NEW pos, Ordering(s, pos)
    PROVE  FALSE
<1>1. N \in Nat /\ Connected \subseteq Phase
  BY NAssumption, NodeOfTyped DEF Ordering
<1>2. ASSUME NEW p \in Connected, parents[p] # p
      PROVE  /\ parents[p] \in Connected
             /\ pos[parents[p]] \in Nat \ {0} /\ pos[p] \in 1..N /\ pos[p] = pos[parents[p]] + 1
  <2>1. parents[p] \in DOMAIN rels /\ rels[parents[p]] = p /\ parents[p] \in Connected
    BY <1>2 DEF ParentsFromRelations
  <2>2. PICK e \in HardEdges : e.from = parents[p] /\ e.to = p
    BY <2>1 DEF RelationsFromEdges
  <2>3. e \in phaseEdges
    BY DEF HardEdges
  <2>4. pos[p] = pos[parents[p]] + 1
    BY <2>2, <2>3, EdgesHold DEF Ordering
  <2>5. pos[parents[p]] \in 1..N /\ pos[p] \in 1..N
    BY <1>1, <2>1 DEF Ordering, Positions
  <2> QED
    BY <2>1, <2>4, <2>5
<1>3. PICK w \in [0..N -> Connected] :
         (\A k \in 1..N : w[k] = parents[w[k - 1]]) /\ parents[w[N]] # w[N]
  BY DEF ParentsOnACycle
<1> DEFINE T == {d \in Nat : \A k \in 0..N : k + d = N => parents[w[k]] # w[k] /\ pos[w[k]] > d}
<1>4. 0 \in T
  <2> SUFFICES ASSUME NEW k \in 0..N, k = N PROVE parents[w[k]] # w[k] /\ pos[w[k]] > 0
    OBVIOUS
  <2>1. w[k] \in Connected /\ parents[w[k]] # w[k]
    BY <1>3
  <2> QED
    BY <1>2, <2>1
<1>5. ASSUME NEW d \in Nat, d \in T PROVE d + 1 \in T
  <2> SUFFICES ASSUME NEW k \in 0..N, k + (d + 1) = N
               PROVE  parents[w[k]] # w[k] /\ pos[w[k]] > d + 1
    OBVIOUS
  <2>1. ASSUME NEW h \in 1..N, h - 1 = k PROVE w[h] = parents[w[k]]
    BY <1>3, <2>1
  <2> DEFINE h == k + 1
  <2>2. h \in 1..N /\ h - 1 = k /\ h \in 0..N /\ h + d = N
    BY <1>1
  <2> HIDE DEF h
  <2>3. w[h] = parents[w[k]] /\ w[k] \in Connected
    BY <2>1, <2>2
  <2>4. parents[w[h]] # w[h] /\ pos[w[h]] > d
    BY <1>5, <2>2
  <2>5. parents[w[k]] # w[k]
    BY <2>3, <2>4
  <2>6. pos[w[h]] \in Nat /\ pos[w[k]] = pos[w[h]] + 1
    BY <1>2, <2>3, <2>5
  <2> QED
    BY <2>4, <2>5, <2>6
<1>6. \A d \in Nat : d \in T
  <2> HIDE DEF T
  <2> QED
    BY <1>4, <1>5, NumberInduction
<1>7. N \in T
  BY <1>1, <1>6
<1>8. 0 \in 0..N /\ 0 + N = N
  BY <1>1
<1>9. parents[w[0]] # w[0] /\ pos[w[0]] > N
  BY <1>7, <1>8
<1>10. w[0] \in Connected
  BY <1>8
<1>11. pos[w[0]] \in 1..N
  BY <1>2, <1>9, <1>10
<1> QED
  BY <1>1, <1>9, <1>11

(* A valid order keeps the chain of a node together.                       *)
LEMMA ChainsKeptTogether ==
    ASSUME RelationsFromEdges, ChainsFromPlaces, NEW s, NEW pos, Ordering(s, pos), NEW n \in nodes
    PROVE  \A i \in 1..Len(chain[n]) : pos[chain[n][i]] = pos[chain[n][1]] + (i - 1)
<1>1. chain[n] \in Seq(Phase) /\ Len(chain[n]) \in Nat
  BY DEF ChainsFromPlaces
<1> DEFINE c == chain[n]
           L == Len(chain[n])
           T == {d \in Nat : d + 1 <= L => pos[c[d + 1]] = pos[c[1]] + d}
<1>2. ASSUME NEW i \in 1..L PROVE c[i] \in Phase /\ pos[c[i]] \in Nat
  <2>1. c[i] \in Phase
    BY <1>1
  <2> QED
    BY <2>1, NAssumption DEF Ordering, Positions
<1>3. 0 \in T
  <2>1. 1 <= L => pos[c[1]] \in Nat
    BY <1>1, <1>2
  <2> QED
    BY <2>1
<1>4. ASSUME NEW d \in Nat, d \in T PROVE d + 1 \in T
  <2> SUFFICES ASSUME d + 1 + 1 <= L PROVE pos[c[d + 1 + 1]] = pos[c[1]] + (d + 1)
    OBVIOUS
  <2> DEFINE i == d + 1
             j == d + 1 + 1
  <2>1. i \in 1..L /\ j \in 1..L /\ j = i + 1 /\ 1 \in 1..L
    BY <1>1
  <2>2. pos[c[i]] = pos[c[1]] + d
    BY <1>4, <2>1
  <2> HIDE DEF i, j
  <2>3. c[i] \in DOMAIN rels /\ rels[c[i]] = c[j]
    BY <2>1 DEF ChainsFromPlaces
  <2>4. PICK e \in HardEdges : e.from = c[i] /\ e.to = c[j]
    BY <2>3 DEF RelationsFromEdges
  <2>5. e \in phaseEdges
    BY DEF HardEdges
  <2>6. pos[c[j]] = pos[c[i]] + 1
    BY <2>4, <2>5, EdgesHold DEF Ordering
  <2>7. pos[c[1]] \in Nat
    BY <1>2, <2>1
  <2>8. pos[c[j]] = pos[c[1]] + (d + 1)
    BY <2>2, <2>6, <2>7
  <2> QED
    BY <2>8 DEF j
<1>5. \A d \in Nat : d \in T
  <2> HIDE DEF T
  <2> QED
    BY <1>3, <1>4, NumberInduction
<1> SUFFICES ASSUME NEW i \in 1..L PROVE pos[c[i]] = pos[c[1]] + (i - 1)
  OBVIOUS
<1>6. i - 1 \in Nat /\ i - 1 + 1 = i /\ i <= L
  BY <1>1
<1>7. i - 1 \in T
  BY <1>5, <1>6
<1> QED
  BY <1>6, <1>7

(* So it puts the whole of a node before the nodes its edges must precede. *)
LEMMA NodesInOrder ==
    ASSUME RelationsFromEdges, PlacesFromParents, ChainsFromPlaces, NEW s, NEW pos, Ordering(s, pos),
           NEW m \in nodes, NEW n \in edges[m]
    PROVE  /\ pos[chain[n][1]] \in Nat /\ pos[chain[m][1]] \in Nat
           /\ pos[chain[n][1]] < pos[chain[m][1]]
<1>1. n \in nodes
  BY DEF Ordering, TypeOK
<1>2. PICK e \in SoftEdges : InNode(e.from, n) /\ InNode(e.to, m)
  BY DEF ChainsFromPlaces
<1>3. e \in phaseEdges /\ e.from \in Connected /\ e.to \in Connected
  BY DEF SoftEdges, Connected
<1>4. pos[e.from] < pos[e.to]
  BY <1>3, EdgesHold DEF Ordering
<1>5. n # m
  <2> SUFFICES ASSUME n = m PROVE FALSE
    OBVIOUS
  <2>1. place[e.from].top = place[e.to].top
    BY <1>2, <1>3 DEF ChainsFromPlaces
  <2>2. DOMAIN place # {} /\ DOMAIN NoGraph = {}
    BY <1>3 DEF PlacesFromParents, NoGraph
  <2> QED
    BY <2>1, <2>2 DEF Ordering, LinkInChain
<1> DEFINE C == chain[n]
           D == chain[m]
           a == pos[C[1]]
           b == pos[D[1]]
<1>6. C \in Seq(Phase) /\ D \in Seq(Phase) /\ Len(C) \in Nat /\ Len(D) \in Nat
  BY <1>1 DEF ChainsFromPlaces
<1>7. PICK i \in 1..Len(C) : C[i] = e.from
  BY <1>2 DEF InNode
<1>8. PICK j \in 1..Len(D) : D[j] = e.to
  BY <1>2 DEF InNode
<1>9. /\ \A k \in 1..Len(C) : pos[C[k]] = a + (k - 1)
      /\ \A k \in 1..Len(D) : pos[D[k]] = b + (k - 1)
  BY <1>1, ChainsKeptTogether
<1>10. 1 \in 1..Len(C) /\ 1 \in 1..Len(D)
  BY <1>6, <1>7, <1>8
<1>11. C[1] \in Phase /\ D[1] \in Phase
  BY <1>6, <1>10
<1>12. a \in Nat /\ b \in Nat
  BY <1>11, NAssumption DEF Ordering, Positions
<1>13. a + (i - 1) < b + (j - 1)
  BY <1>4, <1>7, <1>8, <1>9
<1>14. a < b
  <2> HIDE DEF a, b
  <2> SUFFICES ASSUME b <= a PROVE FALSE
    BY <1>12
  <2> DEFINE k == (a - b) + 1
  <2>1. k \in 1..Len(D) /\ k - 1 = a - b
    BY <1>6, <1>12, <1>13
  <2> HIDE DEF k
  <2>2. pos[D[k]] = b + (a - b)
    BY <1>9, <2>1
  <2>3. pos[D[k]] = pos[C[1]]
    BY <1>12, <2>2 DEF a
  <2>4. D[k] \in Phase
    BY <1>6, <2>1
  <2>5. D[k] = C[1]
    BY <1>11, <2>3, <2>4 DEF Ordering, Positions
  <2>6. m = n
    BY <1>1, <1>10, <2>1, <2>5 DEF ChainsFromPlaces
  <2> QED
    BY <1>5, <2>6
<1> QED
  BY <1>12, <1>14

\* A graph of merged phases with a cycle has no valid order.
LEMMA NoOrderOfCycle ==
    ASSUME RelationsFromEdges, PlacesFromParents, ChainsFromPlaces, NEW s, NEW pos, Ordering(s, pos),
           NEW n \in Nat \ {0}, NEW c \in [1..n -> nodes],
           \A i \in 1..(n - 1) : c[i + 1] \in edges[c[i]], c[1] \in edges[c[n]]
    PROVE  FALSE
<1> DEFINE First(i) == pos[chain[c[i]][1]]
           T == {d \in Nat : d + 1 <= n => First(d + 1) <= First(1)}
<1>1. ASSUME NEW i \in 1..(n - 1)
      PROVE  First(i + 1) \in Nat /\ First(i) \in Nat /\ First(i + 1) < First(i)
  <2>1. c[i] \in nodes /\ c[i + 1] \in edges[c[i]]
    OBVIOUS
  <2> QED
    BY <2>1, NodesInOrder
<1>2. First(1) \in Nat /\ First(n) \in Nat /\ First(1) < First(n)
  <2>1. c[n] \in nodes
    OBVIOUS
  <2> QED
    BY <2>1, NodesInOrder
<1> HIDE DEF First
<1>3. 0 \in T
  BY <1>2
<1>4. ASSUME NEW d \in Nat, d \in T PROVE d + 1 \in T
  <2> SUFFICES ASSUME d + 1 + 1 <= n PROVE First(d + 1 + 1) <= First(1)
    OBVIOUS
  <2>1. d + 1 \in 1..(n - 1) /\ d + 1 <= n
    OBVIOUS
  <2>2. First(d + 1 + 1) \in Nat /\ First(d + 1) \in Nat /\ First(d + 1 + 1) < First(d + 1)
    BY <1>1, <2>1
  <2>3. First(d + 1) <= First(1)
    BY <1>4, <2>1
  <2> QED
    BY <1>2, <2>2, <2>3
<1>5. \A d \in Nat : d \in T
  <2> HIDE DEF T
  <2> QED
    BY <1>3, <1>4, NumberInduction
<1>6. n - 1 \in Nat /\ n - 1 + 1 = n
  OBVIOUS
<1>7. n - 1 \in T
  BY <1>5, <1>6
<1>8. First(n) <= First(1)
  BY <1>6, <1>7
<1> QED
  BY <1>2, <1>8

(* For every pipeline of every size: sortPhases gives up only where no     *)
(* order of the phases is valid, unless the declarations say one thing     *)
(* twice, a soft link stays within one chain, or the edges point into      *)
(* freed storage.                                                          *)
THEOREM RejectedIsImpossible == Spec => []RejectsOnlyImpossible
<1>1. SortedProperly => RejectsOnlyImpossible
  <2> SUFFICES ASSUME SortedProperly, Rejected, ~ moved, ~ Redundant, ~ LinkInChain, NEW s \in ValidOrders(decl)
               PROVE  FALSE
    BY DEF RejectsOnlyImpossible
  <2>1. TypeOK /\ GraphInvariant /\ PassesInvariant
    BY DEF SortedProperly
  <2>2. PICK pos : ValidOrder(decl, s) /\ Positions(s, pos)
    BY <2>1, PositionsExist
  <2>3. CASE status = "duplicateName"
    BY <2>1, <2>3 DEF PassesInvariant, Redundant
  <2>4. CASE status = "unknownName"
    <3>1. UnknownName
      BY <2>1, <2>4 DEF PassesInvariant
    <3> QED
      BY <2>1, <2>2, <3>1, NoOrderOfUnknown
  <2>5. status \notin NamesRefused => Ordering(s, pos)
    BY <2>1, <2>2 DEF PassesInvariant, Ordering
  <2>6. CASE status = "severalHard"
    <3>1. SeveralHard /\ Ordering(s, pos)
      BY <2>1, <2>5, <2>6 DEF PassesInvariant, NamesRefused
    <3> QED
      BY <3>1, NoOrderOfSeveralHard
  <2>7. CASE status = "hardCycle"
    <3>1. ParentsOnACycle /\ ParentsFromRelations /\ RelationsFromEdges /\ Ordering(s, pos)
      BY <2>1, <2>5, <2>7 DEF PassesInvariant, NamesRefused, HardRefused
    <3> QED
      BY <3>1, NoOrderOfHardCycle
  <2>8. CASE status = "cyclic"
    <3>1. /\ RelationsFromEdges /\ PlacesFromParents /\ ChainsFromPlaces /\ Ordering(s, pos)
      BY <2>1, <2>5, <2>8 DEF PassesInvariant, NamesRefused, HardRefused
    <3>2. CyclicOnlyWithCycle
      BY <2>1, <2>8, SortInvariantSuffices DEF GraphInvariant
    <3>3. PICK k \in 1..Len(stack) : IsCycle(PathFrom(k))
      BY <2>8, <3>2 DEF CyclicOnlyWithCycle
    <3>4. Len(stack) \in Nat /\ \A i \in 1..Len(stack) : stack[i].node \in nodes
      <4> DEFINE Frame == [node : nodes, todo : SUBSET nodes]
      <4>1. stack \in Seq(Frame)
        BY <2>1 DEF TypeOK
      <4>2. \A f \in Frame : f.node \in nodes
        OBVIOUS
      <4> HIDE DEF Frame
      <4> QED
        BY <4>1, <4>2
    <3> DEFINE n == Len(stack) - k + 1
               c == PathFrom(k)
    <3>5. n \in Nat \ {0}
      BY <3>4
    <3>6. c \in [1..n -> nodes]
      <4>1. \A i \in 1..n : k + i - 1 \in 1..Len(stack)
        BY <3>4
      <4> QED
        BY <3>4, <4>1 DEF PathFrom
    <3>7. Len(c) = n
      BY <3>5 DEF PathFrom
    <3>8. (\A i \in 1..(n - 1) : c[i + 1] \in edges[c[i]]) /\ c[1] \in edges[c[n]]
      BY <3>3, <3>7 DEF IsCycle
    <3> HIDE DEF c, n
    <3> QED
      BY <3>1, <3>5, <3>6, <3>8, NoOrderOfCycle
  <2> QED
    BY <2>3, <2>4, <2>6, <2>7, <2>8 DEF Rejected
<1> QED
  BY <1>1, InitProper, NextProper, PTL DEF Spec
=============================================================================
