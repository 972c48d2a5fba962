--------------------------- MODULE TopologicalSort ---------------------------
(***************************************************************************)
(* The depth-first topological sort of src/Interface/PhaseGraph.cpp        *)
(* (topologicalSortDFSvisit and topologicalSort), one action per step of   *)
(* the recursion.  The C++ call stack is the sequence "stack": a frame is  *)
(* a node being visited together with the neighbours its loop has not      *)
(* reached yet.                                                            *)
(*                                                                         *)
(* A node's edges lead to the nodes that must come BEFORE it.  The nodes   *)
(* are numbered as they lie in the vector the outer loop walks; the order  *)
(* of a node's edges, which in the code depends on the addresses of the    *)
(* phases, is any order here.                                              *)
(***************************************************************************)
EXTENDS Naturals, Sequences

CONSTANT Node            \* the phase nodes that may exist

ASSUME SortNodeAssumption == Node \subseteq Nat

VARIABLES
    nodes,    \* the nodes of the graph being sorted
    edges,    \* edges[n]: the nodes that must be sorted before n
    moved,    \* the edges point into storage that was freed (see PhaseGraph)
    mark,     \* mark[n]: the DFS mark of node n
    stack,    \* frames [node, todo], the innermost call last
    ordered,  \* the nodes already appended to the result
    status    \* how far sortPhases has come

sortVars == <<nodes, edges, moved, mark, stack, ordered, status>>

Mark == {"unmarked", "temporary", "permanent"}

----------------------------------------------------------------------------
(* The state in which topologicalSort is entered. *)

SortStart ==
    /\ nodes \subseteq Node
    /\ edges \in [nodes -> SUBSET nodes]
    /\ mark = [n \in nodes |-> "unmarked"]
    /\ stack = << >>
    /\ ordered = << >>
    /\ status = "visiting"

Top == stack[Len(stack)]
Pop == SubSeq(stack, 1, Len(stack) - 1)

\* The loop of the innermost call moves past neighbour m.
TopStill(m) == Top  \* mutant: the loop does not move on
TopWithout(m) == [Top EXCEPT !.todo = @ \ {m}]

----------------------------------------------------------------------------
(* for (PhaseNode& node : nodes) if (node.isUnmarked()) ...visit(&node) *)
VisitRoot(n) ==
    /\ status = "visiting"
    /\ stack = << >>
    /\ mark[n] = "unmarked"
    /\ \A k \in nodes : k < n => mark[k] # "unmarked"
    /\ mark' = [mark EXCEPT ![n] = "temporary"]
    /\ stack' = <<[node |-> n, todo |-> edges[n]]>>
    /\ UNCHANGED <<nodes, edges, moved, ordered, status>>

(* The recursive call on a neighbour: an unmarked one is entered, a        *)
(* permanently marked one returns at once.                                 *)
VisitNeighbor(m) ==
    /\ status = "visiting"
    /\ stack # << >>
    /\ m \in Top.todo
    /\ ~ moved
    /\ mark[m] # "temporary"
    /\ IF mark[m] = "unmarked"
       THEN /\ mark' = [mark EXCEPT ![m] = "temporary"]
            /\ stack' = Append(Append(Pop, TopWithout(m)),
                               [node |-> m, todo |-> edges[m]])
       ELSE /\ stack' = Append(Pop, TopWithout(m))
            /\ mark' = mark
    /\ UNCHANGED <<nodes, edges, moved, ordered, status>>

(* A neighbour that is still being visited: PhaseGraphResolutionError.     *)
FoundCycleOnAnyMark(m) ==  \* mutant: every marked neighbour is a cycle
    /\ status = "visiting"
    /\ stack # << >>
    /\ m \in Top.todo
    /\ ~ moved
    /\ mark[m] # "unmarked"
    /\ status' = "cyclic"
    /\ UNCHANGED <<nodes, edges, moved, mark, stack, ordered>>

FoundCycle(m) ==
    /\ status = "visiting"
    /\ stack # << >>
    /\ m \in Top.todo
    /\ ~ moved
    /\ mark[m] = "temporary"
    /\ status' = "cyclic"
    /\ UNCHANGED <<nodes, edges, moved, mark, stack, ordered>>

(* The neighbour pointer leads into freed storage.  What the read of its   *)
(* mark returns is not defined: the call may return at once, raise the     *)
(* cycle error, append the phases of the stale copy, or crash.             *)
VisitStale(m) ==
    /\ status = "visiting"
    /\ stack # << >>
    /\ m \in Top.todo
    /\ moved
    /\ \/ /\ stack' = Append(Pop, TopWithout(m))
          /\ ordered' \in {ordered, Append(ordered, m)}
          /\ status' = status
       \/ /\ status' \in {"cyclic", "crashed"}
          /\ UNCHANGED <<stack, ordered>>
    /\ UNCHANGED <<nodes, edges, moved, mark>>

(* The loop is over: mark permanently, append the node, return.            *)
FinishFirst ==  \* mutant: the node is appended before its neighbours
    /\ status = "visiting"
    /\ stack # << >>
    /\ mark' = [mark EXCEPT ![Top.node] = "permanent"]
    /\ ordered' = Append(ordered, Top.node)
    /\ stack' = Pop
    /\ UNCHANGED <<nodes, edges, moved, status>>

Finish ==
    /\ status = "visiting"
    /\ stack # << >>
    /\ Top.todo = {}
    /\ mark' = [mark EXCEPT ![Top.node] = "permanent"]
    /\ ordered' = Append(ordered, Top.node)
    /\ stack' = Pop
    /\ UNCHANGED <<nodes, edges, moved, status>>

(* Every root was looked at: topologicalSort returns.                      *)
Sorted ==
    /\ status = "visiting"
    /\ stack = << >>
    /\ \A n \in nodes : mark[n] # "unmarked"
    /\ status' = "sorted"
    /\ UNCHANGED <<nodes, edges, moved, mark, stack, ordered>>

SortStep ==
    \/ \E n \in nodes : VisitRoot(n) \/ VisitNeighbor(n) \/ FoundCycle(n) \/ VisitStale(n)
    \/ Finish
    \/ Sorted

SortSpec == SortStart /\ moved = FALSE /\ [][SortStep]_sortVars

----------------------------------------------------------------------------
(* What a topological sort is, said without the algorithm.                 *)

Elements(s) == {s[i] : i \in 1..Len(s)}

\* s holds exactly the nodes of S, each of them once.
Enumerates(s, S) ==
    /\ Elements(s) = S
    /\ \A i, j \in 1..Len(s) : s[i] = s[j] => i = j

\* Every node of s comes after all the nodes its edges lead to.
RespectsEdges(s) ==
    \A i \in 1..Len(s) : \A m \in edges[s[i]] :
        \E j \in 1..Len(s) : j < i /\ s[j] = m

\* c walks along the edges of the graph and closes.
IsCycle(c) ==
    /\ c # << >>
    /\ \A i \in 1..(Len(c) - 1) : c[i + 1] \in edges[c[i]]
    /\ c[1] \in edges[c[Len(c)]]

(* The order handed to the compiler is a topological order of the graph:   *)
(* all the nodes, each once, each after everything it depends on.  The     *)
(* marks are what the code relies on to get there.                         *)
SortedIsTopological ==
    status = "sorted" /\ ~ moved => Enumerates(ordered, nodes) /\ RespectsEdges(ordered)

(* The calls on the stack, from the first one on the node met again up to  *)
(* the innermost one, are the cycle the error message talks about: the     *)
(* sort never rejects a graph that has a topological order.                *)
PathFrom(k) == [i \in 1..(Len(stack) - k + 1) |-> stack[k + i - 1].node]
CyclicOnlyWithCycle ==
    status = "cyclic" /\ ~ moved => \E k \in 1..Len(stack) : IsCycle(PathFrom(k))

----------------------------------------------------------------------------
(* Why it works: what the marks, the stack and the result have to do with  *)
(* each other between two steps.                                           *)

SortTyped ==
    /\ edges \in [nodes -> SUBSET nodes]
    /\ mark \in [nodes -> Mark]
    /\ stack \in Seq([node : nodes, todo : SUBSET nodes])
    /\ ordered \in Seq(nodes)

\* The temporary marks are on the stack, each node once, along the edges.
StackIsPath ==
    /\ \A n \in nodes : mark[n] = "temporary" <=> \E k \in 1..Len(stack) : stack[k].node = n
    /\ \A k, l \in 1..Len(stack) : stack[k].node = stack[l].node => k = l
    /\ \A k \in 1..(Len(stack) - 1) : stack[k + 1].node \in edges[stack[k].node]
    /\ \A k \in 1..Len(stack) : stack[k].todo \subseteq edges[stack[k].node]

\* A neighbour a loop has passed is in the result, or is the call it waits for.
PassedAreDone ==
    \A k \in 1..Len(stack) : \A m \in edges[stack[k].node] \ stack[k].todo :
        \/ mark[m] = "permanent"
        \/ k < Len(stack) /\ m = stack[k + 1].node

\* The permanent marks are on the result, which is in order so far.
ResultSoFar ==
    /\ \A n \in nodes : mark[n] = "permanent" <=> \E i \in 1..Len(ordered) : ordered[i] = n
    /\ \A i, j \in 1..Len(ordered) : ordered[i] = ordered[j] => i = j
    /\ RespectsEdges(ordered)

SortInv ==
    /\ SortTyped
    /\ StackIsPath
    /\ PassedAreDone
    /\ ResultSoFar
    /\ status = "sorted" => \A n \in nodes : mark[n] = "permanent"
    /\ CyclicOnlyWithCycle

SortInvariant == moved \/ SortInv
=============================================================================
