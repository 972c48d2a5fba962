------------------------------ MODULE PhaseGraph ------------------------------
(***************************************************************************)
(* sortPhases of src/Interface/PhaseGraph.cpp: the declarations of the     *)
(* phases become edges, phases tied by hard edges are merged into one      *)
(* node, and the nodes are sorted topologically (TopologicalSort).         *)
(*                                                                         *)
(* The nodes of the vector "uniqs" are numbered so that the vector is      *)
(* walked in ascending order: a node made of connected phases has the      *)
(* number of its first phase, the node of an unconnected phase p is N + p. *)
(***************************************************************************)
EXTENDS PhaseOrder, TopologicalSort, SequencesExt

CONSTANTS
    N,               \* how many phases are in the pipeline
    Declarations     \* the declarations a pipeline may come with

ASSUME NAssumption == N \in Nat
ASSUME NodeAssumption == Node = 1..(2 * N)

(* The phases in the order of their addresses, which is the order in which *)
(* std::set<std::shared_ptr<Phase>> is iterated: an arbitrary numbering of *)
(* the phases stands for an arbitrary placement in memory.                 *)
Phase == 1..N

ASSUME DeclarationsAssumption ==
    \A d \in Declarations : DOMAIN d = Phase /\ IsDeclaration(d)

VARIABLES
    decl,        \* what the phases of the pipeline declare
    phaseEdges,  \* createEdges: the edges between phases
    rels,        \* findStrongRelations: the hard edges, as a function
    parents,     \* parents[p]: the phase p must run right after (or p)
    place,       \* place[p]: the outermost parent of p, and how deep p lies
    chain        \* chain[n]: the phases of node n, in execution order

vars == <<decl, phaseEdges, rels, parents, place, chain, sortVars>>

NoGraph == << >>

Init ==
    /\ decl \in Declarations
    /\ phaseEdges = {}
    /\ rels = NoGraph
    /\ parents = NoGraph
    /\ place = NoGraph
    /\ chain = NoGraph
    /\ nodes = {}
    /\ edges = NoGraph
    /\ moved = FALSE
    /\ mark = NoGraph
    /\ stack = << >>
    /\ ordered = << >>
    /\ status = "declared"

----------------------------------------------------------------------------
(* createEdges *)

DuplicateName == \E p, q \in Phase : p # q /\ decl[p].name = decl[q].name
UnknownName == \E p \in Phase : \E l \in decl[p].links :
                  \A q \in Phase : decl[q].name # l.name

phaseForName(nm) == CHOOSE p \in Phase : decl[p].name = nm

\* An edge leads from the phase that runs first; its kind tells which side
\* declared it, and so whether it is hard.
EdgeOfAfterOnly(p, l) ==  \* mutant: "before" treated like "after"
    IF l.kind \in {"rightAfter", "after", "before"}
    THEN [from |-> phaseForName(l.name), to |-> p, kind |-> l.kind]
    ELSE [from |-> p, to |-> phaseForName(l.name), kind |-> l.kind]

EdgeOf(p, l) ==
    IF l.kind \in {"rightAfter", "after"}
    THEN [from |-> phaseForName(l.name), to |-> p, kind |-> l.kind]
    ELSE [from |-> p, to |-> phaseForName(l.name), kind |-> l.kind]

CreateEdges ==
    /\ status = "declared"
    /\ IF DuplicateName \/ UnknownName
       THEN /\ status' = IF DuplicateName THEN "duplicateName" ELSE "unknownName"
            /\ UNCHANGED phaseEdges
       ELSE /\ status' = "edged"
            /\ phaseEdges' = UNION {{EdgeOf(p, l) : l \in decl[p].links} : p \in Phase}
    /\ UNCHANGED <<decl, rels, parents, place, chain, nodes, edges, moved, mark, stack, ordered>>

----------------------------------------------------------------------------
(* findStrongRelations: a map keyed by the phase that runs first. *)

HardEdges == {e \in phaseEdges : e.kind \in HardKind}
SoftEdges == {e \in phaseEdges : e.kind \in SoftKind}

SeveralHard == \E e, f \in HardEdges : e # f /\ e.from = f.from

FindStrongRelations ==
    /\ status = "edged"
    /\ IF SeveralHard
       THEN status' = "severalHard" /\ UNCHANGED rels
       ELSE /\ status' = "related"
            /\ rels' = [p \in {e.from : e \in HardEdges} |->
                          (CHOOSE e \in HardEdges : e.from = p).to]
    /\ UNCHANGED <<decl, phaseEdges, parents, place, chain, nodes, edges, moved, mark, stack, ordered>>

----------------------------------------------------------------------------
(* createUniqueNodes, in the three passes it makes *)

Connected == UNION {{e.from, e.to} : e \in phaseEdges}

\* parents[rel.second] = rel.first: the last relation in map order stays.
LinkParents ==
    /\ status = "related"
    /\ status' = "linked"
    /\ parents' = [p \in Connected |->
                     LET before == {q \in DOMAIN rels : rels[q] = p}
                     IN  IF before = {} THEN p ELSE Max(before)]
    /\ UNCHANGED <<decl, phaseEdges, rels, place, chain, nodes, edges, moved, mark, stack, ordered>>

\* find: ancestor[k][p] is k parents above p; N parents above every phase
\* there is one that is its own parent, unless the parents form a cycle.
ancestor[k \in 0..N] ==
    [p \in Connected |-> IF k = 0 THEN p ELSE parents[ancestor[k - 1][p]]]
Outermost(p) == ancestor[N][p]

FindParents ==
    /\ status = "linked"
    /\ place' = [p \in Connected |->
                   [top   |-> Outermost(p),
                    depth |-> Cardinality({ancestor[k][p] : k \in 0..N}) - 1]]
    /\ status' = IF \E p \in Connected : parents[Outermost(p)] # Outermost(p)
                 THEN "hardCycle" ELSE "merged"
    /\ UNCHANGED <<decl, phaseEdges, rels, parents, chain, nodes, edges, moved, mark, stack, ordered>>

\* The phases merged with p, and the node they are merged into.
Merged(p) == {q \in Connected : place[q].top = place[p].top}
NodeOf(p) == Min(Merged(p))
ChainOfBackwards(p) ==  \* mutant: a chain assembled from its far end
    [i \in 1..Cardinality(Merged(p)) |->
        CHOOSE q \in Merged(p) : place[q].depth = Cardinality(Merged(p)) - i]
ChainOf(p) == [i \in 1..Cardinality(Merged(p)) |-> CHOOSE q \in Merged(p) : place[q].depth = i - 1]

MergedNodesByTop ==  \* mutant: nodes kept under the outermost parent
    {place[p].top : p \in Connected}
MergedNodes == {NodeOf(p) : p \in Connected}
LoneNodes == {N + p : p \in Phase \ Connected}

(* The soft edges are stored as addresses of elements of the vector        *)
(* "uniqs"; the unconnected phases are pushed afterwards.  The vector      *)
(* doubles its storage when it is full, which leaves the addresses         *)
(* pointing into freed memory.                                             *)
Capacity(k) == CHOOSE c \in {2^i : i \in 0..k} : c >= k /\ c < 2 * k
Reallocates ==
    Cardinality(MergedNodes) + Cardinality(LoneNodes) > Capacity(Cardinality(MergedNodes))

CreateUniqueNodes ==
    /\ status = "merged"
    /\ status' = "visiting"
    /\ nodes' = MergedNodes \cup LoneNodes
    /\ chain' = [n \in nodes' |-> IF n \in MergedNodes THEN ChainOf(n) ELSE <<n - N>>]
    /\ edges' = [n \in nodes' |->
                   {NodeOf(e.from) : e \in {f \in SoftEdges : NodeOf(f.to) = n}}]
    /\ moved' = (SoftEdges # {} /\ Reallocates)
    /\ mark' = [n \in nodes' |-> "unmarked"]
    /\ UNCHANGED <<decl, phaseEdges, rels, parents, place, stack, ordered>>

----------------------------------------------------------------------------
Sort == SortStep /\ UNCHANGED <<decl, phaseEdges, rels, parents, place, chain>>

Rejected == status \in {"duplicateName", "unknownName", "severalHard", "hardCycle", "cyclic"}
Ended == Rejected \/ status \in {"sorted", "crashed"}

\* sortPhases has returned or thrown (or crashed): nothing more happens.
Terminated == Ended /\ UNCHANGED vars

Next ==
    \/ CreateEdges
    \/ FindStrongRelations
    \/ LinkParents
    \/ FindParents
    \/ CreateUniqueNodes
    \/ Sort
    \/ Terminated

Spec == Init /\ [][Next]_vars

\* sortPhases is one call on one thread: it runs on until it ends.
FairSpec == Spec /\ WF_vars(Next)

\* The result of sortPhases.
sortedPhases == FlattenSeq([i \in 1..Len(ordered) |-> chain[ordered[i]]])

----------------------------------------------------------------------------
(* Properties *)

(* Type correctness of the whole function. *)
TypeOK ==
    /\ DOMAIN decl = Phase /\ IsDeclaration(decl)
    /\ phaseEdges \subseteq [from : Phase, to : Phase, kind : HardKind \cup SoftKind]
    /\ DOMAIN rels \subseteq Phase
    /\ DOMAIN parents \subseteq Phase
    /\ nodes \subseteq Node
    /\ edges \in [nodes -> SUBSET nodes]
    /\ moved \in BOOLEAN
    /\ mark \in [nodes -> Mark]
    /\ stack \in Seq([node : nodes, todo : SUBSET nodes])
    /\ ordered \in Seq(nodes)
    /\ status \in {"declared", "edged", "related", "linked", "merged", "visiting", "sorted", "crashed",
                   "duplicateName", "unknownName", "severalHard", "hardCycle", "cyclic"}

\* Two phases must run right before the same one, or one right before itself:
\* findStrongRelations compares only where the hard edges start.
AmbiguousHard ==
    \E e, f \in HardEdges : (e # f /\ e.to = f.to) \/ e.from = e.to

\* The declarations say one thing twice: two phases have one name, or both
\* ends declare a hard link.
Redundant ==
    \/ DuplicateName
    \/ \E e, f \in HardEdges : e # f /\ e.from = f.from /\ e.to = f.to

\* A soft link joins two phases of one chain: createUniqueNodes makes it an
\* edge from the node of the chain to itself.
LinkInChain == place # NoGraph /\ \E e \in SoftEdges : place[e.from].top = place[e.to].top

(* An order that sortPhases returns is one in which every phase finds what *)
(* it declared: the merged chains stay together, in the right order, and   *)
(* on the right side of everything any of their phases is linked to.  Hard *)
(* links that compete for one place (MCPhaseGraphHard.cfg shows what comes *)
(* of them) and edges left pointing into freed storage                     *)
(* (MCPhaseGraphMoved.cfg) are excluded.                                   *)
OrderIsValid ==
    status = "sorted" /\ ~ moved /\ ~ AmbiguousHard => ValidOrder(decl, sortedPhases)

(* The same for every pipeline, as checkExecutionOrder of                  *)
(* tests/PhaseGraphTests.cpp asks of sortPhases.                           *)
ExecutionOrder ==
    /\ status # "crashed"
    /\ status = "sorted" => ValidOrder(decl, sortedPhases)

(* sortPhases gives up only on pipelines that cannot be ordered, whichever *)
(* way the addresses fall: merging chains makes no acyclic pipeline cyclic *)
(* as long as no soft link stays within one chain.  One that does is       *)
(* refused although an order exists, which MCPhaseGraphChain.cfg shows:    *)
(* CyclicIsImpossible fails.                                               *)
RejectsOnlyImpossible ==
    Rejected /\ ~ moved /\ ~ Redundant /\ ~ LinkInChain => ValidOrders(decl) = {}

(* Where topologicalSortDFSvisit says "A cyclic dependency was found"      *)
(* (PhaseGraph.cpp:246), what the phases ask for is cyclic: no order of    *)
(* them is valid.                                                          *)
CyclicIsImpossible ==
    status = "cyclic" /\ ~ moved => ValidOrders(decl) = {}

\* What the theorems of PhaseGraph_proofs rest on: those on the sort need what
\* marks, stack and result have to do with each other.
GraphInvariant ==
    /\ status \in {"declared", "edged", "related", "linked", "merged",
                  "duplicateName", "unknownName", "severalHard", "hardCycle"}
          => stack = << >> /\ ordered = << >>
    /\ status \in {"visiting", "sorted", "cyclic", "crashed"} => SortInvariant

(* OrderIsValid and RejectsOnlyImpossible rest on more: on what each pass  *)
(* makes of the one before it, which nothing changes afterwards.           *)

\* What p declares of q when its link l has the name of q.
Edge(p, l, q) == IF l.kind \in {"rightAfter", "after"}
                 THEN [from |-> q, to |-> p, kind |-> l.kind]
                 ELSE [from |-> p, to |-> q, kind |-> l.kind]

EdgesFromLinks ==
    /\ \A p, q \in Phase : decl[p].name = decl[q].name => p = q
    /\ \A p \in Phase : \A l \in decl[p].links : \E q \in Phase :
          decl[q].name = l.name /\ Edge(p, l, q) \in phaseEdges
    /\ \A e \in phaseEdges : \E p, q \in Phase : \E l \in decl[p].links :
          decl[q].name = l.name /\ e = Edge(p, l, q)

RelationsFromEdges ==
    /\ rels \in [{e.from : e \in HardEdges} -> Connected]
    /\ \A e \in HardEdges : rels[e.from] = e.to

ParentsFromRelations ==
    /\ parents \in [Connected -> Connected]
    /\ \A p \in Connected :
          IF \E q \in DOMAIN rels : rels[q] = p
          THEN parents[p] \in DOMAIN rels /\ rels[parents[p]] = p
          ELSE parents[p] = p

PlacesFromParents ==
    /\ place \in [Connected -> [top : Connected, depth : Nat]]
    /\ \A p \in Connected :
          IF parents[p] = p THEN place[p].top = p /\ place[p].depth = 0
          ELSE /\ place[p].top = place[parents[p]].top
               /\ place[p].depth = place[parents[p]].depth + 1

\* One can go from parent to parent N times without coming to an end.
ParentsOnACycle ==
    \E w \in [0..N -> Connected] :
        /\ \A k \in 1..N : w[k] = parents[w[k - 1]]
        /\ parents[w[N]] # w[N]

\* Phase p is in the chain of node n.
InNode(p, n) == \E i \in 1..Len(chain[n]) : chain[n][i] = p

\* The chains hold each phase once; chains and node edges say what the
\* relations and the soft edges say of the phases.
ChainsFromPlaces ==
    /\ \A n \in nodes : chain[n] \in Seq(Phase)
    /\ \A p \in Phase : \E n \in nodes : InNode(p, n)
    /\ \A n, m \in nodes : \A i \in 1..Len(chain[n]), j \in 1..Len(chain[m]) :
          chain[n][i] = chain[m][j] => n = m /\ i = j
    /\ \A n \in nodes : \A i, j \in 1..Len(chain[n]) :
          j = i + 1 => chain[n][i] \in DOMAIN rels /\ rels[chain[n][i]] = chain[n][j]
    /\ \A p \in Connected : parents[p] # p =>
          \E n \in nodes : \E i, j \in 1..Len(chain[n]) :
             j = i + 1 /\ chain[n][i] = parents[p] /\ chain[n][j] = p
    /\ \A n \in nodes : \A p, q \in Connected :
          InNode(p, n) /\ InNode(q, n) => place[p].top = place[q].top
    /\ \A e \in SoftEdges : \E n, m \in nodes :
          InNode(e.from, n) /\ InNode(e.to, m) /\ n \in edges[m]
    /\ \A m \in nodes : \A n \in edges[m] : \E e \in SoftEdges :
          InNode(e.from, n) /\ InNode(e.to, m)

NamesRefused == {"declared", "duplicateName", "unknownName"}
HardRefused == {"edged", "severalHard"}
PassesInvariant ==
    /\ status = "duplicateName" => DuplicateName
    /\ status = "unknownName" => UnknownName
    /\ status = "severalHard" => SeveralHard
    /\ status \notin NamesRefused => EdgesFromLinks
    /\ status \notin NamesRefused \cup HardRefused => RelationsFromEdges
    /\ status \notin NamesRefused \cup HardRefused \cup {"related"} => ParentsFromRelations
    /\ status = "hardCycle" => ParentsOnACycle
    /\ status \in {"merged", "visiting", "sorted", "cyclic", "crashed"} => PlacesFromParents
    /\ status \in {"visiting", "sorted", "cyclic", "crashed"} => ChainsFromPlaces

(* The sort is one of the whole pipeline and ends, cycles or not.          *)
Terminates == <>Ended
=============================================================================
