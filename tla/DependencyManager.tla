-------------------------- MODULE DependencyManager ---------------------------
(***************************************************************************)
(* The leader's materialized dependency graph and the proposal it derives  *)
(* from it (pkg/ofo/dependency.go): refreshing the pairs an evidence batch *)
(* touched, the strongly connected components and their condensation, the  *)
(* safe closure in Kahn order, and the structural certificate.             *)
(*                                                                         *)
(* dm.txStates is written and never read, and is left out.  The components *)
(* are defined by mutual reachability; TarjanSCC is in GraphAlgorithms.   *)
(***************************************************************************)
EXTENDS EvidenceState

NewDependencyManager ==
    [nodes |-> {}, weights |-> [e \in Txs \X Txs |-> 0], edges |-> {}, inverse |-> {}]

EdgePred(u, v, weights) ==
    /\ weights[<<u, v>>] >= EdgeThreshold
    /\ \/ weights[<<u, v>>] > weights[<<v, u>>]
       \/ weights[<<u, v>>] = weights[<<v, u>>] /\ u < v

Within(e, pairs) == {e[1], e[2]} \in pairs

\* Mutant: refreshPair does not delete the edge of the other direction.
NothingStale(edges, pairs) == edges

Untouched(edges, pairs) == {e \in edges : ~Within(e, pairs)}

Refresh(manager, state, touchedNodes, touchedPairs) ==
    LET added == {id \in touchedNodes : state.states[id] # "blank"} \ manager.nodes
        nodes == manager.nodes \cup added
        pairs == touchedPairs \cup PairsWith(added, state.live)
        weights == [e \in Txs \X Txs |->
                       IF Within(e, pairs) THEN state.weights[e] ELSE manager.weights[e]]
        fresh == {e \in nodes \X nodes : Within(e, pairs) /\ EdgePred(e[1], e[2], weights)}
    IN  [nodes |-> nodes, weights |-> weights,
         edges |-> Untouched(manager.edges, pairs) \cup fresh,
         inverse |-> Untouched(manager.inverse, pairs) \cup {<<e[2], e[1]>> : e \in fresh}]

RemoveFinalized(manager, output) ==
    [nodes |-> manager.nodes \ output,
     weights |-> [e \in Txs \X Txs |->
                     IF e[1] \in output \/ e[2] \in output THEN 0 ELSE manager.weights[e]],
     edges |-> {e \in manager.edges :
                   /\ e[1] \notin output
                   /\ ~(e[2] \in output /\ <<e[2], e[1]>> \in manager.inverse)},
     inverse |-> {e \in manager.inverse :
                   /\ e[1] \notin output
                   /\ ~(e[2] \in output /\ <<e[2], e[1]>> \in manager.edges)}]

-----------------------------------------------------------------------------
(* Components and their condensation. *)

TxSeq == Sorted(Txs)

(* Reflexive and transitive closure of a relation on Txs. *)
Reachability(edges) ==
    LET through[k \in 0 .. Len(TxSeq)] ==
            IF k = 0 THEN edges \cup {<<id, id>> : id \in Txs}
            ELSE through[k-1] \cup
                 {e \in Txs \X Txs : /\ <<e[1], TxSeq[k]>> \in through[k-1]
                                     /\ <<TxSeq[k], e[2]>> \in through[k-1]}
    IN  through[Len(TxSeq)]

Components(nodes, edges) ==
    LET reach == Reachability(edges)
    IN  {{v \in nodes : <<u, v>> \in reach /\ <<v, u>> \in reach} : u \in nodes}

Condensation(components, edges) ==
    {c \in components \X components :
        c[1] # c[2] /\ \E e \in edges : e[1] \in c[1] /\ e[2] \in c[2]}

Least(ids) == CHOOSE x \in ids : \A y \in ids : x <= y

FirstReady(ready) == CHOOSE c \in ready : \A d \in ready : Least(c) <= Least(d)

(* topoSortCondensation: Kahn's algorithm with a ready list sorted by the    *)
(* smallest identifier of a component.                                       *)
TopoSort(components, condensation) ==
    LET sorted[k \in 0 .. Cardinality(components)] ==
            IF k = 0 THEN <<>>
            ELSE LET before == Ids(sorted[k-1])
                     ready == {c \in components \ before :
                                  \A d \in components : <<d, c>> \in condensation => d \in before}
                 IN  IF ready = {} THEN sorted[k-1] ELSE Append(sorted[k-1], FirstReady(ready))
    IN  sorted[Cardinality(components)]

-----------------------------------------------------------------------------
(* Breadth-first search: the queue with every vertex ever enqueued, and the  *)
(* parent each vertex was enqueued by, the earliest one adjacent to it.      *)

Neighbours(edges, u) == {e[2] : e \in {d \in edges : d[1] = u}}

Bfs(roots, edges) ==
    LET queue[k \in 0 .. Cardinality(Txs)] ==
            IF k = 0 THEN Sorted(roots)
            ELSE LET before == queue[k-1]
                 IN  IF k > Len(before) THEN before
                     ELSE before \o Sorted(Neighbours(edges, before[k]) \ Ids(before))
    IN  queue[Cardinality(Txs)]

BfsParent(queue, edges, id) ==
    queue[CHOOSE i \in DOMAIN queue :
            /\ <<queue[i], id>> \in edges
            /\ \A j \in 1 .. i - 1 : <<queue[j], id>> \notin edges]

(* The tree of one component; an inward tree is searched along the inverse   *)
(* edges and reports the edges of the graph.                                 *)
SpanningTree(root, component, adjacency, inward) ==
    LET edges == {e \in adjacency : e[1] \in component /\ e[2] \in component}
        queue == Bfs({root}, edges)
        parent(id) == BfsParent(queue, edges, id)
    IN  {IF inward THEN <<id, parent(id)>> ELSE <<parent(id), id>> : id \in Ids(queue) \ {root}}

NoParent == 0

(* The paths from a shaded transaction to each solid one left out.           *)
BlockForest(manager, state, selected) ==
    LET roots == {id \in manager.nodes : state.states[id] = "shaded"}
        queue == Bfs(roots, manager.edges)
        parent == [id \in Ids(queue) \ roots |-> BfsParent(queue, manager.edges, id)]
        depth[k \in 0 .. Cardinality(Txs)] ==
            IF k = 0 THEN roots
            ELSE {id \in DOMAIN parent : parent[id] \in depth[k-1]}
        excluded == {id \in manager.nodes : state.states[id] = "solid"} \ selected
        used[k \in 0 .. Cardinality(Txs)] ==
            IF k = 0 THEN excluded
            ELSE used[k-1] \cup {parent[id] : id \in used[k-1] \cap DOMAIN parent}
        depthOf(id) == IF id \notin Ids(queue) THEN 0
                       ELSE CHOOSE k \in DOMAIN depth : id \in depth[k]
    IN  {[vertex |-> id, depth |-> depthOf(id), hasParent |-> id \in DOMAIN parent,
          parent |-> IF id \in DOMAIN parent THEN parent[id] ELSE NoParent] :
            id \in used[Cardinality(Txs)]}

-----------------------------------------------------------------------------
(* buildProposal: components that contain or follow a transaction that is    *)
(* not solid are unsafe; the others are output in Kahn order.                *)

\* Mutant: only the components that hold a shaded transaction are left out.
OnlyShaded(order, condensation, notSolid) == notSolid

\* Mutant: a shaded transaction holds back everything.
Everything(order, condensation, notSolid) == IF notSolid = {} THEN {} ELSE Ids(order)

Unsafe(order, condensation, notSolid) ==
    LET marked[k \in 0 .. Len(order)] ==
            IF k = 0 THEN notSolid
            ELSE marked[k-1] \cup
                 (IF order[k] \in marked[k-1] THEN Neighbours(condensation, order[k]) ELSE {})
    IN  marked[Len(order)]

BuildProposal(manager, state) ==
    LET components == Components(manager.nodes, manager.edges)
        condensation == Condensation(components, manager.edges)
        notSolid == {c \in components : \E id \in c : state.states[id] # "solid"}
        selected == components
                        \ Unsafe(TopoSort(components, condensation), condensation, notSolid)
        ordered == TopoSort(selected, condensation)
        claim(c, rank) ==
            [txs |-> Sorted(c), rank |-> rank,
             inTree |-> SpanningTree(Least(c), c, manager.inverse, TRUE),
             outTree |-> SpanningTree(Least(c), c, manager.edges, FALSE)]
    IN  [finalOrder |-> [i \in DOMAIN ordered |->
                            Batch(state.batchCounter + i, Sorted(ordered[i]))],
         certificate |-> [part |-> [i \in DOMAIN ordered |-> claim(ordered[i], i - 1)],
                          blockForest |-> BlockForest(manager, state, UNION selected)]]
=============================================================================
