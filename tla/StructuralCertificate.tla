------------------------ MODULE StructuralCertificate -------------------------
(***************************************************************************)
(* verifyStructuralCertificate of pkg/ofo/dependency.go: what a follower,  *)
(* which keeps no graph, checks of the leader's output against the         *)
(* evidence state it has computed itself.                                  *)
(***************************************************************************)
EXTENDS DependencyManager

Active(state) == {id \in state.live : state.states[id] # "blank"}

LocalEdgePred(state, u, v) ==
    state.states[u] # "blank" /\ state.states[v] # "blank" /\ EdgePred(u, v, state.weights)

LocalEdges(state, ids) ==
    {e \in ids \X ids : e[1] # e[2] /\ LocalEdgePred(state, e[1], e[2])}

(* The batches continue the counter, are sorted, disjoint and all solid.     *)
VerifyBatches(state, finalOrder) ==
    \A i \in DOMAIN finalOrder :
        LET txs == finalOrder[i].txs
        IN  /\ finalOrder[i].index = state.batchCounter + i
            /\ \A k \in 1 .. Len(txs) - 1 : txs[k] < txs[k + 1]
            /\ \A id \in Ids(txs) :
                /\ id \in Active(state) \ Done(state) /\ state.states[id] = "solid"
                /\ \A j \in DOMAIN finalOrder : id \in Ids(finalOrder[j].txs) => i = j

(* One parent for every vertex but the root, all reached from the root.      *)
VerifyTree(state, root, component, tree, inward) ==
    LET down == IF inward THEN {<<e[2], e[1]>> : e \in tree} ELSE tree
    IN  /\ \A e \in tree : /\ e[1] \in component /\ e[2] \in component
                           /\ LocalEdgePred(state, e[1], e[2])
        /\ \A id \in component :
            Cardinality({e \in down : e[2] = id}) = IF id = root THEN 0 ELSE 1
        /\ Ids(Bfs({root}, down)) = component

\* Mutant: only the paths from the root are asked for, not those back to it.
OneTree(state, claim) ==
    LET component == Ids(claim.txs)
    IN  /\ component # {}
        /\ Cardinality(claim.outTree) = Len(claim.txs) - 1
        /\ VerifyTree(state, claim.txs[1], component, claim.outTree, FALSE)

VerifyClaim(state, claim) ==
    LET component == Ids(claim.txs)
        root == claim.txs[1]
    IN  /\ component # {}
        /\ Cardinality(claim.inTree) = Len(claim.txs) - 1
        /\ Cardinality(claim.outTree) = Len(claim.txs) - 1
        /\ VerifyTree(state, root, component, claim.outTree, FALSE)
        /\ VerifyTree(state, root, component, claim.inTree, TRUE)

\* Mutant: any topological order of the components is accepted.
AnyTopologicalOrder(state, part) ==
    \A i, j \in DOMAIN part :
        (\E u \in Ids(part[i].txs), v \in Ids(part[j].txs) : u # v /\ LocalEdgePred(state, u, v))
            => i <= j

(* Edges between components increase the rank, and the ranks are those of    *)
(* the deterministic topological order.                                      *)
VerifyRanks(state, part) ==
    LET component(i) == Ids(part[i].txs)
        components == {component(i) : i \in DOMAIN part}
        edges == LocalEdges(state, UNION components)
    IN  /\ \A i, j \in DOMAIN part :
            (\E e \in edges : e[1] \in component(i) /\ e[2] \in component(j)) => i <= j
        /\ TopoSort(components, Condensation(components, edges)) =
                [i \in DOMAIN part |-> component(i)]

(* Every excluded solid transaction has a certified path from a shaded one,  *)
(* and no record is off such a path.                                         *)
VerifyBlockForest(state, included, records) ==
    LET vertices == {record.vertex : record \in records}
        recordOf(id) == CHOOSE record \in records : record.vertex = id
        excluded == {id \in Active(state) \ included : state.states[id] = "solid"}
        used[k \in 0 .. Cardinality(records)] ==
            IF k = 0 THEN excluded
            ELSE used[k-1] \cup {recordOf(id).parent : id \in {v \in used[k-1] : recordOf(v).hasParent}}
    IN  /\ vertices \subseteq Active(state) \ included
        /\ Cardinality(vertices) = Cardinality(records)
        /\ \A record \in records :
            IF record.hasParent
            THEN /\ record.parent \in vertices
                 /\ record.depth = recordOf(record.parent).depth + 1
                 /\ LocalEdgePred(state, record.parent, record.vertex)
            ELSE record.depth = 0 /\ state.states[record.vertex] = "shaded"
        /\ excluded \subseteq vertices
        /\ used[Cardinality(records)] = vertices

VerifyCertificate(state, finalOrder, certificate) ==
    LET included == Output(finalOrder)
        part == certificate.part
    IN  /\ VerifyBatches(state, finalOrder)
        /\ Len(part) = Len(finalOrder)
        /\ \A i \in DOMAIN part :
            /\ part[i].rank = i - 1 /\ part[i].txs = finalOrder[i].txs
            /\ VerifyClaim(state, part[i])
        /\ VerifyRanks(state, part)
        /\ \A outside \in Active(state) \ included : \A inside \in included :
            ~LocalEdgePred(state, outside, inside)
        /\ VerifyBlockForest(state, included, certificate.blockForest)
=============================================================================
