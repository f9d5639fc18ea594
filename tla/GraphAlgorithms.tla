---------------------------- MODULE GraphAlgorithms ----------------------------
(***************************************************************************)
(* The two graph algorithms of pkg/ofo/dependency.go step by step: Tarjan's *)
(* strongly connected components (TarjanSCC), with its indices, lowlinks    *)
(* and stack, and the sort of components (topoSortCondensation), with its   *)
(* indegrees and its ready list.  DependencyManager states what they        *)
(* compute; here the statements are compared with the algorithms on the     *)
(* graphs that the engine's candidates are built from.                      *)
(***************************************************************************)
EXTENDS EvidenceEngine

Unvisited == 0

(* The variables the closure connect shares, where index counts from 1; the  *)
(* vertices whose calls of connect have not returned, the innermost last;    *)
(* and the neighbours that the loop of a call has still to look at.          *)
NoVisit ==
    [index |-> 1, indices |-> [id \in Txs |-> Unvisited], lowlink |-> [id \in Txs |-> Unvisited],
     stack |-> <<>>, out |-> <<>>, calls |-> <<>>, left |-> [id \in Txs |-> {}]]

Connect(g, s, v) ==
    [s EXCEPT !.indices[v] = s.index, !.lowlink[v] = s.index, !.index = @ + 1,
              !.stack = Append(@, v), !.calls = Append(@, v), !.left[v] = Neighbours(g, v)]

Lower(s, v, value) == [s EXCEPT !.lowlink[v] = IF value < @ THEN value ELSE @]

\* Mutant: a vertex whose component is complete lowers the link as well.
AnyVisited(s, w) == s.indices[w] # Unvisited
OnStack(s, w) == w \in Ids(s.stack)

(* The next neighbour, in the order of LessTxID.                             *)
Visit(g, s, v) ==
    LET w == Least(s.left[v])
        after == [s EXCEPT !.left[v] = @ \ {w}]
    IN  CASE s.indices[w] = Unvisited -> Connect(g, after, w)
          [] s.indices[w] # Unvisited /\ OnStack(s, w) -> Lower(after, v, s.indices[w])
          [] OTHER -> after

(* The component is what lies on the stack from v upwards.                   *)
Pop(s, v) ==
    LET from == CHOOSE i \in DOMAIN s.stack : s.stack[i] = v
    IN  [s EXCEPT !.stack = SubSeq(@, 1, from - 1),
                  !.out = Append(@, Sorted({s.stack[i] : i \in from .. Len(s.stack)}))]

(* The end of the innermost call, and what its caller does next.             *)
Return(s, v) ==
    LET popped == IF s.lowlink[v] = s.indices[v] THEN Pop(s, v) ELSE s
        callers == SubSeq(s.calls, 1, Len(s.calls) - 1)
        returned == [popped EXCEPT !.calls = callers]
    IN  IF callers = <<>> THEN returned ELSE Lower(returned, callers[Len(callers)], s.lowlink[v])

(* One step of the innermost call or, between two calls, of the loop over    *)
(* the nodes.                                                                *)
TarjanStep(nodes, g, s) ==
    LET v == s.calls[Len(s.calls)]
        fresh == {id \in nodes : s.indices[id] = Unvisited}
    IN  CASE s.calls # <<>> /\ s.left[v] # {} -> Visit(g, s, v)
          [] s.calls # <<>> /\ s.left[v] = {} -> Return(s, v)
          [] s.calls = <<>> /\ fresh # {} -> Connect(g, s, Least(fresh))
          [] OTHER -> s

(* A node is entered and left once, and an edge is looked at once.           *)
TarjanSCC(nodes, g) ==
    LET steps == 2 * Cardinality(nodes) + Cardinality(g)
        turn[k \in 0 .. steps] == IF k = 0 THEN NoVisit ELSE TarjanStep(nodes, g, turn[k - 1])
    IN  turn[steps].out

-----------------------------------------------------------------------------
(* Between components an edge is recorded once (BuildCondensationAndSCCInfo). *)
Crossing(g, sccs) ==
    {c \in (DOMAIN sccs) \X (DOMAIN sccs) :
        c[1] # c[2] /\ \E e \in g : e[1] \in Ids(sccs[c[1]]) /\ e[2] \in Ids(sccs[c[2]])}

(* A set of components, sorted by their first transactions.                  *)
ByFirst(sccs, set) ==
    [k \in 1 .. Cardinality(set) |->
        CHOOSE c \in set : Cardinality({d \in set : sccs[d][1] < sccs[c][1]}) = k - 1]

\* Mutant: new ready components queue up behind the others.
AtTheEnd(sccs, ready, new) == ready \o ByFirst(sccs, new)
Resorted(sccs, ready, new) == ByFirst(sccs, Ids(ready) \cup new)

(* The variables of the sort before its loop, and one turn of the loop.      *)
Sources(sccs, used, included) ==
    LET indegree == [c \in included |-> Cardinality({e \in used : e[2] = c})]
    IN  [indegree |-> indegree, ready |-> ByFirst(sccs, {c \in included : indegree[c] = 0}),
         result |-> <<>>]

KahnStep(sccs, used, s) ==
    IF s.ready = <<>> THEN s
    ELSE LET to == Neighbours(used, Head(s.ready))
             indegree == [c \in DOMAIN s.indegree |-> s.indegree[c] - IF c \in to THEN 1 ELSE 0]
         IN  [indegree |-> indegree,
              ready |-> Resorted(sccs, Tail(s.ready), {c \in to : indegree[c] = 0}),
              result |-> Append(s.result, Head(s.ready))]

(* Every turn appends one of the included components and none returns, so    *)
(* the list is empty after as many turns.                                    *)
Kahn(sccs, used, included) ==
    LET turn[k \in 0 .. Cardinality(included)] ==
            IF k = 0 THEN Sources(sccs, used, included) ELSE KahnStep(sccs, used, turn[k - 1])
    IN  turn[Cardinality(included)].result

TopoSortCondensation(g, sccs, included) ==
    Kahn(sccs, {c \in Crossing(g, sccs) : c[1] \in included /\ c[2] \in included}, included)

-----------------------------------------------------------------------------
(* The graph buildProposal works on (GraphExact). *)
Nodes == NodesOf(pending.preState)
Edges == EdgesOf(pending.preState)

(* The lists of components that a search may return: each component once,    *)
(* itself in the order of identifiers.                                       *)
Listings(components) ==
    {sccs \in [1 .. Cardinality(components) -> {Sorted(c) : c \in components}] :
        {Ids(sccs[i]) : i \in DOMAIN sccs} = components}

(* Tarjan's lowlinks find exactly the classes of mutual reachability, each   *)
(* once and in the order of identifiers (the Components the models use).     *)
TarjanExact == Compared => TarjanSCC(Nodes, Edges) \in Listings(Components(Nodes, Edges))

(* The indegrees and the ready list give the order TopoSort states, which is *)
(* the order followers recompute ("claimed ranks do not match deterministic  *)
(* Kahn order"), whatever order Tarjan's search emits the components in and  *)
(* whichever of them are included.                                           *)
KahnExact ==
    Compared =>
        LET components == Components(Nodes, Edges)
            condensation == Condensation(components, Edges)
        IN  \A sccs \in Listings(components) : \A included \in SUBSET DOMAIN sccs :
                LET sorted == TopoSortCondensation(Edges, sccs, included)
                IN  [k \in DOMAIN sorted |-> Ids(sccs[sorted[k]])] =
                        TopoSort({Ids(sccs[c]) : c \in included}, condensation)
=============================================================================
