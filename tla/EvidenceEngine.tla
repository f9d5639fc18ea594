---------------------------- MODULE EvidenceEngine ----------------------------
(***************************************************************************)
(* The ordering engine of the leader (runCollectorStage,                   *)
(* constructCandidate, CommitPending and AbandonPending of                 *)
(* pkg/ofo/service.go): every candidate is built on clones of the          *)
(* committed state and graph, and only a commit installs them.  The        *)
(* replicas' logs grow by arbitrary extensions; which n-f replicas are     *)
(* scheduled, and how a round is agreed on, is FragmentReplication's.      *)
(***************************************************************************)
EXTENDS StructuralCertificate

CONSTANTS
    MaxSeq,      \* bound: number of fragments committed in a behaviour
    MaxCompared  \* bound: last fragment whose candidates are compared with the
                 \* algorithms and with every other candidate

ASSUME MaxSeqAssumption == MaxSeq \in Nat

ASSUME ComparedAssumption == MaxCompared \in Nat

VARIABLES
    committed,  \* s.committed
    manager,    \* s.UtigManager
    collected,  \* the collector's pending orders
    pending     \* s.pending, or NoCandidate

vars == <<committed, manager, collected, pending>>

NoCandidate == [fragment |-> 0]

Init ==
    /\ committed = NewEvidenceState
    /\ manager = NewDependencyManager
    /\ collected = {}
    /\ pending = NoCandidate

Candidate(batch) ==
    LET applied == ApplyEvidence(committed, batch)
        refreshed == Refresh(manager, applied.state, applied.nodes, applied.pairs)
        proposal == BuildProposal(refreshed, applied.state)
    IN  [fragment |-> applied.state.fragmentSeq,
         preState |-> applied.state,
         postState |-> FinalizeState(applied.state, proposal.finalOrder),
         manager |-> RemoveFinalized(refreshed, Output(proposal.finalOrder)),
         finalOrder |-> proposal.finalOrder,
         certificate |-> proposal.certificate]

(* The extensions of a replica's log: it never reports a transaction twice.  *)
Extensions(r) ==
    LET fresh == Txs \ Ids(committed.head[r])
    IN  {txs \in UNION {[1 .. k -> fresh] : k \in 0 .. LoMax} :
            \A i, j \in DOMAIN txs : txs[i] = txs[j] => i = j}

CollectLocalOrder(r, txs) ==
    /\ committed.fragmentSeq < MaxSeq
    /\ pending = NoCandidate /\ Cardinality(collected) < N - F
    /\ \A order \in collected : order.replica # r
    /\ collected' = collected \cup {[replica |-> r, txs |-> txs]}
    /\ UNCHANGED <<committed, manager, pending>>

ConstructCandidate ==
    /\ pending = NoCandidate /\ Cardinality(collected) = N - F
    /\ pending' = IF Valid(committed, collected) THEN Candidate(collected) ELSE NoCandidate
    /\ collected' = {}
    /\ UNCHANGED <<committed, manager>>

CommitPending ==
    /\ pending # NoCandidate
    /\ committed' = pending.postState
    /\ manager' = pending.manager
    /\ pending' = NoCandidate
    /\ UNCHANGED collected

AbandonPending ==
    /\ pending # NoCandidate
    /\ pending' = NoCandidate
    /\ UNCHANGED <<committed, manager, collected>>

Next ==
    \/ \E r \in Replicas : \E txs \in Extensions(r) : CollectLocalOrder(r, txs)
    \/ ConstructCandidate
    \/ CommitPending
    \/ AbandonPending

Spec == Init /\ [][Next]_vars

-----------------------------------------------------------------------------
(* The state and the graph recomputed from the replicas' logs and the set of *)
(* finalized transactions alone.                                             *)

PosIn(log, id) == IF id \in Ids(log) THEN CHOOSE i \in DOMAIN log : log[i] = id ELSE 0

(* The first positions that count: those of transactions not finalized. *)
LivePos(state, r, id) == IF id \in Done(state) THEN 0 ELSE PosIn(state.head[r], id)

Reporters(state, id) == {r \in Replicas : LivePos(state, r, id) > 0}

Preferring(state, u, v) ==
    {r \in Replicas : 0 < LivePos(state, r, u) /\ LivePos(state, r, u) < LivePos(state, r, v)}

(* The replicas whose log can only ever place u before v. *)
ReportedBefore(state, u, v) ==
    {r \in Replicas :
        /\ 0 < PosIn(state.head[r], u)
        /\ PosIn(state.head[r], v) = 0 \/ PosIn(state.head[r], u) < PosIn(state.head[r], v)}

WeightsOf(state) == [e \in Txs \X Txs |-> Cardinality(Preferring(state, e[1], e[2]))]
StatesOf(state) == [id \in Txs |-> Shade(Cardinality(Reporters(state, id)))]
NodesOf(state) == {id \in Txs : StatesOf(state)[id] # "blank"}
EdgesOf(state) ==
    LET weights == WeightsOf(state)
    IN  {e \in NodesOf(state) \X NodesOf(state) : e[1] # e[2] /\ EdgePred(e[1], e[2], weights)}

(* The candidates that are compared. *)
Compared == pending # NoCandidate /\ pending.fragment <= MaxCompared

-----------------------------------------------------------------------------
(* Properties. *)

(* The incremental positions, visibility, weights and transaction states are *)
(* what a computation from the whole logs gives, although finalized          *)
(* transactions leave every cache and may still be reported late             *)
(* (applyEvidence, finalize; evidence_equivalence_test.go).                  *)
CachesExact ==
    /\ \A r \in Replicas, id \in Txs : committed.pos[r][id] = LivePos(committed, r, id)
    /\ committed.live = {id \in Txs : Reporters(committed, id) # {}}
    /\ \A id \in Txs : committed.visibility[id] = Cardinality(Reporters(committed, id))
    /\ committed.weights = WeightsOf(committed)
    /\ committed.states = StatesOf(committed)

Exact(graph, state) ==
    /\ graph.nodes = NodesOf(state)
    /\ graph.edges = EdgesOf(state)
    /\ graph.inverse = {<<e[2], e[1]>> : e \in graph.edges}

(* The leader's graph, refreshed only at touched nodes and pairs and purged  *)
(* of finalized transactions, is the graph the followers' local predicate    *)
(* defines on the evidence, both when it is committed and when a proposal is *)
(* built from it (refresh, refreshPair, removeFinalized).                    *)
GraphExact ==
    /\ Exact(manager, committed)
    /\ Cardinality(collected) = N - F /\ Valid(committed, collected) =>
        LET applied == ApplyEvidence(committed, collected)
        IN  Exact(Refresh(manager, applied.state, applied.nodes, applied.pairs), applied.state)

(* A correct leader's proposal is never rejected: whatever the graph, the    *)
(* certificate it derives from its own caches passes the check a follower    *)
(* makes on evidence alone (buildProposal, verifyStructuralCertificate).     *)
CertificateAccepted ==
    pending # NoCandidate =>
        VerifyCertificate(pending.preState, pending.finalOrder, pending.certificate)

(* Batch-order fairness: if QH replicas report u before v, v is never output *)
(* in an earlier fairness batch than u.  A replica that has logged only u    *)
(* counts: it can only report v later.                                       *)
BatchOrderFairness ==
    \A u, v \in Txs :
        Cardinality(ReportedBefore(committed, u, v)) >= QH /\ v \in Done(committed) =>
            u \in Done(committed) /\ committed.done[u].batch <= committed.done[v].batch

(* Nothing waits needlessly: after a commit every solid transaction that is  *)
(* still live is reachable from one that too few replicas have reported.     *)
OnlyShadedBlocks ==
    LET reach == Reachability(EdgesOf(committed))
        states == StatesOf(committed)
    IN  \A v \in Txs : states[v] = "solid" =>
            \E u \in Txs : states[u] = "shaded" /\ <<u, v>> \in reach

(* The output only grows: what is final stays where it is, and what becomes  *)
(* final is numbered after everything before it.                             *)
OutputGrows ==
    [][\A id \in Txs :
        IF id \in Done(committed) THEN committed'.done[id] = committed.done[id]
        ELSE id \in Done(committed') =>
                /\ committed'.done[id].fragment = committed.fragmentSeq + 1
                /\ committed'.done[id].batch > committed.batchCounter
                /\ committed'.done[id].batch <= committed'.batchCounter]_vars
=============================================================================
