---------------------------- MODULE EvidenceState -----------------------------
(***************************************************************************)
(* The authoritative evidence state of pkg/ofo/dependency.go, its          *)
(* incremental caches, and the two operations that change it: applying an  *)
(* evidence batch and finalizing the output of a fragment.                 *)
(*                                                                         *)
(* Maps keyed by transaction are total functions whose default stands for  *)
(* a missing entry.  Digests and signatures are left out: "head" is the    *)
(* whole log a hash chain commits to, its length is state.Seq, and the     *)
(* state identifiers are functions of the rest.                            *)
(***************************************************************************)
EXTENDS Integers, Sequences, FiniteSets

CONSTANTS
    Replicas,   \* the replicas
    F,          \* how many of them may be faulty
    QH,         \* ceil(gamma * (N - F))
    Txs,        \* transaction identifiers, numbers in the order of LessTxID
    LoMax       \* size limit of one local order

N == Cardinality(Replicas)

(* What NewOFOService requires of its parameters.                            *)
ASSUME ThresholdAssumption ==
    /\ IsFiniteSet(Replicas) /\ F \in Nat /\ 3*F <= N - 1
    /\ QH \in 0 .. N - F /\ 2*QH >= N + 2*F + 1
    /\ LoMax \in Nat

ASSUME TxAssumption == Txs \subseteq Nat /\ IsFiniteSet(Txs)

EdgeThreshold == N - QH + 1
SolidThreshold == N - 2*F

NotDone == [fragment |-> 0, batch |-> 0]

NewEvidenceState ==
    [fragmentSeq |-> 0, batchCounter |-> 0,
     head |-> [r \in Replicas |-> <<>>],
     live |-> {},
     pos |-> [r \in Replicas |-> [id \in Txs |-> 0]],
     done |-> [id \in Txs |-> NotDone],
     visibility |-> [id \in Txs |-> 0],
     weights |-> [e \in Txs \X Txs |-> 0],
     states |-> [id \in Txs |-> "blank"]]

Done(state) == {id \in Txs : state.done[id] # NotDone}
Ids(seq) == {seq[i] : i \in DOMAIN seq}

(* The elements of a finite set of identifiers in increasing order. *)
Sorted(ids) ==
    [i \in 1 .. Cardinality(ids) |-> CHOOSE x \in ids : Cardinality({y \in ids : y < x}) = i - 1]

-----------------------------------------------------------------------------
(* applyEvidence: validation, then positions, visibility, pair weights and   *)
(* transaction states.  A batch is a set of records [replica, txs] whose     *)
(* predecessor is the current head of the replica's log.                     *)

Valid(state, batch) ==
    /\ Cardinality(batch) = N - F
    /\ \A o1, o2 \in batch : o1.replica = o2.replica => o1 = o2
    /\ \A order \in batch :
        /\ Len(order.txs) <= LoMax
        /\ \A i, j \in DOMAIN order.txs : order.txs[i] = order.txs[j] => i = j
        /\ \A id \in Ids(order.txs) \ Done(state) : state.pos[order.replica][id] = 0

\* Mutant: a finalized identifier is treated as a new one.
EveryId(state, order) == Ids(order.txs)

(* A late report of a finalized identifier is logged and otherwise ignored. *)
NewIds(state, order) == Ids(order.txs) \ Done(state)

Positions(state, order) ==
    LET base == state.pos[order.replica]
        index(id) == CHOOSE i \in DOMAIN order.txs : order.txs[i] = id
    IN  [id \in Txs |-> IF id \in NewIds(state, order)
                        THEN Len(state.head[order.replica]) + index(id) ELSE base[id]]

(* The ordered pairs an extension adds: new-old and new-new, never old-old. *)
AddedPairs(pos, new) ==
    {e \in Txs \X Txs : /\ 0 < pos[e[1]] /\ pos[e[1]] < pos[e[2]]
                        /\ e[1] \in new \/ e[2] \in new}

\* Mutant: solid already when N-2F-1 replicas have reported.
EagerShade(count) == IF count >= SolidThreshold - 1 THEN "solid" ELSE "blank"

Shade(count) ==
    IF count >= SolidThreshold THEN "solid"
    ELSE IF count >= EdgeThreshold THEN "shaded" ELSE "blank"

(* The unordered pairs of a transaction in ids with another live one. *)
PairsWith(ids, live) == {{e[1], e[2]} : e \in {p \in ids \X live : p[1] # p[2]}}

(* The new state with the nodes and pairs the graph has to look at again.    *)
ApplyEvidence(state, batch) ==
    LET pos(order) == Positions(state, order)
        new(order) == NewIds(state, order)
        added == [order \in batch |-> AddedPairs(pos(order), new(order))]
        nodes == UNION {new(order) : order \in batch}
        live == state.live \cup nodes
        visibility == [id \in Txs |-> state.visibility[id]
                          + Cardinality({order \in batch : id \in new(order)})]
        states == [id \in Txs |-> IF id \in nodes THEN Shade(visibility[id]) ELSE state.states[id]]
        risen == {id \in nodes : state.states[id] = "blank" /\ states[id] # "blank"}
        of(r) == CHOOSE order \in batch : order.replica = r
        senders == {order.replica : order \in batch}
    IN  [state |->
            [state EXCEPT
                !.fragmentSeq = @ + 1,
                !.head = [r \in Replicas |-> IF r \in senders THEN @[r] \o of(r).txs ELSE @[r]],
                !.live = live,
                !.pos = [r \in Replicas |-> IF r \in senders THEN pos(of(r)) ELSE @[r]],
                !.visibility = visibility,
                !.weights = [e \in Txs \X Txs |->
                                @[e] + Cardinality({order \in batch : e \in added[order]})],
                !.states = states],
         nodes |-> nodes,
         pairs |-> (UNION {{{e[1], e[2]} : e \in added[order]} : order \in batch})
                      \cup PairsWith(risen, live)]

-----------------------------------------------------------------------------
(* finalize: the output leaves the live maps and every cache that names it. *)

\* Mutant: batches are numbered from the counter itself.
BatchFromCounter(index, txs) == [index |-> index - 1, txs |-> txs]
Batch(index, txs) == [index |-> index, txs |-> txs]
Output(finalOrder) == UNION {Ids(finalOrder[i].txs) : i \in DOMAIN finalOrder}

FinalizeState(state, finalOrder) ==
    LET output == Output(finalOrder)
        batchOf(id) == CHOOSE b \in Ids(finalOrder) : id \in Ids(b.txs)
    IN  [state EXCEPT
            !.done = [id \in Txs |-> IF id \in output
                         THEN [fragment |-> state.fragmentSeq, batch |-> batchOf(id).index]
                         ELSE @[id]],
            !.batchCounter = IF finalOrder = <<>> THEN @ ELSE finalOrder[Len(finalOrder)].index,
            !.live = @ \ output,
            !.pos = [r \in Replicas |-> [id \in Txs |-> IF id \in output THEN 0 ELSE @[r][id]]],
            !.visibility = [id \in Txs |-> IF id \in output THEN 0 ELSE @[id]],
            !.states = [id \in Txs |-> IF id \in output THEN "blank" ELSE @[id]],
            !.weights = [e \in Txs \X Txs |->
                            IF e[1] \in output \/ e[2] \in output THEN 0 ELSE @[e]]]
=============================================================================
