------------------------- MODULE EvidenceEngineProofs -------------------------
(***************************************************************************)
(* The engine's invariants for every set of replicas and transactions and  *)
(* all thresholds.  The incremental caches and the incremental graph are   *)
(* what the logs define (EngineInv), Kahn's algorithm and the marks select *)
(* the components that nothing unready leads to, and the counting behind   *)
(* 2*ceil(gamma*(n-f)) >= n+2f+1 makes the output fair.  A certificate     *)
(* that a follower accepts is for the proposal of its own evidence, and    *)
(* the certificate of that proposal is always accepted.                    *)
(***************************************************************************)
EXTENDS CertificateSoundness, FiniteSetTheorems, TLAPS

-----------------------------------------------------------------------------
(* Counting replicas. *)

(* What ThresholdAssumption says, for the provers: the replicas are          *)
(* finitely many and 2*QH >= N + 2*F + 1 (NewDependencyManager checks the    *)
(* thresholds).                                                              *)
LEMMA ReplicaCount ==
    /\ IsFiniteSet(Replicas) /\ N \in Nat /\ F \in Nat /\ QH \in Nat
    /\ QH <= N - F /\ 2*QH >= N + 2*F + 1
<1>1. IsFiniteSet(Replicas) /\ N \in Nat
  BY ThresholdAssumption, FS_CardinalityType DEF N
<1> QED  BY <1>1, ThresholdAssumption

(* A set of replicas has at most N members, and a part of it no more than    *)
(* it has.                                                                   *)
LEMMA SubsetCount ==
    ASSUME NEW S \in SUBSET Replicas
    PROVE  /\ IsFiniteSet(S) /\ Cardinality(S) \in Nat /\ Cardinality(S) <= N
           /\ \A T \in SUBSET S : Cardinality(T) \in Nat /\ Cardinality(T) <= Cardinality(S)
<1>1. IsFiniteSet(S) /\ Cardinality(S) <= N
  BY ReplicaCount, FS_Subset DEF N
<1>2. \A T \in SUBSET S : IsFiniteSet(T) /\ Cardinality(T) <= Cardinality(S)
  BY <1>1, FS_Subset
<1> QED  BY <1>1, <1>2, FS_CardinalityType

(* QH replicas and enough replicas to make a transaction solid share enough  *)
(* replicas for an edge, and the rest are too few for one.                   *)
THEOREM QuorumOverlap ==
    ASSUME NEW A \in SUBSET Replicas, NEW B \in SUBSET Replicas,
           Cardinality(A) >= QH, Cardinality(B) >= SolidThreshold
    PROVE  /\ Cardinality(A \cap B) >= EdgeThreshold
           /\ Cardinality(Replicas \ A) < EdgeThreshold
<1>1. Cardinality(A \cup B) = Cardinality(A) + Cardinality(B) - Cardinality(A \cap B)
  BY SubsetCount, FS_Union
<1>2. Cardinality(A \cup B) <= N
  BY SubsetCount
<1>3. Cardinality(Replicas \ A) = N - Cardinality(A)
  <2>1. Cardinality(Replicas \ A) = N - Cardinality(Replicas \cap A)
    BY ReplicaCount, FS_Difference DEF N
  <2>2. Replicas \cap A = A
    OBVIOUS
  <2> QED  BY <2>1, <2>2, Zenon
<1>4. /\ Cardinality(A) \in Nat /\ Cardinality(B) \in Nat /\ Cardinality(A \cap B) \in Nat
  BY SubsetCount
<1>5. Cardinality(A \cap B) >= QH + (N - 2*F) - N
  BY <1>1, <1>2, <1>4, ReplicaCount DEF SolidThreshold
<1>6. Cardinality(Replicas \ A) <= N - QH
  BY <1>3, <1>4, ReplicaCount
<1>7. N - QH < N - QH + 1 /\ QH + (N - 2*F) - N >= N - QH + 1
  BY ReplicaCount
<1>8. Cardinality(Replicas \ A) \in Int
  BY <1>3, <1>4, ReplicaCount
<1> QED  BY <1>4, <1>5, <1>6, <1>7, <1>8, ReplicaCount DEF EdgeThreshold

(* A log no identifier occurs in twice. *)
Repeats(log) == \E i, j \in DOMAIN log : log[i] = log[j] /\ i # j
Logs == {log \in Seq(Txs) : ~Repeats(log)}

(* PosIn gives a position of the identifier in the log, and 0 when the log   *)
(* does not hold it.                                                         *)
LEMMA PosInLog ==
    ASSUME NEW log \in Seq(Txs), NEW id
    PROVE  /\ id \in Ids(log) => PosIn(log, id) \in 1 .. Len(log) /\ log[PosIn(log, id)] = id
           /\ id \notin Ids(log) => PosIn(log, id) = 0
           /\ PosIn(log, id) \in Nat /\ PosIn(log, id) <= Len(log)
<1>1. CASE id \in Ids(log)
  <2>1. \E i \in DOMAIN log : log[i] = id
    BY <1>1 DEF Ids
  <2> QED  BY <1>1, <2>1 DEF PosIn
<1>2. CASE id \notin Ids(log)
  BY <1>2 DEF PosIn
<1> QED  BY <1>1, <1>2

(* In a log without repetitions the position of an entry is its index. *)
LEMMA PosInIndex ==
    ASSUME NEW log \in Logs, NEW i \in DOMAIN log
    PROVE  PosIn(log, log[i]) = i
<1>1. log[i] \in Ids(log)
  BY DEF Ids
<1>2. PosIn(log, log[i]) \in DOMAIN log /\ log[PosIn(log, log[i])] = log[i]
  BY <1>1, PosInLog DEF Logs
<1> QED  BY <1>2 DEF Logs, Repeats

(* An extension by identifiers the log does not hold keeps every position    *)
(* and appends its own.                                                      *)
LEMMA PosInExtension ==
    ASSUME NEW log \in Logs, NEW ext \in Logs, Ids(log) \cap Ids(ext) = {}
    PROVE  /\ log \o ext \in Logs /\ Ids(log \o ext) = Ids(log) \cup Ids(ext)
           /\ \A id : PosIn(log \o ext, id) =
                        IF id \in Ids(ext) THEN Len(log) + PosIn(ext, id) ELSE PosIn(log, id)
<1> DEFINE both == log \o ext
<1>1. /\ both \in Seq(Txs) /\ Len(both) = Len(log) + Len(ext)
      /\ \A i \in 1 .. Len(log) : both[i] = log[i] /\ log[i] \in Ids(log)
      /\ \A i \in 1 .. Len(ext) : both[Len(log) + i] = ext[i] /\ ext[i] \in Ids(ext)
  BY DEF Logs, Ids
<1>2. \A i \in 1 .. Len(both) :
        i \in 1 .. Len(log) \/ (i - Len(log) \in 1 .. Len(ext) /\ i = Len(log) + (i - Len(log)))
  BY <1>1 DEF Logs
<1>3. Ids(both) = Ids(log) \cup Ids(ext)
  <2>1. \A i \in DOMAIN both : both[i] \in Ids(log) \cup Ids(ext)
    BY <1>1, <1>2
  <2>2. \A i \in DOMAIN log : i \in DOMAIN both /\ both[i] = log[i]
    BY <1>1 DEF Logs
  <2>3. \A i \in DOMAIN ext : Len(log) + i \in DOMAIN both /\ both[Len(log) + i] = ext[i]
    BY <1>1 DEF Logs
  <2> HIDE DEF both
  <2> QED  BY <2>1, <2>2, <2>3 DEF Ids
<1>4. ~Repeats(both)
  <2> SUFFICES ASSUME NEW i \in 1 .. Len(both), NEW j \in 1 .. Len(both), both[i] = both[j]
               PROVE  i = j
    BY <1>1 DEF Repeats
  <2>1. CASE i \in 1 .. Len(log) /\ j \in 1 .. Len(log)
    BY <2>1, <1>1 DEF Logs, Repeats
  <2>2. CASE i \notin 1 .. Len(log) /\ j \notin 1 .. Len(log)
    <3>1. ext[i - Len(log)] = ext[j - Len(log)]
      BY <2>2, <1>1, <1>2
    <3>2. i - Len(log) = j - Len(log)
      BY <2>2, <1>2, <3>1 DEF Logs, Repeats
    <3> QED  BY <3>2, <1>1 DEF Logs
  <2>3. CASE i \in 1 .. Len(log) /\ j \notin 1 .. Len(log)
    <3>1. both[i] \in Ids(log) /\ both[j] \in Ids(ext)
      BY <2>3, <1>1, <1>2
    <3> QED  BY <3>1
  <2>4. CASE i \notin 1 .. Len(log) /\ j \in 1 .. Len(log)
    <3>1. both[j] \in Ids(log) /\ both[i] \in Ids(ext)
      BY <2>4, <1>1, <1>2
    <3> QED  BY <3>1
  <2> QED  BY <2>1, <2>2, <2>3, <2>4
<1>5. both \in Logs
  BY <1>1, <1>4 DEF Logs
<1>6. ASSUME NEW id, id \in Ids(ext)  PROVE PosIn(both, id) = Len(log) + PosIn(ext, id)
  <2>1. PosIn(ext, id) \in 1 .. Len(ext) /\ ext[PosIn(ext, id)] = id
    BY <1>6, PosInLog DEF Logs
  <2>2. /\ Len(log) + PosIn(ext, id) \in DOMAIN both
        /\ both[Len(log) + PosIn(ext, id)] = id
    BY <2>1, <1>1 DEF Logs
  <2> HIDE DEF both
  <2> QED  BY <2>2, <1>5, PosInIndex
<1>7. ASSUME NEW id, id \in Ids(log)  PROVE PosIn(both, id) = PosIn(log, id)
  <2>1. PosIn(log, id) \in 1 .. Len(log) /\ log[PosIn(log, id)] = id
    BY <1>7, PosInLog DEF Logs
  <2>2. PosIn(log, id) \in DOMAIN both /\ both[PosIn(log, id)] = id
    BY <2>1, <1>1 DEF Logs
  <2> HIDE DEF both
  <2> QED  BY <2>2, <1>5, PosInIndex
<1>8. ASSUME NEW id, id \notin Ids(both)  PROVE PosIn(both, id) = 0 /\ PosIn(log, id) = 0
  BY <1>8, <1>1, <1>3, PosInLog DEF Logs
<1> HIDE DEF both
<1>9. \A id : PosIn(both, id) =
                IF id \in Ids(ext) THEN Len(log) + PosIn(ext, id) ELSE PosIn(log, id)
  BY <1>3, <1>6, <1>7, <1>8, Zenon
<1> QED  BY <1>3, <1>5, <1>9, Zenon DEF both

-----------------------------------------------------------------------------
(* One batch of evidence: what applyEvidence does to each field. *)

(* The edge threshold is positive and at most the solid one, and Shade       *)
(* (refreshState) compares a count with the two.                             *)
LEMMA ThresholdValues ==
    /\ EdgeThreshold \in Nat /\ EdgeThreshold >= 1
    /\ SolidThreshold \in Nat /\ SolidThreshold >= EdgeThreshold
    /\ Shade(0) = "blank"
    /\ \A count \in Nat : /\ Shade(count) \in {"blank", "shaded", "solid"}
                          /\ Shade(count) # "blank" <=> count >= EdgeThreshold
                          /\ Shade(count) = "solid" <=> count >= SolidThreshold
<1>1. /\ EdgeThreshold \in Nat /\ EdgeThreshold >= 1
      /\ SolidThreshold \in Nat /\ SolidThreshold >= EdgeThreshold
  BY ReplicaCount DEF EdgeThreshold, SolidThreshold
<1> QED  BY <1>1 DEF Shade

(* The evidence states the engine can be in (EvidenceState of evidence.go). *)
States ==
    [fragmentSeq : Nat, batchCounter : Nat, head : [Replicas -> Logs], live : SUBSET Txs,
     pos : [Replicas -> [Txs -> Nat]], done : [Txs -> [fragment : Nat, batch : Nat]],
     visibility : [Txs -> Nat], weights : [Txs \X Txs -> Nat],
     states : [Txs -> {"blank", "shaded", "solid"}]]

(* The local orders of a batch. *)
Orders == [replica : Replicas, txs : Logs]

(* One order of each sender, which extends the log the state has of it.      *)
OneEach(batch) == \A o1, o2 \in batch : o1.replica = o2.replica => o1 = o2
Extending(state, batch) ==
    /\ batch \subseteq Orders /\ OneEach(batch)
    /\ \A order \in batch : Ids(state.head[order.replica]) \cap Ids(order.txs) = {}

(* Who sent the orders of a batch. *)
SendersOf(batch) == {order.replica : order \in batch}

(* A batch with one order of each sender has as many senders as orders. *)
LEMMA SendersCount ==
    ASSUME NEW batch, batch \subseteq Orders, OneEach(batch)
    PROVE  /\ IsFiniteSet(batch) /\ SendersOf(batch) \in SUBSET Replicas
           /\ Cardinality(batch) = Cardinality(SendersOf(batch))
<1> DEFINE f == [order \in batch |-> order.replica]
<1>1. SendersOf(batch) \in SUBSET Replicas
  BY DEF SendersOf, Orders
<1>2. /\ f \in [batch -> SendersOf(batch)]
      /\ \A a, b \in batch : f[a] = f[b] => a = b
      /\ \A r \in SendersOf(batch) : \E order \in batch : f[order] = r
  BY DEF SendersOf, OneEach
<1>3. f \in Injection(batch, SendersOf(batch)) /\ f \in Surjection(batch, SendersOf(batch))
  <2> HIDE DEF f
  <2>1. f \in Injection(batch, SendersOf(batch))
    BY <1>2 DEF Injection, IsInjective
  <2>2. f \in Surjection(batch, SendersOf(batch))
    BY <1>2, Zenon DEF Surjection
  <2> QED  BY <2>1, <2>2
<1>4. IsFiniteSet(SendersOf(batch))
  BY <1>1, SubsetCount
<1> HIDE DEF f
<1> QED  BY <1>1, <1>3, <1>4, FS_Injection

(* The orders of a batch that report an identifier for the first time, and   *)
(* those that add a reporter to the weight of a pair.                        *)
New(state, batch, id) == {order \in batch : id \in NewIds(state, order)}
Adding(state, batch, e) ==
    {order \in batch : e \in AddedPairs(Positions(state, order), NewIds(state, order))}

(* What ApplyEvidence does to the logs and positions, and to the counters.   *)
AppliedLogs(state, batch, after) ==
    /\ after.head \in [Replicas -> {after.head[r] : r \in Replicas}]
    /\ \A order \in batch :
        after.head[order.replica] = state.head[order.replica] \o order.txs
    /\ \A r \in Replicas \ SendersOf(batch) : after.head[r] = state.head[r]

(* The positions of the senders are replaced, those of the other replicas    *)
(* kept.                                                                     *)
AppliedPos(state, batch, after) ==
    /\ after.pos \in [Replicas -> {after.pos[r] : r \in Replicas}]
    /\ \A order \in batch : after.pos[order.replica] = Positions(state, order)
    /\ \A r \in Replicas \ SendersOf(batch) : after.pos[r] = state.pos[r]

(* Visibility, weights and states move by the number of orders that are      *)
(* new.                                                                      *)
AppliedCounts(state, batch, after) ==
    /\ after.visibility =
        [id \in Txs |-> state.visibility[id] + Cardinality(New(state, batch, id))]
    /\ after.weights =
        [e \in Txs \X Txs |-> state.weights[e] + Cardinality(Adding(state, batch, e))]
    /\ after.states =
        [id \in Txs |-> IF New(state, batch, id) # {} THEN Shade(after.visibility[id])
                        ELSE state.states[id]]

(* The number of the fragment moves on, and what is finalized stays. *)
AppliedRest(state, batch, after) ==
    /\ after.fragmentSeq = state.fragmentSeq + 1
    /\ after.batchCounter = state.batchCounter
    /\ after.done = state.done
    /\ after.live = state.live \cup UNION {NewIds(state, order) : order \in batch}

(* applyEvidence, one field of the state at a time: the facts the following  *)
(* proofs use instead of its definition.                                     *)
LEMMA AppliedFields ==
    ASSUME NEW state \in States, NEW batch, Extending(state, batch),
           NEW after, after = ApplyEvidence(state, batch).state
    PROVE  /\ AppliedLogs(state, batch, after) /\ AppliedPos(state, batch, after)
           /\ AppliedCounts(state, batch, after) /\ AppliedRest(state, batch, after)
           /\ after = [fragmentSeq |-> after.fragmentSeq, batchCounter |-> after.batchCounter,
                       head |-> after.head, live |-> after.live, pos |-> after.pos,
                       done |-> after.done, visibility |-> after.visibility,
                       weights |-> after.weights, states |-> after.states]
<1> DEFINE of(r) == CHOOSE order \in batch : order.replica = r
<1>1. \A order \in batch : order.replica \in Replicas /\ of(order.replica) = order
  BY DEF Extending, OneEach, Orders
<1>2. \A order \in batch : order.replica \in SendersOf(batch)
  BY DEF SendersOf
<1>3. /\ after.fragmentSeq = state.fragmentSeq + 1
      /\ after.batchCounter = state.batchCounter
      /\ after.done = state.done
      /\ after.live = state.live \cup UNION {NewIds(state, order) : order \in batch}
      /\ after.head = [r \in Replicas |-> IF r \in SendersOf(batch) THEN state.head[r] \o of(r).txs
                                         ELSE state.head[r]]
      /\ after.pos = [r \in Replicas |-> IF r \in SendersOf(batch) THEN Positions(state, of(r))
                                        ELSE state.pos[r]]
  BY DEF ApplyEvidence, States, SendersOf
<1>4. after.visibility = [id \in Txs |-> state.visibility[id] + Cardinality(New(state, batch, id))]
  BY DEF ApplyEvidence, States, New
<1>5. after.weights = [e \in Txs \X Txs |-> state.weights[e] + Cardinality(Adding(state, batch, e))]
  <2>1. after.weights = [e \in Txs \X Txs |-> state.weights[e] + Cardinality({order \in batch : 
                e \in [o \in batch |-> AddedPairs(Positions(state, o), NewIds(state, o))][order]})]
    BY DEF ApplyEvidence, States
  <2>2. \A e : {order \in batch : 
                e \in [o \in batch |-> AddedPairs(Positions(state, o), NewIds(state, o))][order]}
                = Adding(state, batch, e)
    BY DEF Adding
  <2> QED  BY <2>1, <2>2
<1>6. after.states = [id \in Txs |-> IF New(state, batch, id) # {} THEN Shade(after.visibility[id])
                                   ELSE state.states[id]]
  <2>1. after.states = [id \in Txs |-> IF id \in UNION {NewIds(state, order) : order \in batch}
                                      THEN Shade(after.visibility[id]) ELSE state.states[id]]
    <3>1. after.states = [id \in Txs |-> IF id \in UNION {NewIds(state, order) : order \in batch}
              THEN Shade([i \in Txs |-> state.visibility[i]
                            + Cardinality({order \in batch : i \in NewIds(state, order)})][id])
              ELSE state.states[id]]
      BY DEF ApplyEvidence, States
    <3> QED  BY <3>1, <1>4 DEF New
  <2>2. \A id : id \in UNION {NewIds(state, order) : order \in batch}
                <=> New(state, batch, id) # {}
    BY DEF New
  <2> QED  BY <2>1, <2>2, Zenon
<1>7. after = [fragmentSeq |-> after.fragmentSeq, batchCounter |-> after.batchCounter,
               head |-> after.head, live |-> after.live, pos |-> after.pos,
               done |-> after.done, visibility |-> after.visibility,
               weights |-> after.weights, states |-> after.states]
  BY DEF ApplyEvidence, States
<1> HIDE DEF of
<1>8. AppliedLogs(state, batch, after)
  <2>1. \A order \in batch : after.head[order.replica] = state.head[order.replica] \o order.txs
    BY <1>1, <1>2, <1>3
  <2>2. \A r \in Replicas \ SendersOf(batch) : after.head[r] = state.head[r]
    BY <1>3
  <2>3. after.head \in [Replicas -> {after.head[r] : r \in Replicas}]
    BY <1>3
  <2> QED  BY <2>1, <2>2, <2>3, Zenon DEF AppliedLogs
<1>9. AppliedPos(state, batch, after)
  BY <1>1, <1>2, <1>3 DEF AppliedPos
<1>10. AppliedCounts(state, batch, after)
  BY <1>4, <1>5, <1>6, Zenon DEF AppliedCounts
<1>11. AppliedRest(state, batch, after)
  BY <1>3, Zenon DEF AppliedRest
<1> QED  BY <1>7, <1>8, <1>9, <1>10, <1>11, Zenon

(* A live position lies in the log. *)
LEMMA LivePosType ==
    ASSUME NEW state, state.head \in [Replicas -> Logs], NEW r \in Replicas, NEW id
    PROVE  LivePos(state, r, id) \in Nat /\ LivePos(state, r, id) <= Len(state.head[r])
<1>1. state.head[r] \in Seq(Txs)
  BY DEF Logs
<1>2. PosIn(state.head[r], id) \in Nat /\ PosIn(state.head[r], id) <= Len(state.head[r])
  BY <1>1, PosInLog
<1> QED  BY <1>1, <1>2 DEF LivePos

(* A batch adds the positions of the identifiers it reports anew and keeps   *)
(* the others.                                                               *)
LEMMA AppliedPositions ==
    ASSUME NEW state \in States, NEW batch, Extending(state, batch),
           NEW after, AppliedLogs(state, batch, after), AppliedRest(state, batch, after)
    PROVE  /\ after.head \in [Replicas -> Logs] /\ Done(after) = Done(state)
           /\ \A order \in batch, id \in Txs :
                LivePos(after, order.replica, id) =
                    IF id \in NewIds(state, order)
                    THEN Len(state.head[order.replica]) + PosIn(order.txs, id)
                    ELSE LivePos(state, order.replica, id)
           /\ \A order \in batch : \A id \in NewIds(state, order) :
                /\ id \in Txs
                /\ LivePos(state, order.replica, id) = 0 /\ PosIn(order.txs, id) \in Nat \ {0}
           /\ \A r \in Replicas \ SendersOf(batch), id \in Txs :
                LivePos(after, r, id) = LivePos(state, r, id)
<1>1. Done(after) = Done(state)
  BY DEF Done, AppliedRest
<1>2. \A order \in batch :
        /\ order.replica \in Replicas /\ order.txs \in Logs
        /\ state.head[order.replica] \in Logs
        /\ Ids(state.head[order.replica]) \cap Ids(order.txs) = {}
        /\ after.head[order.replica] = state.head[order.replica] \o order.txs
  BY DEF AppliedLogs, Extending, Orders, States
<1>3. \A r \in Replicas \ SendersOf(batch) :
        after.head[r] = state.head[r] /\ state.head[r] \in Logs
  BY DEF AppliedLogs, States
<1>4. after.head = [r \in Replicas |-> after.head[r]]
  BY DEF AppliedLogs
<1>5. \A r \in Replicas : r \notin SendersOf(batch) \/ \E order \in batch : order.replica = r
  BY DEF SendersOf
<1>6. \A r \in Replicas : after.head[r] \in Logs
  <2>1. ASSUME NEW order \in batch  PROVE after.head[order.replica] \in Logs
    <3>1. state.head[order.replica] \o order.txs \in Logs
      BY <1>2, PosInExtension
    <3> QED  BY <3>1, <1>2
  <2> QED  BY <1>3, <1>5, <2>1
<1>7. ASSUME NEW order \in batch, NEW id \in Txs
      PROVE  /\ LivePos(after, order.replica, id) =
                    IF id \in NewIds(state, order)
                    THEN Len(state.head[order.replica]) + PosIn(order.txs, id)
                    ELSE LivePos(state, order.replica, id)
             /\ id \in NewIds(state, order) =>
                    /\ LivePos(state, order.replica, id) = 0
                    /\ PosIn(order.txs, id) \in Nat \ {0}
  <2> DEFINE log == state.head[order.replica]
             ext == order.txs
  <2>0. /\ log \in Logs /\ ext \in Logs /\ Ids(log) \cap Ids(ext) = {}
        /\ after.head[order.replica] = log \o ext
    BY <1>2
  <2> HIDE DEF log, ext
  <2>1. PosIn(after.head[order.replica], id) =
            IF id \in Ids(ext) THEN Len(log) + PosIn(ext, id) ELSE PosIn(log, id)
    <3>1. PosIn(log \o ext, id) =
            IF id \in Ids(ext) THEN Len(log) + PosIn(ext, id) ELSE PosIn(log, id)
      BY <2>0, PosInExtension
    <3> QED  BY <2>0, <3>1
  <2>2. id \in Ids(ext) => PosIn(ext, id) \in Nat \ {0} /\ PosIn(log, id) = 0
    <3>1. log \in Seq(Txs) /\ ext \in Seq(Txs)
      BY <2>0 DEF Logs
    <3>2. id \in Ids(ext) => id \notin Ids(log)
      BY <2>0
    <3> QED  BY <3>1, <3>2, PosInLog
  <2>3. CASE id \in Done(state)
    BY <2>3, <1>1 DEF LivePos, NewIds
  <2>4. CASE id \notin Done(state)
    BY <2>1, <2>2, <2>4, <1>1 DEF LivePos, NewIds, log, ext
  <2> QED  BY <2>3, <2>4
<1>8. \A order \in batch : NewIds(state, order) \subseteq Txs
  <2>1. \A log \in Logs : Ids(log) \subseteq Txs
    BY DEF Ids, Logs
  <2> QED  BY <1>2, <2>1 DEF NewIds
<1>9. \A r \in Replicas \ SendersOf(batch), id \in Txs :
            LivePos(after, r, id) = LivePos(state, r, id)
  BY <1>1, <1>3 DEF LivePos
<1>10. after.head \in [Replicas -> Logs]
  BY <1>4, <1>6
<1> QED  BY <1>1, <1>7, <1>8, <1>9, <1>10

(* The cached positions are those of the logs. *)
ExactPositions(state) ==
    \A r \in Replicas, id \in Txs : state.pos[r][id] = LivePos(state, r, id)

(* applyEvidence keeps the positions exact: first positions of late reports  *)
(* of finalized transactions are never entered.                              *)
LEMMA AppliedPosExact ==
    ASSUME NEW state \in States, NEW batch, Extending(state, batch),
           NEW after, AppliedLogs(state, batch, after), AppliedRest(state, batch, after),
           AppliedPos(state, batch, after), ExactPositions(state)
    PROVE  /\ after.pos \in [Replicas -> [Txs -> Nat]] /\ ExactPositions(after)
           /\ \A order \in batch, id \in Txs :
                Positions(state, order)[id] = LivePos(after, order.replica, id)
<1>1. ASSUME NEW order \in batch
      PROVE  /\ order.replica \in Replicas
             /\ Positions(state, order) =
                    [id \in Txs |-> LivePos(after, order.replica, id)]
  <2>1. order.replica \in Replicas
    BY DEF Extending, Orders
  <2>2. \A id \in Txs : id \in NewIds(state, order) => id \in Ids(order.txs)
    BY DEF NewIds
  <2>3. Positions(state, order) =
            [id \in Txs |-> IF id \in NewIds(state, order)
                            THEN Len(state.head[order.replica]) + PosIn(order.txs, id)
                            ELSE state.pos[order.replica][id]]
    BY <2>2 DEF Positions, PosIn
  <2>4. \A id \in Txs : state.pos[order.replica][id] = LivePos(state, order.replica, id)
    BY <2>1 DEF ExactPositions
  <2>5. \A id \in Txs : LivePos(after, order.replica, id) =
                            IF id \in NewIds(state, order)
                            THEN Len(state.head[order.replica]) + PosIn(order.txs, id)
                            ELSE LivePos(state, order.replica, id)
    BY AppliedPositions
  <2> QED  BY <2>1, <2>3, <2>4, <2>5
<1>2. \A order \in batch : after.pos[order.replica] = Positions(state, order)
  BY DEF AppliedPos
<1>3. ASSUME NEW r \in Replicas \ SendersOf(batch)
      PROVE  /\ after.pos[r] \in [Txs -> Nat]
             /\ \A id \in Txs : after.pos[r][id] = LivePos(after, r, id)
  <2>1. after.pos[r] = state.pos[r] /\ state.pos[r] \in [Txs -> Nat]
    BY DEF AppliedPos, States
  <2>2. \A id \in Txs : LivePos(after, r, id) = LivePos(state, r, id)
    BY AppliedPositions
  <2> QED  BY <2>1, <2>2 DEF ExactPositions
<1>4. \A r \in Replicas, id \in Txs : LivePos(after, r, id) \in Nat
  BY AppliedPositions, LivePosType
<1>5. \A r \in Replicas : r \in Replicas \ SendersOf(batch) \/ \E order \in batch : order.replica = r
  BY DEF SendersOf
<1>6. \A r \in Replicas : /\ after.pos[r] \in [Txs -> Nat]
                         /\ \A id \in Txs : after.pos[r][id] = LivePos(after, r, id)
  <2>1. \A order \in batch : /\ after.pos[order.replica] \in [Txs -> Nat]
                             /\ \A id \in Txs : after.pos[order.replica][id] =
                                                    LivePos(after, order.replica, id)
    BY <1>1, <1>2, <1>4
  <2> QED  BY <1>3, <1>5, <2>1
<1>7. after.pos = [r \in Replicas |-> after.pos[r]]
  BY DEF AppliedPos
<1> QED  BY <1>1, <1>6, <1>7 DEF ExactPositions

(* The sizes of disjoint sets of replicas add up. *)
LEMMA DisjointCount ==
    ASSUME NEW A \in SUBSET Replicas, NEW B \in SUBSET Replicas, A \cap B = {}
    PROVE  Cardinality(A \cup B) = Cardinality(A) + Cardinality(B)
<1>1. Cardinality(A \cup B) = Cardinality(A) + Cardinality(B) - Cardinality(A \cap B)
  BY SubsetCount, FS_Union
<1>2. Cardinality(A \cap B) = 0
  BY FS_EmptySet
<1>3. Cardinality(A) \in Nat /\ Cardinality(B) \in Nat
  BY SubsetCount
<1> QED  BY <1>1, <1>2, <1>3

(* Which orders of a batch a sender of part of it sent. *)
LEMMA SenderOfPart ==
    ASSUME NEW batch, batch \subseteq Orders, OneEach(batch), NEW part \in SUBSET batch
    PROVE  /\ \A order \in batch : order.replica \in SendersOf(part) <=> order \in part
           /\ SendersOf(part) \subseteq SendersOf(batch)
           /\ SendersOf(part) \in SUBSET Replicas
           /\ Cardinality(part) = Cardinality(SendersOf(part))
<1>1. part \subseteq Orders /\ OneEach(part)
  BY DEF OneEach
<1> QED  BY <1>1, SendersCount DEF SendersOf, OneEach

(* The reporters of an identifier grow by the senders that report it anew,   *)
(* none of which was counted before.                                         *)
LEMMA AppliedReporters ==
    ASSUME NEW state \in States, NEW batch, Extending(state, batch),
           NEW after, AppliedLogs(state, batch, after), AppliedRest(state, batch, after),
           NEW id \in Txs
    PROVE  /\ Reporters(after, id) = Reporters(state, id) \cup SendersOf(New(state, batch, id))
           /\ Cardinality(Reporters(after, id)) =
                Cardinality(Reporters(state, id)) + Cardinality(New(state, batch, id))
           /\ Cardinality(Reporters(state, id)) \in Nat
           /\ Cardinality(New(state, batch, id)) \in Nat
<1> DEFINE part == New(state, batch, id)
           old == Reporters(state, id)
<1>0. batch \subseteq Orders /\ OneEach(batch) /\ state.head \in [Replicas -> Logs]
  BY DEF Extending, States
<1>1. part \in SUBSET batch /\ \A order \in batch : order \in part <=> id \in NewIds(state, order)
  BY DEF New
<1>2. /\ \A order \in batch : order.replica \in SendersOf(part) <=> order \in part
      /\ SendersOf(part) \subseteq SendersOf(batch) /\ SendersOf(part) \in SUBSET Replicas
      /\ Cardinality(part) = Cardinality(SendersOf(part))
  <2> HIDE DEF part
  <2> QED  BY <1>0, <1>1, SenderOfPart
<1>3. ASSUME NEW r \in Replicas
      PROVE  /\ r \in Reporters(after, id) <=> r \in old \/ r \in SendersOf(part)
             /\ ~(r \in old /\ r \in SendersOf(part))
  <2>1. CASE r \notin SendersOf(batch)
    <3>1. LivePos(after, r, id) = LivePos(state, r, id)
      BY <2>1, AppliedPositions
    <3> QED  BY <3>1, <2>1, <1>2 DEF Reporters
  <2>2. ASSUME NEW order \in batch, r = order.replica, order \in part
        PROVE  r \notin old /\ r \in Reporters(after, id) /\ r \in SendersOf(part)
    <3>1. id \in NewIds(state, order)
      BY <1>1, <2>2
    <3>2. /\ LivePos(state, r, id) = 0 /\ PosIn(order.txs, id) \in Nat \ {0}
          /\ LivePos(after, r, id) = Len(state.head[r]) + PosIn(order.txs, id)
      BY <2>2, <3>1, AppliedPositions
    <3>3. Len(state.head[r]) \in Nat
      BY <1>0 DEF Logs
    <3> QED  BY <2>2, <3>2, <3>3, <1>2 DEF Reporters
  <2>3. ASSUME NEW order \in batch, r = order.replica, order \notin part
        PROVE  (r \in Reporters(after, id) <=> r \in old) /\ r \notin SendersOf(part)
    <3>1. id \notin NewIds(state, order)
      BY <1>1, <2>3
    <3>2. LivePos(after, r, id) = LivePos(state, r, id)
      BY <2>3, <3>1, AppliedPositions
    <3> QED  BY <2>3, <3>2, <1>2 DEF Reporters
  <2>4. r \in SendersOf(batch) => \E order \in batch : r = order.replica
    BY DEF SendersOf
  <2> HIDE DEF part, old
  <2> QED  BY <2>1, <2>2, <2>3, <2>4
<1>4. old \in SUBSET Replicas /\ Reporters(after, id) \in SUBSET Replicas
  BY DEF Reporters
<1> HIDE DEF part, old
<1>5. Reporters(after, id) = old \cup SendersOf(part) /\ old \cap SendersOf(part) = {}
  BY <1>2, <1>3, <1>4
<1>6. Cardinality(Reporters(after, id)) = Cardinality(old) + Cardinality(part)
  BY <1>2, <1>4, <1>5, DisjointCount
<1>7. Cardinality(old) \in Nat /\ Cardinality(part) \in Nat
  BY <1>2, <1>4, SubsetCount
<1> QED  BY <1>5, <1>6, <1>7 DEF part, old

(* The replicas that prefer u to v grow by the senders that add to the       *)
(* weight of the pair, none of which was counted before.                     *)
LEMMA AppliedPreferring ==
    ASSUME NEW state \in States, NEW batch, Extending(state, batch),
           NEW after, AppliedLogs(state, batch, after), AppliedRest(state, batch, after),
           AppliedPos(state, batch, after), ExactPositions(state),
           NEW u \in Txs, NEW v \in Txs
    PROVE  /\ Preferring(after, u, v) =
                Preferring(state, u, v) \cup SendersOf(Adding(state, batch, <<u, v>>))
           /\ Cardinality(Preferring(after, u, v)) =
                Cardinality(Preferring(state, u, v)) + Cardinality(Adding(state, batch, <<u, v>>))
           /\ Cardinality(Preferring(state, u, v)) \in Nat
           /\ Cardinality(Adding(state, batch, <<u, v>>)) \in Nat
<1> DEFINE part == Adding(state, batch, <<u, v>>)
           old == Preferring(state, u, v)
<1>0. batch \subseteq Orders /\ OneEach(batch) /\ state.head \in [Replicas -> Logs]
  BY DEF Extending, States
<1>1. /\ part \in SUBSET batch
      /\ \A order \in batch : order \in part <=>
            /\ 0 < LivePos(after, order.replica, u)
            /\ LivePos(after, order.replica, u) < LivePos(after, order.replica, v)
            /\ u \in NewIds(state, order) \/ v \in NewIds(state, order)
  <2>1. \A order \in batch, id \in Txs :
            Positions(state, order)[id] = LivePos(after, order.replica, id)
    BY AppliedPosExact
  <2>2. \A order \in batch : <<u, v>> \in AddedPairs(Positions(state, order), NewIds(state, order))
            <=> /\ 0 < Positions(state, order)[u]
                /\ Positions(state, order)[u] < Positions(state, order)[v]
                /\ u \in NewIds(state, order) \/ v \in NewIds(state, order)
    BY DEF AddedPairs
  <2> QED  BY <2>1, <2>2 DEF Adding
<1>2. /\ \A order \in batch : order.replica \in SendersOf(part) <=> order \in part
      /\ SendersOf(part) \subseteq SendersOf(batch) /\ SendersOf(part) \in SUBSET Replicas
      /\ Cardinality(part) = Cardinality(SendersOf(part))
  <2> HIDE DEF part
  <2> QED  BY <1>0, <1>1, SenderOfPart
<1>3. ASSUME NEW r \in Replicas
      PROVE  /\ r \in Preferring(after, u, v) <=> r \in old \/ r \in SendersOf(part)
             /\ ~(r \in old /\ r \in SendersOf(part))
  <2>0. /\ LivePos(state, r, u) \in Nat /\ LivePos(state, r, u) <= Len(state.head[r])
        /\ LivePos(state, r, v) \in Nat /\ LivePos(state, r, v) <= Len(state.head[r])
        /\ Len(state.head[r]) \in Nat
    BY <1>0, LivePosType DEF Logs
  <2>1. CASE r \notin SendersOf(batch)
    <3>1. LivePos(after, r, u) = LivePos(state, r, u) /\ LivePos(after, r, v) = LivePos(state, r, v)
      BY <2>1, AppliedPositions
    <3> QED  BY <3>1, <2>1, <1>2 DEF Preferring
  <2>2. ASSUME NEW order \in batch, r = order.replica
        PROVE  /\ r \in Preferring(after, u, v) <=> r \in old \/ r \in SendersOf(part)
               /\ ~(r \in old /\ r \in SendersOf(part))
    <3>1. /\ LivePos(after, r, u) = IF u \in NewIds(state, order)
                                    THEN Len(state.head[r]) + PosIn(order.txs, u)
                                    ELSE LivePos(state, r, u)
          /\ LivePos(after, r, v) = IF v \in NewIds(state, order)
                                    THEN Len(state.head[r]) + PosIn(order.txs, v)
                                    ELSE LivePos(state, r, v)
      BY <2>2, AppliedPositions
    <3>2. /\ u \in NewIds(state, order) =>
                LivePos(state, r, u) = 0 /\ PosIn(order.txs, u) \in Nat \ {0}
          /\ v \in NewIds(state, order) =>
                LivePos(state, r, v) = 0 /\ PosIn(order.txs, v) \in Nat \ {0}
      BY <2>2, AppliedPositions
    <3>3. r \in SendersOf(part) <=>
            /\ 0 < LivePos(after, r, u) /\ LivePos(after, r, u) < LivePos(after, r, v)
            /\ u \in NewIds(state, order) \/ v \in NewIds(state, order)
      BY <1>1, <1>2, <2>2
    <3>4. r \in Preferring(after, u, v) <=>
            0 < LivePos(after, r, u) /\ LivePos(after, r, u) < LivePos(after, r, v)
      BY DEF Preferring
    <3>5. r \in old <=> 0 < LivePos(state, r, u) /\ LivePos(state, r, u) < LivePos(state, r, v)
      BY DEF Preferring
    <3> HIDE DEF part, old
    <3>6. CASE u \in NewIds(state, order)
      BY <2>0, <3>1, <3>2, <3>3, <3>4, <3>5, <3>6
    <3>7. CASE u \notin NewIds(state, order)
      BY <2>0, <3>1, <3>2, <3>3, <3>4, <3>5, <3>7
    <3> QED  BY <3>6, <3>7
  <2>3. r \in SendersOf(batch) => \E order \in batch : r = order.replica
    BY DEF SendersOf
  <2> HIDE DEF part, old
  <2> QED  BY <2>1, <2>2, <2>3
<1>4. old \in SUBSET Replicas /\ Preferring(after, u, v) \in SUBSET Replicas
  BY DEF Preferring
<1> HIDE DEF part, old
<1>5. Preferring(after, u, v) = old \cup SendersOf(part) /\ old \cap SendersOf(part) = {}
  BY <1>2, <1>3, <1>4
<1>6. Cardinality(Preferring(after, u, v)) = Cardinality(old) + Cardinality(part)
  BY <1>2, <1>4, <1>5, DisjointCount
<1>7. Cardinality(old) \in Nat /\ Cardinality(part) \in Nat
  BY <1>2, <1>4, SubsetCount
<1> QED  BY <1>5, <1>6, <1>7 DEF part, old

-----------------------------------------------------------------------------
(* The caches of the evidence state are exact. *)

(* CachesExact of any state. *)
ExactCaches(state) ==
    /\ ExactPositions(state)
    /\ state.live = {id \in Txs : Reporters(state, id) # {}}
    /\ \A id \in Txs : state.visibility[id] = Cardinality(Reporters(state, id))
    /\ state.weights = WeightsOf(state)
    /\ state.states = StatesOf(state)

(* The counts are numbers, so weights and transaction states have their      *)
(* types.                                                                    *)
LEMMA CountTypes ==
    ASSUME NEW state
    PROVE  /\ \A id : Cardinality(Reporters(state, id)) \in Nat
           /\ \A u, v : Cardinality(Preferring(state, u, v)) \in Nat
           /\ WeightsOf(state) \in [Txs \X Txs -> Nat]
           /\ StatesOf(state) \in [Txs -> {"blank", "shaded", "solid"}]
<1>1. \A id : Cardinality(Reporters(state, id)) \in Nat
  <2>1. \A id : Reporters(state, id) \in SUBSET Replicas
    BY DEF Reporters
  <2> QED  BY <2>1, SubsetCount
<1>2. \A u, v : Cardinality(Preferring(state, u, v)) \in Nat
  <2>1. \A u, v : Preferring(state, u, v) \in SUBSET Replicas
    BY DEF Preferring
  <2> QED  BY <2>1, SubsetCount
<1> QED  BY <1>1, <1>2, ThresholdValues DEF WeightsOf, StatesOf

(* The incremental caches stay what a recount of the logs gives when         *)
(* applyEvidence applies a batch.                                            *)
THEOREM AppliedExact ==
    ASSUME NEW state \in States, NEW batch, Extending(state, batch),
           NEW after, after = ApplyEvidence(state, batch).state, ExactCaches(state)
    PROVE  after \in States /\ ExactCaches(after)
<1>0. /\ AppliedLogs(state, batch, after) /\ AppliedPos(state, batch, after)
      /\ AppliedCounts(state, batch, after) /\ AppliedRest(state, batch, after)
      /\ after = [fragmentSeq |-> after.fragmentSeq, batchCounter |-> after.batchCounter,
                  head |-> after.head, live |-> after.live, pos |-> after.pos,
                  done |-> after.done, visibility |-> after.visibility,
                  weights |-> after.weights, states |-> after.states]
  BY AppliedFields, Zenon
<1> USE <1>0
<1>1. ExactPositions(state)
  BY DEF ExactCaches
<1>2. /\ ExactPositions(after) /\ after.pos \in [Replicas -> [Txs -> Nat]]
      /\ after.head \in [Replicas -> Logs]
  BY <1>1, AppliedPosExact, AppliedPositions, Zenon
<1>3. \A id \in Txs :
        /\ Reporters(after, id) = Reporters(state, id) \cup SendersOf(New(state, batch, id))
        /\ Cardinality(Reporters(after, id)) =
                Cardinality(Reporters(state, id)) + Cardinality(New(state, batch, id))
        /\ Cardinality(Reporters(state, id)) \in Nat /\ Cardinality(New(state, batch, id)) \in Nat
  <2> TAKE id \in Txs
  <2> QED  BY AppliedReporters
<1>4. \A id \in Txs : after.visibility[id] = Cardinality(Reporters(after, id))
  <2>1. \A id \in Txs : state.visibility[id] = Cardinality(Reporters(state, id))
    BY Zenon DEF ExactCaches
  <2>2. \A id \in Txs : after.visibility[id] = state.visibility[id] + Cardinality(New(state, batch, id))
    BY DEF AppliedCounts
  <2> QED  BY <1>3, <2>1, <2>2, Zenon
<1>5. after.weights = WeightsOf(after)
  <2>1. after.weights =
            [e \in Txs \X Txs |-> state.weights[e] + Cardinality(Adding(state, batch, e))]
    BY Zenon DEF AppliedCounts
  <2>2. \A e \in Txs \X Txs : state.weights[e] = Cardinality(Preferring(state, e[1], e[2]))
    BY DEF ExactCaches, WeightsOf
  <2>3. ASSUME NEW e \in Txs \X Txs
        PROVE  Cardinality(Preferring(after, e[1], e[2])) =
                    Cardinality(Preferring(state, e[1], e[2])) + Cardinality(Adding(state, batch, e))
    <3>1. e = <<e[1], e[2]>> /\ e[1] \in Txs /\ e[2] \in Txs
      OBVIOUS
    <3>2. Cardinality(Preferring(after, e[1], e[2])) = Cardinality(Preferring(state, e[1], e[2]))
                                + Cardinality(Adding(state, batch, <<e[1], e[2]>>))
      BY <1>1, <3>1, AppliedPreferring
    <3> QED  BY <3>1, <3>2, Zenon
  <2> QED  BY <2>1, <2>2, <2>3 DEF WeightsOf
<1>6. after.live = {id \in Txs : Reporters(after, id) # {}}
  <2>1. after.live = state.live \cup UNION {NewIds(state, order) : order \in batch}
    BY DEF AppliedRest
  <2>2. state.live = {id \in Txs : Reporters(state, id) # {}}
    BY DEF ExactCaches
  <2>3. \A id : id \in UNION {NewIds(state, order) : order \in batch}
                <=> id \in Txs /\ SendersOf(New(state, batch, id)) # {}
    <3>1. \A order \in batch : NewIds(state, order) \subseteq Txs
      BY AppliedPositions
    <3> QED  BY <3>1 DEF SendersOf, New
  <2> QED  BY <1>3, <2>1, <2>2, <2>3
<1>7. after.states = StatesOf(after)
  <2>1. after.states = [id \in Txs |-> IF New(state, batch, id) # {} THEN Shade(after.visibility[id])
                                       ELSE state.states[id]]
    BY Zenon DEF AppliedCounts
  <2>2. ASSUME NEW id \in Txs, New(state, batch, id) = {}
        PROVE  state.states[id] = Shade(Cardinality(Reporters(after, id)))
    <3>1. SendersOf(New(state, batch, id)) = {}
      BY <2>2 DEF SendersOf
    <3>2. Reporters(after, id) = Reporters(state, id)
      BY <1>3, <3>1
    <3> QED  BY <3>2 DEF ExactCaches, StatesOf
  <2> QED  BY <1>4, <2>1, <2>2 DEF StatesOf
<1>8. ExactCaches(after)
  BY <1>2, <1>4, <1>5, <1>6, <1>7, Zenon DEF ExactCaches
<1>9. after \in States
  <2>1. after.weights \in [Txs \X Txs -> Nat] /\ after.states \in [Txs -> {"blank", "shaded", "solid"}]
    BY <1>5, <1>7, CountTypes
  <2>2. after.visibility \in [Txs -> Nat]
    <3>1. after.visibility = [id \in Txs |-> after.visibility[id]]
      BY DEF AppliedCounts
    <3>2. \A id \in Txs : after.visibility[id] \in Nat
      <4>1. \A id : Cardinality(Reporters(after, id)) \in Nat
        BY CountTypes
      <4> QED  BY <1>4, <4>1, Zenon
    <3> QED  BY <3>1, <3>2
  <2>3. /\ after.fragmentSeq \in Nat /\ after.batchCounter \in Nat
        /\ after.done \in [Txs -> [fragment : Nat, batch : Nat]]
    BY DEF AppliedRest, States
  <2>4. after.live \in SUBSET Txs
    BY <1>6
  <2> QED  BY <1>2, <2>1, <2>2, <2>3, <2>4 DEF States
<1> QED  BY <1>8, <1>9

(* What a sequence is, for leaves that need nothing else. *)
LEMMA SeqElements ==
    ASSUME NEW S, NEW seq \in Seq(S)
    PROVE  /\ DOMAIN seq = 1 .. Len(seq) /\ Len(seq) \in Nat
           /\ \A i \in DOMAIN seq : seq[i] \in S
OBVIOUS

(* Batches of transactions that continue the numbering. *)
Outputs(state, finalOrder) ==
    /\ finalOrder \in Seq([index : Nat, txs : Seq(Txs)])
    /\ \A i \in DOMAIN finalOrder : finalOrder[i].index = state.batchCounter + i

(* finalize empties exactly the caches of the transactions it outputs, and   *)
(* numbers them from the batch counter on.                                   *)
LEMMA FinalizedExact ==
    ASSUME NEW state \in States, ExactCaches(state), state.fragmentSeq > 0,
           NEW finalOrder, Outputs(state, finalOrder),
           NEW after, after = FinalizeState(state, finalOrder)
    PROVE  /\ after \in States /\ ExactCaches(after)
           /\ after.head = state.head /\ after.fragmentSeq = state.fragmentSeq
           /\ Done(after) = Done(state) \cup Output(finalOrder)
           /\ \A id \in Txs \ Output(finalOrder) : after.done[id] = state.done[id]
           /\ \A id \in Output(finalOrder) :
                \E i \in DOMAIN finalOrder :
                    /\ id \in Ids(finalOrder[i].txs)
                    /\ after.done[id] = [fragment |-> state.fragmentSeq,
                                         batch |-> state.batchCounter + i]
           /\ after.batchCounter = state.batchCounter + Len(finalOrder)
<1> DEFINE output == Output(finalOrder)
           batchOf(id) == CHOOSE b \in Ids(finalOrder) : id \in Ids(b.txs)
<1>0. /\ DOMAIN finalOrder = 1 .. Len(finalOrder) /\ Len(finalOrder) \in Nat
      /\ \A i \in DOMAIN finalOrder :
            /\ finalOrder[i].txs \in Seq(Txs) /\ finalOrder[i].index = state.batchCounter + i
            /\ i \in Nat
      /\ state.batchCounter \in Nat /\ state.fragmentSeq \in Nat
  <2>1. /\ DOMAIN finalOrder = 1 .. Len(finalOrder) /\ Len(finalOrder) \in Nat
        /\ \A i \in DOMAIN finalOrder : finalOrder[i] \in [index : Nat, txs : Seq(Txs)]
    <3>1. finalOrder \in Seq([index : Nat, txs : Seq(Txs)])
      BY DEF Outputs
    <3> QED  BY <3>1, SeqElements, Zenon
  <2>2. state.batchCounter \in Nat /\ state.fragmentSeq \in Nat
    BY DEF States
  <2>3. \A b \in [index : Nat, txs : Seq(Txs)] : b.txs \in Seq(Txs)
    OBVIOUS
  <2>4. \A i \in DOMAIN finalOrder : finalOrder[i].index = state.batchCounter + i
    BY DEF Outputs
  <2> QED  BY <2>1, <2>2, <2>3, <2>4
<1>1. output \subseteq Txs
  <2>1. \A i \in DOMAIN finalOrder : Ids(finalOrder[i].txs) \subseteq Txs
    BY <1>0 DEF Ids
  <2> QED  BY <2>1 DEF Output
<1>2. \A id \in output : \E i \in DOMAIN finalOrder :
        id \in Ids(finalOrder[i].txs) /\ batchOf(id) = finalOrder[i]
  <2>1. \A id \in output : \E b \in Ids(finalOrder) : id \in Ids(b.txs)
    BY DEF Output, Ids
  <2>2. \A id \in output : batchOf(id) \in Ids(finalOrder) /\ id \in Ids(batchOf(id).txs)
    BY <2>1
  <2>3. \A b \in Ids(finalOrder) : \E i \in DOMAIN finalOrder : b = finalOrder[i]
    BY DEF Ids
  <2> HIDE DEF output, batchOf
  <2> QED  BY <2>2, <2>3
<1>3. /\ after.head = state.head /\ after.fragmentSeq = state.fragmentSeq
      /\ after.live = state.live \ output
      /\ after.pos = [r \in Replicas |-> [id \in Txs |->
                        IF id \in output THEN 0 ELSE state.pos[r][id]]]
      /\ after.done = [id \in Txs |-> IF id \in output
                         THEN [fragment |-> state.fragmentSeq, batch |-> batchOf(id).index]
                         ELSE state.done[id]]
      /\ after.visibility = [id \in Txs |-> IF id \in output THEN 0 ELSE state.visibility[id]]
      /\ after.states = [id \in Txs |-> IF id \in output THEN "blank" ELSE state.states[id]]
      /\ after.weights = [e \in Txs \X Txs |->
                            IF e[1] \in output \/ e[2] \in output THEN 0 ELSE state.weights[e]]
  BY DEF FinalizeState, States
<1>4. after.batchCounter =
        IF finalOrder = <<>> THEN state.batchCounter ELSE finalOrder[Len(finalOrder)].index
  BY DEF FinalizeState, States
<1>5. after = [fragmentSeq |-> after.fragmentSeq, batchCounter |-> after.batchCounter,
               head |-> after.head, live |-> after.live, pos |-> after.pos,
               done |-> after.done, visibility |-> after.visibility,
               weights |-> after.weights, states |-> after.states]
  BY DEF FinalizeState, States
<1> HIDE DEF batchOf
<1>6. after.batchCounter = state.batchCounter + Len(finalOrder)
  BY <1>4 DEF Outputs, States
<1>7. \A id \in output : \E i \in DOMAIN finalOrder :
        /\ id \in Ids(finalOrder[i].txs)
        /\ after.done[id] = [fragment |-> state.fragmentSeq, batch |-> state.batchCounter + i]
  <2> SUFFICES ASSUME NEW id \in output
               PROVE  \E i \in DOMAIN finalOrder :
                        /\ id \in Ids(finalOrder[i].txs)
                        /\ after.done[id] = [fragment |-> state.fragmentSeq,
                                             batch |-> state.batchCounter + i]
    OBVIOUS
  <2> HIDE DEF output
  <2>1. PICK i \in DOMAIN finalOrder : id \in Ids(finalOrder[i].txs) /\ batchOf(id) = finalOrder[i]
    BY <1>2
  <2>2. after.done[id] = [fragment |-> state.fragmentSeq, batch |-> batchOf(id).index]
    BY <1>1, <1>3
  <2>3. batchOf(id).index = state.batchCounter + i
    BY <1>0, <2>1
  <2> QED  BY <2>1, <2>2, <2>3
<1>8. \A id \in Txs \ output : after.done[id] = state.done[id]
  <2> HIDE DEF output
  <2> QED  BY <1>3
<1> HIDE DEF output
<1>9. Done(after) = Done(state) \cup output
  <2>1. \A id \in output : after.done[id] # NotDone
    <3>1. \A id \in output : after.done[id].fragment = state.fragmentSeq
      BY <1>1, <1>3
    <3> QED  BY <1>0, <3>1 DEF NotDone
  <2> QED  BY <1>1, <1>8, <2>1 DEF Done
<1>10. \A r \in Replicas, id \in Txs :
        LivePos(after, r, id) = IF id \in output THEN 0 ELSE LivePos(state, r, id)
  BY <1>3, <1>9 DEF LivePos
<1>11. \A id \in Txs : Reporters(after, id) = IF id \in output THEN {} ELSE Reporters(state, id)
  BY <1>10 DEF Reporters
<1>12. \A u, v \in Txs : Preferring(after, u, v) =
        IF u \in output \/ v \in output THEN {} ELSE Preferring(state, u, v)
  <2>1. state.head \in [Replicas -> Logs]
    BY DEF States
  <2>2. \A r \in Replicas, id \in Txs : LivePos(state, r, id) \in Nat
    BY <2>1, LivePosType
  <2> QED  BY <1>10, <2>2 DEF Preferring
<1>13. Cardinality({}) = 0
  BY FS_EmptySet
<1>14. ExactPositions(after)
  BY <1>3, <1>10 DEF ExactCaches, ExactPositions
<1>15. after.live = {id \in Txs : Reporters(after, id) # {}}
  BY <1>3, <1>11 DEF ExactCaches
<1>16. \A id \in Txs : after.visibility[id] = Cardinality(Reporters(after, id))
  BY <1>3, <1>11, <1>13 DEF ExactCaches
<1>17. after.weights = WeightsOf(after)
  <2>1. \A e \in Txs \X Txs : after.weights[e] = Cardinality(Preferring(after, e[1], e[2]))
    <3>1. state.weights = [e \in Txs \X Txs |-> Cardinality(Preferring(state, e[1], e[2]))]
      BY Zenon DEF ExactCaches, WeightsOf
    <3> SUFFICES ASSUME NEW e \in Txs \X Txs
                 PROVE  after.weights[e] = Cardinality(Preferring(after, e[1], e[2]))
      OBVIOUS
    <3>2. e[1] \in Txs /\ e[2] \in Txs
      OBVIOUS
    <3>3. Preferring(after, e[1], e[2]) =
            IF e[1] \in output \/ e[2] \in output THEN {} ELSE Preferring(state, e[1], e[2])
      BY <1>12, <3>2
    <3>4. after.weights[e] = IF e[1] \in output \/ e[2] \in output THEN 0 ELSE state.weights[e]
      BY <1>3
    <3>5. state.weights[e] = Cardinality(Preferring(state, e[1], e[2]))
      BY <3>1
    <3> QED  BY <1>13, <3>3, <3>4, <3>5
  <2>2. after.weights = [e \in Txs \X Txs |-> after.weights[e]]
    BY <1>3
  <2> QED  BY <2>1, <2>2 DEF WeightsOf
<1>18. after.states = StatesOf(after)
  <2>1. \A id \in Txs : after.states[id] = Shade(Cardinality(Reporters(after, id)))
    <3>1. state.states = [id \in Txs |-> Shade(Cardinality(Reporters(state, id)))]
      BY Zenon DEF ExactCaches, StatesOf
    <3> SUFFICES ASSUME NEW id \in Txs
                 PROVE  after.states[id] = Shade(Cardinality(Reporters(after, id)))
      OBVIOUS
    <3>2. after.states[id] = IF id \in output THEN "blank" ELSE state.states[id]
      BY <1>3
    <3>3. Reporters(after, id) = IF id \in output THEN {} ELSE Reporters(state, id)
      BY <1>11
    <3>4. state.states[id] = Shade(Cardinality(Reporters(state, id)))
      BY <3>1
    <3> QED  BY <1>13, <3>2, <3>3, <3>4, ThresholdValues
  <2>2. after.states = [id \in Txs |-> after.states[id]]
    BY <1>3
  <2> QED  BY <2>1, <2>2 DEF StatesOf
<1>19. ExactCaches(after)
  BY <1>14, <1>15, <1>16, <1>17, <1>18, Zenon DEF ExactCaches
<1>20. after \in States
  <2>1. after.weights \in [Txs \X Txs -> Nat] /\ after.states \in [Txs -> {"blank", "shaded", "solid"}]
    BY <1>17, <1>18, CountTypes
  <2>2. after.visibility \in [Txs -> Nat]
    <3>1. after.visibility = [id \in Txs |-> after.visibility[id]]
      BY <1>3
    <3>2. \A id \in Txs : after.visibility[id] \in Nat
      <4>1. \A id : Cardinality(Reporters(after, id)) \in Nat
        BY CountTypes
      <4> QED  BY <1>16, <4>1, Zenon
    <3> QED  BY <3>1, <3>2
  <2>3. /\ after.fragmentSeq \in Nat /\ after.batchCounter \in Nat /\ after.live \in SUBSET Txs
        /\ after.head \in [Replicas -> Logs]
    BY <1>3, <1>6 DEF States, Outputs
  <2>4. after.pos \in [Replicas -> [Txs -> Nat]]
    BY <1>3 DEF States
  <2>5. after.done \in [Txs -> [fragment : Nat, batch : Nat]]
    <3>1. after.done = [id \in Txs |-> after.done[id]]
      BY <1>3
    <3>2. \A id \in Txs : after.done[id] \in [fragment : Nat, batch : Nat]
      <4>1. \A id \in output : after.done[id] \in [fragment : Nat, batch : Nat]
        <5>1. \A i \in DOMAIN finalOrder : state.batchCounter + i \in Nat
          BY <1>0
        <5>2. ASSUME NEW id \in output  PROVE after.done[id] \in [fragment : Nat, batch : Nat]
          <6>1. PICK i \in DOMAIN finalOrder :
                    after.done[id] = [fragment |-> state.fragmentSeq, batch |-> state.batchCounter + i]
            BY <1>7
          <6> QED  BY <1>0, <5>1, <6>1
        <5> QED  BY <5>2
      <4>2. \A id \in Txs : state.done[id] \in [fragment : Nat, batch : Nat]
        BY DEF States
      <4> QED  BY <1>8, <4>1, <4>2
    <3> QED  BY <3>1, <3>2
  <2> QED  BY <1>5, <2>1, <2>2, <2>3, <2>4, <2>5 DEF States
<1> QED  BY <1>3, <1>6, <1>7, <1>8, <1>9, <1>19, <1>20 DEF output

-----------------------------------------------------------------------------
(* The graph is exact: refresh and removeFinalized. *)

(* The nodes are the transactions enough replicas have reported. *)
LEMMA NodesByCount ==
    ASSUME NEW state
    PROVE  /\ NodesOf(state) = {id \in Txs : Cardinality(Reporters(state, id)) >= EdgeThreshold}
           /\ \A id \in NodesOf(state) : Reporters(state, id) # {}
<1>1. \A id : Cardinality(Reporters(state, id)) \in Nat
  BY CountTypes
<1>2. NodesOf(state) = {id \in Txs : Cardinality(Reporters(state, id)) >= EdgeThreshold}
  BY <1>1, ThresholdValues DEF NodesOf, StatesOf
<1>3. ASSUME NEW id \in NodesOf(state), Reporters(state, id) = {}  PROVE FALSE
  <2>1. Cardinality(Reporters(state, id)) = 0
    BY <1>3, FS_EmptySet
  <2> QED  BY <1>2, <2>1, ThresholdValues
<1> QED  BY <1>2, <1>3

(* Nobody prefers a transaction to itself. *)
LEMMA NoSelfEdge ==
    ASSUME NEW state, state.head \in [Replicas -> Logs], NEW id \in Txs
    PROVE  ~EdgePred(id, id, WeightsOf(state))
<1>1. Preferring(state, id, id) = {}
  BY LivePosType DEF Preferring
<1>2. WeightsOf(state)[<<id, id>>] = 0
  BY <1>1, FS_EmptySet DEF WeightsOf
<1> QED  BY <1>2, ThresholdValues DEF EdgePred

(* A pair with a touched transaction is among the pairs looked at. *)
LEMMA PairsWithBoth ==
    ASSUME NEW ids, NEW live, NEW u, NEW v, u # v, u \in live, v \in live, u \in ids \/ v \in ids
    PROVE  {u, v} \in PairsWith(ids, live)
<1>1. CASE u \in ids
  <2>1. <<u, v>> \in {p \in ids \X live : p[1] # p[2]}
    BY <1>1
  <2> QED  BY <2>1 DEF PairsWith
<1>2. CASE v \in ids
  <2>1. <<v, u>> \in {p \in ids \X live : p[1] # p[2]}
    BY <1>2
  <2>2. {v, u} \in PairsWith(ids, live)
    BY <2>1 DEF PairsWith
  <2>3. {u, v} = {v, u}
    OBVIOUS
  <2> QED  BY <2>2, <2>3
<1> QED  BY <1>1, <1>2

(* Looking at the touched pairs again is enough: elsewhere neither the nodes *)
(* nor the weights of a pair have changed.                                   *)
THEOREM RefreshedExact ==
    ASSUME NEW state \in States, NEW batch, Extending(state, batch), ExactCaches(state),
           NEW graph, Exact(graph, state),
           NEW applied, applied = ApplyEvidence(state, batch)
    PROVE  Exact(Refresh(graph, applied.state, applied.nodes, applied.pairs), applied.state)
<1> DEFINE after == applied.state
           touched == {id \in Txs : New(state, batch, id) # {}}
           added == {id \in applied.nodes : after.states[id] # "blank"} \ graph.nodes
           pairs == applied.pairs \cup PairsWith(added, after.live)
           result == Refresh(graph, after, applied.nodes, applied.pairs)
           weights == [e \in Txs \X Txs |->
                          IF Within(e, pairs) THEN after.weights[e] ELSE graph.weights[e]]
           fresh == {e \in result.nodes \X result.nodes :
                        Within(e, pairs) /\ EdgePred(e[1], e[2], weights)}
<1>1. /\ AppliedLogs(state, batch, after) /\ AppliedPos(state, batch, after)
      /\ AppliedCounts(state, batch, after) /\ AppliedRest(state, batch, after)
  BY AppliedFields, Zenon
<1>2. after \in States /\ ExactCaches(after) /\ ExactPositions(state)
  <2>1. after \in States /\ ExactCaches(after)
    BY AppliedExact, Zenon
  <2> QED  BY <2>1 DEF ExactCaches
<1>3. /\ result.nodes = graph.nodes \cup added
      /\ result.edges = {e \in graph.edges : ~Within(e, pairs)} \cup fresh
      /\ result.inverse = {e \in graph.inverse : ~Within(e, pairs)} \cup {<<e[2], e[1]>> : e \in fresh}
  BY DEF Refresh, Untouched
<1>4. applied.nodes = touched
  <2>1. applied.nodes = UNION {NewIds(state, order) : order \in batch}
    BY DEF ApplyEvidence
  <2>2. \A order \in batch : NewIds(state, order) \subseteq Txs
    BY <1>1, AppliedPositions
  <2> QED  BY <2>1, <2>2 DEF New
<1>5. \A u, v \in Txs : Adding(state, batch, <<u, v>>) # {} => {u, v} \in pairs /\ {v, u} \in pairs
  <2>1. \A order \in batch : \A e : e \in AddedPairs(Positions(state, order), NewIds(state, order))
            => {e[1], e[2]} \in applied.pairs
    BY DEF ApplyEvidence
  <2>2. \A u, v \in Txs : Adding(state, batch, <<u, v>>) # {} => {u, v} \in applied.pairs
    BY <2>1 DEF Adding
  <2>3. \A u, v : {u, v} = {v, u}
    OBVIOUS
  <2> QED  BY <2>2, <2>3
<1>6. /\ \A id \in Txs : /\ after.states[id] # "blank" <=> id \in NodesOf(after)
                         /\ after.states = StatesOf(after)
                         /\ Reporters(after, id) # {} <=> id \in after.live
                         /\ Reporters(state, id) \subseteq Reporters(after, id)
                         /\ id \notin touched => Reporters(after, id) = Reporters(state, id)
      /\ NodesOf(after) \subseteq after.live
  <2>1. after.states = StatesOf(after) /\ after.live = {id \in Txs : Reporters(after, id) # {}}
    BY <1>2, Zenon DEF ExactCaches
  <2>2. \A id \in Txs : Reporters(after, id) = Reporters(state, id) \cup SendersOf(New(state, batch, id))
    <3> TAKE id \in Txs
    <3> QED  BY <1>1, AppliedReporters
  <2>3. \A id \in Txs : id \notin touched => SendersOf(New(state, batch, id)) = {}
    BY DEF SendersOf
  <2>4. \A id \in Txs : after.states[id] # "blank" <=> id \in NodesOf(after)
    BY <2>1 DEF NodesOf
  <2>5. NodesOf(after) \subseteq after.live
    BY <2>1, NodesByCount
  <2> HIDE DEF after, touched
  <2> QED  BY <2>1, <2>2, <2>3, <2>4, <2>5
<1>7. graph.nodes = NodesOf(state)
  BY DEF Exact
<1>8. result.nodes = NodesOf(after)
  <2>1. \A id \in Txs : id \in NodesOf(state) => id \in NodesOf(after)
    <3> SUFFICES ASSUME NEW id \in Txs, id \in NodesOf(state)  PROVE id \in NodesOf(after)
      OBVIOUS
    <3>1. Cardinality(Reporters(state, id)) <= Cardinality(Reporters(after, id))
      <4>1. Reporters(after, id) \in SUBSET Replicas
        BY DEF Reporters
      <4> QED  BY <1>6, <4>1, SubsetCount
    <3>2. Cardinality(Reporters(state, id)) \in Nat /\ Cardinality(Reporters(after, id)) \in Nat
      BY CountTypes
    <3> HIDE DEF after
    <3> QED  BY <3>1, <3>2, NodesByCount, ThresholdValues
  <2>2. \A id \in Txs : id \notin touched => (id \in NodesOf(after) <=> id \in NodesOf(state))
    <3> HIDE DEF after, touched
    <3> QED  BY <1>6, NodesByCount
  <2>3. NodesOf(after) \subseteq Txs /\ NodesOf(state) \subseteq Txs /\ touched \subseteq Txs
    BY DEF NodesOf
  <2>4. added = {id \in touched : id \in NodesOf(after)} \ NodesOf(state)
    <3> HIDE DEF after, touched
    <3> QED  BY <1>4, <1>6, <1>7, <2>3
  <2> HIDE DEF after, touched, added, result
  <2> QED  BY <1>3, <1>7, <2>1, <2>2, <2>3, <2>4
<1>9. added = NodesOf(after) \ NodesOf(state)
  <2>1. added \cap graph.nodes = {}
    OBVIOUS
  <2> HIDE DEF after, added, result
  <2> QED  BY <1>3, <1>7, <1>8, <2>1
<1>10. \A u, v \in Txs : {u, v} \notin pairs =>
            /\ WeightsOf(after)[<<u, v>>] = WeightsOf(state)[<<u, v>>]
            /\ WeightsOf(after)[<<v, u>>] = WeightsOf(state)[<<v, u>>]
  <2>1. ASSUME NEW u \in Txs, NEW v \in Txs, {u, v} \notin pairs
        PROVE  WeightsOf(after)[<<u, v>>] = WeightsOf(state)[<<u, v>>]
    <3>1. Adding(state, batch, <<u, v>>) = {}
      BY <1>5, <2>1
    <3>2. /\ Cardinality(Preferring(after, u, v)) =
                Cardinality(Preferring(state, u, v)) + Cardinality(Adding(state, batch, <<u, v>>))
          /\ Cardinality(Preferring(state, u, v)) \in Nat
      BY <1>1, <1>2, AppliedPreferring
    <3>3. Cardinality({}) = 0
      BY FS_EmptySet
    <3>4. Cardinality(Preferring(after, u, v)) = Cardinality(Preferring(state, u, v))
      <4> HIDE DEF after
      <4> QED  BY <3>1, <3>2, <3>3
    <3> HIDE DEF after
    <3> QED  BY <3>4 DEF WeightsOf
  <2>2. \A u, v : {u, v} = {v, u}
    OBVIOUS
  <2> HIDE DEF after, pairs
  <2> QED  BY <2>1, <2>2
<1>11. \A u, v \in NodesOf(after) : u # v /\ {u, v} \notin pairs =>
            u \in NodesOf(state) /\ v \in NodesOf(state)
  <2> SUFFICES ASSUME NEW u \in NodesOf(after), NEW v \in NodesOf(after), u # v,
                      u \in added \/ v \in added
               PROVE  {u, v} \in PairsWith(added, after.live)
    <3> HIDE DEF after, added
    <3> QED  BY <1>9
  <2> HIDE DEF after, added
  <2> QED  BY <1>6, PairsWithBoth
<1>12. fresh = {e \in EdgesOf(after) : Within(e, pairs)}
  <2>1. \A u, v \in Txs : {u, v} \in pairs =>
            (EdgePred(u, v, weights) <=> EdgePred(u, v, WeightsOf(after)))
    <3>1. after.weights = WeightsOf(after)
      BY <1>2, Zenon DEF ExactCaches
    <3>2. \A u, v \in Txs : {u, v} \in pairs => weights[<<u, v>>] = WeightsOf(after)[<<u, v>>]
      <4> HIDE DEF after, pairs
      <4> QED  BY <3>1 DEF Within
    <3>3. \A u, v : {u, v} = {v, u}
      OBVIOUS
    <3> HIDE DEF after, pairs, weights
    <3> QED  BY <3>2, <3>3 DEF EdgePred
  <2>2. after.head \in [Replicas -> Logs]
    BY <1>2 DEF States
  <2>3. \A id \in Txs : ~EdgePred(id, id, WeightsOf(after))
    BY <2>2, NoSelfEdge
  <2>4. NodesOf(after) \subseteq Txs
    BY DEF NodesOf
  <2>5. \A e \in NodesOf(after) \X NodesOf(after) :
            e \in fresh <=> Within(e, pairs) /\ EdgePred(e[1], e[2], WeightsOf(after))
    <3>1. \A e \in NodesOf(after) \X NodesOf(after) :
            e \in fresh <=> Within(e, pairs) /\ EdgePred(e[1], e[2], weights)
      BY <1>8, Zenon
    <3> HIDE DEF after, pairs, weights, fresh
    <3> QED  BY <2>1, <2>4, <3>1 DEF Within
  <2>6. \A e \in NodesOf(after) \X NodesOf(after) :
            e \in EdgesOf(after) <=> EdgePred(e[1], e[2], WeightsOf(after))
    <3> HIDE DEF after
    <3> QED  BY <2>3, <2>4 DEF EdgesOf
  <2>7. fresh \subseteq NodesOf(after) \X NodesOf(after) /\ EdgesOf(after) \subseteq NodesOf(after) \X NodesOf(after)
    <3>1. fresh \subseteq NodesOf(after) \X NodesOf(after)
      BY <1>8, Zenon
    <3>2. EdgesOf(after) \subseteq NodesOf(after) \X NodesOf(after)
      BY DEF EdgesOf
    <3> QED  BY <3>1, <3>2
  <2> HIDE DEF after, pairs, weights, fresh
  <2> QED  BY <2>5, <2>6, <2>7
<1>13. {e \in graph.edges : ~Within(e, pairs)} = {e \in EdgesOf(after) : ~Within(e, pairs)}
  <2>1. graph.edges = EdgesOf(state)
    BY DEF Exact
  <2>2. \A id \in Txs : id \in NodesOf(state) => id \in NodesOf(after)
    BY <1>3, <1>7, <1>8
  <2>3. NodesOf(after) \subseteq Txs /\ NodesOf(state) \subseteq Txs
    BY DEF NodesOf
  <2>4. \A u, v \in Txs : {u, v} \notin pairs => (<<u, v>> \in EdgesOf(state) <=> <<u, v>> \in EdgesOf(after))
    <3> SUFFICES ASSUME NEW u \in Txs, NEW v \in Txs, {u, v} \notin pairs
                 PROVE  <<u, v>> \in EdgesOf(state) <=> <<u, v>> \in EdgesOf(after)
      OBVIOUS
    <3>1. EdgePred(u, v, WeightsOf(after)) <=> EdgePred(u, v, WeightsOf(state))
      <4> HIDE DEF after, pairs
      <4> QED  BY <1>10 DEF EdgePred
    <3>2. \A s : <<u, v>> \in EdgesOf(s) <=>
            /\ u \in NodesOf(s) /\ v \in NodesOf(s) /\ u # v /\ EdgePred(u, v, WeightsOf(s))
      BY DEF EdgesOf
    <3> HIDE DEF after, pairs
    <3> QED  BY <1>11, <2>2, <3>1, <3>2
  <2>5. \A s : EdgesOf(s) \subseteq Txs \X Txs
    BY DEF EdgesOf, NodesOf
  <2>6. \A e \in Txs \X Txs : e = <<e[1], e[2]>> /\ e[1] \in Txs /\ e[2] \in Txs
    OBVIOUS
  <2>7. \A e \in Txs \X Txs : ~Within(e, pairs) => (e \in EdgesOf(state) <=> e \in EdgesOf(after))
    <3> SUFFICES ASSUME NEW e \in Txs \X Txs, {e[1], e[2]} \notin pairs
                 PROVE  e \in EdgesOf(state) <=> e \in EdgesOf(after)
      BY Zenon DEF Within
    <3> HIDE DEF after, pairs
    <3>1. <<e[1], e[2]>> \in EdgesOf(state) <=> <<e[1], e[2]>> \in EdgesOf(after)
      BY <2>4, <2>6
    <3> QED  BY <2>6, <3>1, Zenon
  <2> HIDE DEF after, pairs
  <2> QED  BY <2>1, <2>5, <2>7
<1>14. result.edges = EdgesOf(after)
  <2> HIDE DEF after, pairs, fresh, result
  <2> QED  BY <1>3, <1>12, <1>13
<1>15. result.inverse = {<<e[2], e[1]>> : e \in result.edges}
  <2>1. graph.inverse = {<<e[2], e[1]>> : e \in graph.edges} /\ graph.edges = EdgesOf(state)
    BY DEF Exact
  <2>2. \A e \in graph.edges : Within(<<e[2], e[1]>>, pairs) <=> Within(e, pairs)
    <3>1. \A u, v : {u, v} = {v, u}
      OBVIOUS
    <3> HIDE DEF pairs
    <3> QED  BY <3>1 DEF Within
  <2>3. {e \in graph.inverse : ~Within(e, pairs)} =
            {<<e[2], e[1]>> : e \in {d \in graph.edges : ~Within(d, pairs)}}
    <3> HIDE DEF pairs
    <3> QED  BY <2>1, <2>2
  <2> HIDE DEF after, pairs, fresh, result
  <2> QED  BY <1>3, <2>3
<1> HIDE DEF result, after
<1>16. Exact(result, after)
  BY <1>8, <1>14, <1>15 DEF Exact
<1> QED  BY <1>16 DEF result, after

(* The same logs with more transactions finalized. *)
Finalizes(state, output, after) ==
    after.head = state.head /\ output \in SUBSET Txs /\ Done(after) = Done(state) \cup output

(* Without the output, the graph the evidence defines is what is left of it.  *)
LEMMA FinalizedGraph ==
    ASSUME NEW state, NEW after, NEW output, Finalizes(state, output, after)
    PROVE  /\ NodesOf(after) = NodesOf(state) \ output
           /\ EdgesOf(after) = {e \in EdgesOf(state) : e[1] \notin output /\ e[2] \notin output}
           /\ \A id \in Txs \ output : StatesOf(after)[id] = StatesOf(state)[id]
           /\ \A id \in output : StatesOf(after)[id] = "blank"
<1>1. after.head = state.head /\ output \in SUBSET Txs /\ Done(after) = Done(state) \cup output
  BY DEF Finalizes
<1> USE <1>1
<1>5. \A r \in Replicas, id \in Txs :
        LivePos(after, r, id) = IF id \in output THEN 0 ELSE LivePos(state, r, id)
  BY DEF LivePos
<1>6. \A id \in Txs : Reporters(after, id) = IF id \in output THEN {} ELSE Reporters(state, id)
  BY <1>5 DEF Reporters
<1>7. \A u, v \in Txs \ output : Preferring(after, u, v) = Preferring(state, u, v)
  BY <1>5 DEF Preferring
<1>8. NodesOf(after) = NodesOf(state) \ output
  BY <1>6, NodesByCount
<1>9. \A u, v \in Txs \ output : EdgePred(u, v, WeightsOf(after)) <=> EdgePred(u, v, WeightsOf(state))
  <2>1. \A u, v \in Txs \ output : WeightsOf(after)[<<u, v>>] = WeightsOf(state)[<<u, v>>]
    BY <1>7 DEF WeightsOf
  <2> QED  BY <2>1 DEF EdgePred
<1>10. EdgesOf(after) = {e \in EdgesOf(state) : e[1] \notin output /\ e[2] \notin output}
  BY <1>8, <1>9 DEF EdgesOf, NodesOf
<1>11. \A id \in Txs \ output : StatesOf(after)[id] = StatesOf(state)[id]
  BY <1>6 DEF StatesOf
<1>12. \A id \in output : StatesOf(after)[id] = "blank"
  BY <1>6, FS_EmptySet, ThresholdValues DEF StatesOf
<1> QED  BY <1>8, <1>10, <1>11, <1>12

(* removeFinalized leaves the graph that the finalized state defines. *)
LEMMA RemovedExact ==
    ASSUME NEW state \in States, ExactCaches(state), state.fragmentSeq > 0,
           NEW finalOrder, Outputs(state, finalOrder),
           NEW graph, Exact(graph, state)
    PROVE  Exact(RemoveFinalized(graph, Output(finalOrder)), FinalizeState(state, finalOrder))
<1> DEFINE output == Output(finalOrder)
           after == FinalizeState(state, finalOrder)
           result == RemoveFinalized(graph, output)
<1>1. /\ after \in States /\ after.head = state.head /\ Done(after) = Done(state) \cup output
  BY FinalizedExact
<1>2. /\ result.nodes = graph.nodes \ output
      /\ result.edges = {e \in graph.edges : e[1] \notin output
                            /\ ~(e[2] \in output /\ <<e[2], e[1]>> \in graph.inverse)}
      /\ result.inverse = {e \in graph.inverse : e[1] \notin output
                            /\ ~(e[2] \in output /\ <<e[2], e[1]>> \in graph.edges)}
  BY DEF RemoveFinalized
<1>3. /\ graph.nodes = NodesOf(state) /\ graph.edges = EdgesOf(state)
      /\ graph.inverse = {<<e[2], e[1]>> : e \in graph.edges}
  BY DEF Exact
<1>4. output \in SUBSET Txs
  <2>1. \A i \in DOMAIN finalOrder : Ids(finalOrder[i].txs) \subseteq Txs
    <3> TAKE i \in DOMAIN finalOrder
    <3>1. finalOrder[i] \in [index : Nat, txs : Seq(Txs)]
      BY SeqElements DEF Outputs
    <3>2. finalOrder[i].txs \in Seq(Txs)
      BY <3>1
    <3> QED  BY <3>2 DEF Ids
  <2> QED  BY <2>1 DEF Output
<1> HIDE DEF output, after, result
<1>10. /\ NodesOf(after) = NodesOf(state) \ output
       /\ EdgesOf(after) = {e \in EdgesOf(state) : e[1] \notin output /\ e[2] \notin output}
  <2>1. Finalizes(state, output, after)
    BY <1>1, <1>4 DEF Finalizes
  <2> QED  BY <2>1, FinalizedGraph
<1>11. \A e \in EdgesOf(state) : <<e[2], e[1]>> \in graph.inverse /\ e = <<e[1], e[2]>>
  BY <1>3 DEF EdgesOf
<1>12. result.edges = EdgesOf(after)
  BY <1>2, <1>3, <1>10, <1>11
<1>13. result.inverse = {<<e[2], e[1]>> : e \in result.edges}
  BY <1>2, <1>3, <1>11
<1>14. Exact(result, after)
  BY <1>2, <1>3, <1>10, <1>12, <1>13 DEF Exact
<1> QED  BY <1>14 DEF output, after, result

-----------------------------------------------------------------------------
(* Numbers, and the iterates of a step function. *)

(* A set of natural numbers has a least member. *)
LEMMA LeastNumber ==
    ASSUME NEW A \in SUBSET Nat, A # {}
    PROVE  \E m \in A : \A k \in A : m <= k
<1> DEFINE R == OpToRel(<, Nat)
<1>1. IsWellFoundedOn(R, Nat)
  BY NatLessThanWellFounded
<1>2. \E m \in A : \A k \in A : <<k, m>> \notin R
  <2> HIDE DEF R
  <2> QED  BY <1>1, WFMin, Zenon
<1>3. \A k, m \in Nat : <<k, m>> \notin R => m <= k
  BY DEF OpToRel
<1>4. \A k \in A : k \in Nat
  OBVIOUS
<1> HIDE DEF R
<1> QED  BY <1>2, <1>3, <1>4, Zenon

(* Induction up to a bound, stated about a set: this needs no operator for   *)
(* a parameter.                                                              *)
LEMMA UpTo ==
    ASSUME NEW n \in Nat, NEW A, 0 \in A, \A k \in 1 .. n : k - 1 \in A => k \in A
    PROVE  0 .. n \subseteq A
<1> SUFFICES ASSUME (0 .. n) \ A # {} PROVE FALSE
  OBVIOUS
<1>1. PICK m \in (0 .. n) \ A : \A k \in (0 .. n) \ A : m <= k
  <2> (0 .. n) \ A \in SUBSET Nat
    OBVIOUS
  <2> QED  BY LeastNumber
<1>2. m \in 1 .. n /\ m - 1 \in 0 .. n /\ ~(m <= m - 1)
  BY <1>1
<1> QED  BY <1>1, <1>2

(* The iterates of a step function. *)
Iterates(f, n, S, base, step) ==
    /\ f \in [0 .. n -> S] /\ f[0] = base
    /\ \A k \in 1 .. n : f[k] = step[<<k, f[k - 1]>>]

(* A step function can be iterated: the function that a bounded recursion    *)
(* defines exists.                                                           *)
LEMMA IteratesExist ==
    ASSUME NEW n \in Nat, NEW S, NEW base \in S, NEW step \in [(1 .. n) \X S -> S]
    PROVE  \E f : Iterates(f, n, S, base, step)
<1> DEFINE A == {m \in 0 .. n : \E f : Iterates(f, m, S, base, step)}
<1>1. 0 \in A
  <2>1. Iterates([k \in 0 .. 0 |-> base], 0, S, base, step)
    BY DEF Iterates
  <2> QED  BY <2>1
<1>2. ASSUME NEW k \in 1 .. n, k - 1 \in A PROVE k \in A
  <2>1. PICK f : Iterates(f, k - 1, S, base, step)
    BY <1>2
  <2>2. /\ f \in [0 .. k - 1 -> S] /\ f[0] = base
        /\ \A j \in 1 .. k - 1 : f[j] = step[<<j, f[j - 1]>>]
    BY <2>1 DEF Iterates
  <2>3. f[k - 1] \in S /\ step[<<k, f[k - 1]>>] \in S
    BY <2>2
  <2> DEFINE g == [j \in 0 .. k |-> IF j = k THEN step[<<k, f[k - 1]>>] ELSE f[j]]
  <2>4. g \in [0 .. k -> S] /\ g[0] = base
    BY <2>2, <2>3
  <2>5. ASSUME NEW j \in 1 .. k  PROVE g[j] = step[<<j, g[j - 1]>>]
    <3>0. j - 1 \in 0 .. k /\ j - 1 # k /\ g[j - 1] = f[j - 1]
      OBVIOUS
    <3>1. CASE j = k
      BY <3>0, <3>1
    <3>2. CASE j # k
      <4>1. j \in 1 .. k - 1 /\ g[j] = f[j]
        BY <3>2
      <4> HIDE DEF g
      <4> QED  BY <2>2, <3>0, <4>1
    <3> QED  BY <3>1, <3>2
  <2>6. Iterates(g, k, S, base, step)
    <3> HIDE DEF g
    <3> QED  BY <2>4, <2>5 DEF Iterates
  <2> HIDE DEF g
  <2> QED  BY <2>6
<1>3. n \in A
  <2> HIDE DEF A
  <2>1. 0 .. n \subseteq A
    BY <1>1, <1>2, UpTo
  <2> QED  BY <2>1
<1> QED  BY <1>3

-----------------------------------------------------------------------------
(* Reachability. *)

(* The members of a set below one of them. *)
Smaller(ids, x) == {y \in ids : y < x}

Increasing(seq) == \A i, j \in DOMAIN seq : i < j => seq[i] < seq[j]

(* Sorted lists the members of a finite set of identifiers in their order. *)
LEMMA SortedProperties ==
    ASSUME NEW ids \in SUBSET Nat, IsFiniteSet(ids)
    PROVE  /\ Sorted(ids) \in [1 .. Cardinality(ids) -> ids] /\ Sorted(ids) \in Seq(ids)
           /\ Cardinality(ids) \in Nat /\ Len(Sorted(ids)) = Cardinality(ids)
           /\ Ids(Sorted(ids)) = ids /\ Increasing(Sorted(ids))
<1> DEFINE n == Cardinality(ids)
           rank(x) == Cardinality(Smaller(ids, x))
           f == [x \in ids |-> rank(x) + 1]
<1>1. n \in Nat
  BY FS_CardinalityType
<1>2. ASSUME NEW x \in ids  PROVE rank(x) \in Nat /\ rank(x) + 1 \in 1 .. n
  <2>1. Smaller(ids, x) \in SUBSET (ids \ {x})
    BY DEF Smaller
  <2>2. IsFiniteSet(ids \ {x}) /\ Cardinality(ids \ {x}) = n - 1
    BY FS_RemoveElement
  <2>3. IsFiniteSet(Smaller(ids, x)) /\ Cardinality(Smaller(ids, x)) <= n - 1
    BY <2>1, <2>2, FS_Subset
  <2>4. Cardinality(Smaller(ids, x)) \in Nat
    BY <2>3, FS_CardinalityType
  <2> QED  BY <1>1, <2>3, <2>4
<1>3. ASSUME NEW x \in ids, NEW y \in ids, x < y  PROVE rank(x) < rank(y)
  <2>1. Smaller(ids, x) \cup {x} \in SUBSET Smaller(ids, y) /\ x \notin Smaller(ids, x)
    <3>1. \A z \in ids : z < x => z < y
      BY <1>3
    <3>2. ~(x < x)
      BY <1>3
    <3> QED  BY <1>3, <3>1, <3>2 DEF Smaller
  <2>2. Smaller(ids, y) \in SUBSET ids /\ Smaller(ids, x) \in SUBSET ids
    BY DEF Smaller
  <2>3. IsFiniteSet(Smaller(ids, y)) /\ IsFiniteSet(Smaller(ids, x))
    BY <2>2, FS_Subset
  <2>4. Cardinality(Smaller(ids, x) \cup {x}) = Cardinality(Smaller(ids, x)) + 1
    BY <2>1, <2>3, FS_AddElement
  <2>5. Cardinality(Smaller(ids, x) \cup {x}) <= Cardinality(Smaller(ids, y))
    BY <2>1, <2>3, FS_Subset
  <2>6. rank(x) \in Nat /\ rank(y) \in Nat
    BY <1>2
  <2> QED  BY <2>4, <2>5, <2>6
<1> HIDE DEF rank
<1>4. \A x, y \in ids : rank(x) = rank(y) => x = y
  <2>1. \A x, y \in ids : x < y \/ y < x \/ x = y
    OBVIOUS
  <2> QED  BY <1>2, <1>3, <2>1
<1>5. f \in Injection(ids, 1 .. n)
  <2>1. f \in [ids -> 1 .. n] /\ \A x, y \in ids : f[x] = f[y] => x = y
    BY <1>1, <1>2, <1>4
  <2> HIDE DEF f
  <2> QED  BY <2>1 DEF Injection, IsInjective
<1>6. f \in Surjection(ids, 1 .. n)
  <2>1. IsFiniteSet(1 .. n) /\ Cardinality(1 .. n) = n
    BY <1>1, FS_Interval
  <2> HIDE DEF f
  <2> QED  BY <1>5, <2>1, FS_Injection
<1>7. \A i \in 1 .. n : \E x \in ids : rank(x) = i - 1
  <2>1. \A i \in 1 .. n : \E x \in ids : f[x] = i
    <3> HIDE DEF f
    <3> QED  BY <1>6 DEF Surjection
  <2> QED  BY <1>2, <2>1
<1>8. Sorted(ids) = [i \in 1 .. n |-> CHOOSE x \in ids : rank(x) = i - 1]
  BY DEF Sorted, rank, Smaller
<1>9. \A i \in 1 .. n : Sorted(ids)[i] \in ids /\ rank(Sorted(ids)[i]) = i - 1
  BY <1>7, <1>8
<1>10. Sorted(ids) \in [1 .. n -> ids]
  BY <1>8, <1>9
<1>11. \A x \in ids : \E i \in 1 .. n : Sorted(ids)[i] = x
  <2> SUFFICES ASSUME NEW x \in ids  PROVE Sorted(ids)[rank(x) + 1] = x /\ rank(x) + 1 \in 1 .. n
    OBVIOUS
  <2>1. rank(x) + 1 \in 1 .. n /\ rank(x) \in Nat
    BY <1>2
  <2>2. rank(Sorted(ids)[rank(x) + 1]) = rank(x) /\ Sorted(ids)[rank(x) + 1] \in ids
    BY <1>9, <2>1
  <2> QED  BY <1>4, <2>1, <2>2
<1>12. Sorted(ids) \in Seq(ids) /\ Len(Sorted(ids)) = n
  BY <1>1, <1>10
<1>13. Ids(Sorted(ids)) = ids
  BY <1>9, <1>10, <1>11 DEF Ids
<1>14. Increasing(Sorted(ids))
  <2> SUFFICES ASSUME NEW i \in 1 .. n, NEW j \in 1 .. n, i < j
               PROVE  Sorted(ids)[i] < Sorted(ids)[j]
    BY <1>10 DEF Increasing
  <2>1. /\ Sorted(ids)[i] \in ids /\ rank(Sorted(ids)[i]) = i - 1
        /\ Sorted(ids)[j] \in ids /\ rank(Sorted(ids)[j]) = j - 1
    BY <1>9
  <2> DEFINE x == Sorted(ids)[i]
             y == Sorted(ids)[j]
  <2>2. x \in ids /\ y \in ids /\ rank(x) = i - 1 /\ rank(y) = j - 1
    BY <2>1
  <2> HIDE DEF x, y
  <2>3. y < x => rank(y) < rank(x)
    BY <1>3, <2>2
  <2>4. x \in Nat /\ y \in Nat /\ x # y
    BY <2>2
  <2>5. ~(y < x)
    BY <2>2, <2>3
  <2>6. x < y
    BY <2>4, <2>5
  <2> QED  BY <2>6 DEF x, y
<1> QED  BY <1>1, <1>10, <1>12, <1>13, <1>14

(* What is reached once paths may go through x. *)
Via(reached, x) ==
    reached \cup {e \in Txs \X Txs : <<e[1], x>> \in reached /\ <<x, e[2]>> \in reached}

(* The recursion of Reachability, as the sequence of its steps. *)
LEMMA ReachabilitySteps ==
    ASSUME NEW edges \in SUBSET (Txs \X Txs)
    PROVE  \E through \in [0 .. Len(TxSeq) -> SUBSET (Txs \X Txs)] :
                /\ through[0] = edges \cup {<<id, id>> : id \in Txs}
                /\ \A k \in 1 .. Len(TxSeq) : through[k] = Via(through[k - 1], TxSeq[k])
                /\ Reachability(edges) = through[Len(TxSeq)]
                /\ Len(TxSeq) \in Nat
<1> DEFINE n == Len(TxSeq)
           S == SUBSET (Txs \X Txs)
           base == edges \cup {<<id, id>> : id \in Txs}
           step == [p \in (1 .. n) \X S |-> Via(p[2], TxSeq[p[1]])]
           eqn(f) == f = [k \in 0 .. n |->
                IF k = 0 THEN edges \cup {<<id, id>> : id \in Txs}
                ELSE f[k-1] \cup
                     {e \in Txs \X Txs : /\ <<e[1], TxSeq[k]>> \in f[k-1]
                                         /\ <<TxSeq[k], e[2]>> \in f[k-1]}]
           through == CHOOSE f : eqn(f)
<1>1. n \in Nat
  BY TxAssumption, SortedProperties DEF TxSeq
<1>2. base \in S /\ step \in [(1 .. n) \X S -> S]
  BY DEF Via
<1>3. PICK f : Iterates(f, n, S, base, step)
  <2> HIDE DEF n, S, base, step
  <2> QED  BY <1>1, <1>2, IteratesExist
<1>4. f \in [0 .. n -> S] /\ f[0] = base /\ \A k \in 1 .. n : f[k] = Via(f[k - 1], TxSeq[k])
  <2>1. /\ f \in [0 .. n -> S] /\ f[0] = base
        /\ \A k \in 1 .. n : f[k] = step[<<k, f[k - 1]>>]
    BY <1>3, Zenon DEF Iterates
  <2>2. \A k \in 1 .. n : k - 1 \in 0 .. n
    BY <1>1
  <2>3. ASSUME NEW k \in 1 .. n  PROVE f[k] = Via(f[k - 1], TxSeq[k])
    <3>1. f[k - 1] \in S
      <4> HIDE DEF S, n
      <4> QED  BY <2>1, <2>2
    <3> QED  BY <2>1, <3>1
  <2> QED  BY <2>1, <2>3
<1>5. eqn(f)
  <2>1. f = [k \in 0 .. n |-> IF k = 0 THEN base ELSE Via(f[k - 1], TxSeq[k])]
    <3> HIDE DEF S, base
    <3> QED  BY <1>1, <1>4
  <2> QED  BY <2>1, Zenon DEF Via
<1>6. eqn(through)
  <2> HIDE DEF eqn
  <2> QED  BY <1>5, Zenon
<1>7. through = [k \in 0 .. n |-> IF k = 0 THEN base ELSE Via(through[k - 1], TxSeq[k])]
  <2> HIDE DEF through, n
  <2> QED  BY <1>6, Zenon DEF Via
<1>8. /\ through[0] = base /\ \A k \in 1 .. n : through[k] = Via(through[k - 1], TxSeq[k])
  <2> HIDE DEF through, n, base
  <2> QED  BY <1>1, <1>7
<1>9. \A k \in 0 .. n : through[k] \in S
  <2> DEFINE A == {k \in 0 .. n : through[k] \in S}
  <2>1. 0 \in A
    <3> HIDE DEF through, n, base, S
    <3> QED  BY <1>1, <1>2, <1>8
  <2>2. ASSUME NEW k \in 1 .. n, k - 1 \in A  PROVE k \in A
    <3>1. \A x, y : x \in S => Via(x, y) \in S
      BY DEF Via
    <3> HIDE DEF through, n, base, S
    <3> QED  BY <1>1, <1>8, <2>2, <3>1
  <2>3. 0 .. n \subseteq A
    <3> HIDE DEF A, n
    <3> QED  BY <1>1, <2>1, <2>2, UpTo
  <2> HIDE DEF through, n, S
  <2> QED  BY <2>3
<1>10. through \in [0 .. n -> S]
  <2> HIDE DEF through, n, S, base
  <2> QED  BY <1>7, <1>9
<1>11. Reachability(edges) = through[n]
  BY DEF Reachability
<1> HIDE DEF through
<1> QED BY <1>1, <1>8, <1>10, <1>11

(* What two edges join at x the relation joins directly. *)
ClosedAt(reached, x) ==
    \A a, b \in Txs : <<a, x>> \in reached /\ <<x, b>> \in reached => <<a, b>> \in reached

(* A step of the algorithm closes the relation at one more vertex. *)
LEMMA ViaCloses ==
    ASSUME NEW reached \in SUBSET (Txs \X Txs), NEW x \in Txs
    PROVE  /\ reached \subseteq Via(reached, x) /\ Via(reached, x) \in SUBSET (Txs \X Txs)
           /\ ClosedAt(Via(reached, x), x)
           /\ \A y \in Txs : ClosedAt(reached, y) => ClosedAt(Via(reached, x), y)
<1>1. \A a, b \in Txs : <<a, b>> \in Via(reached, x) <=>
        <<a, b>> \in reached \/ (<<a, x>> \in reached /\ <<x, b>> \in reached)
  BY DEF Via
<1>2. reached \subseteq Via(reached, x) /\ Via(reached, x) \in SUBSET (Txs \X Txs)
  BY DEF Via
<1>3. ClosedAt(Via(reached, x), x)
  BY <1>1 DEF ClosedAt
<1>4. ASSUME NEW y \in Txs, ClosedAt(reached, y)  PROVE ClosedAt(Via(reached, x), y)
  BY <1>1, <1>4 DEF ClosedAt
<1> QED  BY <1>2, <1>3, <1>4

(* The relation is transitive on the transactions. *)
Transitive(relation) ==
    \A a, b, c \in Txs : <<a, b>> \in relation /\ <<b, c>> \in relation => <<a, c>> \in relation

(* Reachability is the least reflexive and transitive relation over edges.   *)
THEOREM ReachabilityLeast ==
    ASSUME NEW edges \in SUBSET (Txs \X Txs)
    PROVE  /\ Reachability(edges) \in SUBSET (Txs \X Txs) /\ edges \subseteq Reachability(edges)
           /\ \A id \in Txs : <<id, id>> \in Reachability(edges)
           /\ Transitive(Reachability(edges))
           /\ \A Q : edges \subseteq Q /\ (\A id \in Txs : <<id, id>> \in Q) /\ Transitive(Q)
                        => Reachability(edges) \subseteq Q
<1> DEFINE n == Len(TxSeq)
           base == edges \cup {<<id, id>> : id \in Txs}
<1>1. PICK t \in [0 .. n -> SUBSET (Txs \X Txs)] :
        /\ t[0] = base
        /\ \A k \in 1 .. n : t[k] = Via(t[k - 1], TxSeq[k])
        /\ Reachability(edges) = t[n]
        /\ n \in Nat
  BY ReachabilitySteps
<1>2. TxSeq \in [1 .. n -> Txs] /\ Ids(TxSeq) = Txs
  BY TxAssumption, SortedProperties DEF TxSeq
<1> HIDE DEF n, base
<1>3. \A k \in 0 .. n : t[k] \in SUBSET (Txs \X Txs)
  BY <1>1
<1>4. \A k \in 1 .. n : k - 1 \in 0 .. n /\ k - 1 \in Nat /\ TxSeq[k] \in Txs
  BY <1>1, <1>2
<1> DEFINE A == {k \in 0 .. n : base \subseteq t[k] /\ \A j \in 1 .. k : ClosedAt(t[k], TxSeq[j])}
<1>5. 0 \in A
  BY <1>1
<1>6. ASSUME NEW k \in 1 .. n, k - 1 \in A  PROVE k \in A
  <2>1. /\ t[k] = Via(t[k - 1], TxSeq[k]) /\ t[k - 1] \in SUBSET (Txs \X Txs) /\ TxSeq[k] \in Txs
    BY <1>1, <1>3, <1>4
  <2>2. base \subseteq t[k - 1] /\ \A j \in 1 .. k - 1 : ClosedAt(t[k - 1], TxSeq[j])
    BY <1>6
  <2>3. base \subseteq t[k]
    <3>1. t[k - 1] \subseteq Via(t[k - 1], TxSeq[k])
      BY <2>1, ViaCloses
    <3> QED  BY <2>1, <2>2, <3>1
  <2>4. ASSUME NEW j \in 1 .. k  PROVE ClosedAt(t[k], TxSeq[j])
    <3>1. TxSeq[j] \in Txs
      BY <1>1, <1>2
    <3>2. CASE j = k
      BY <2>1, <3>2, ViaCloses
    <3>3. CASE j # k
      <4>1. j \in 1 .. k - 1
        BY <3>3
      <4> QED  BY <2>1, <2>2, <3>1, <4>1, ViaCloses
    <3> QED  BY <3>2, <3>3
  <2> QED  BY <2>3, <2>4
<1>7. n \in A
  <2> HIDE DEF A
  <2>1. 0 .. n \subseteq A
    BY <1>1, <1>5, <1>6, UpTo
  <2> QED  BY <1>1, <2>1
<1>8. base \subseteq t[n] /\ \A x \in Txs : ClosedAt(t[n], x)
  <2>1. base \subseteq t[n] /\ \A j \in 1 .. n : ClosedAt(t[n], TxSeq[j])
    BY <1>7
  <2>2. \A x \in Txs : \E j \in 1 .. n : TxSeq[j] = x
    BY <1>2 DEF Ids
  <2> QED  BY <2>1, <2>2
<1>9. Transitive(t[n])
  BY <1>8 DEF Transitive, ClosedAt
<1>10. ASSUME NEW Q, edges \subseteq Q, \A id \in Txs : <<id, id>> \in Q, Transitive(Q)
       PROVE  t[n] \subseteq Q
  <2> DEFINE B == {k \in 0 .. n : t[k] \subseteq Q}
  <2>1. 0 \in B
    BY <1>1, <1>10 DEF base
  <2>2. ASSUME NEW k \in 1 .. n, k - 1 \in B  PROVE k \in B
    <3>1. /\ t[k] = Via(t[k - 1], TxSeq[k]) /\ t[k - 1] \in SUBSET (Txs \X Txs) /\ TxSeq[k] \in Txs
      BY <1>1, <1>3, <1>4
    <3>2. t[k - 1] \subseteq Q
      BY <2>2
    <3>3. \A e \in Via(t[k - 1], TxSeq[k]) : e \in Q
      <4> SUFFICES ASSUME NEW e \in Txs \X Txs, <<e[1], TxSeq[k]>> \in t[k - 1],
                          <<TxSeq[k], e[2]>> \in t[k - 1]
                   PROVE  e \in Q
        BY <3>2 DEF Via
      <4>1. <<e[1], e[2]>> \in Q
        BY <1>10, <3>1, <3>2 DEF Transitive
      <4> QED  BY <4>1
    <3> QED  BY <3>1, <3>3
  <2>3. 0 .. n \subseteq B
    <3> HIDE DEF B
    <3> QED  BY <1>1, <2>1, <2>2, UpTo
  <2> QED  BY <1>1, <2>3
<1>11. t[n] \in SUBSET (Txs \X Txs)
  BY <1>1, <1>3
<1>12. edges \subseteq t[n] /\ \A id \in Txs : <<id, id>> \in t[n]
  BY <1>8 DEF base
<1> QED  BY <1>1, <1>9, <1>10, <1>11, <1>12

-----------------------------------------------------------------------------
(* Components and the condensation. *)

(* The leader's graph, its components and its condensation. *)
IsGraph(graph) == graph.nodes \in SUBSET Txs /\ graph.edges \in SUBSET (graph.nodes \X graph.nodes)
GraphComponents(graph) == Components(graph.nodes, graph.edges)
GraphCondensation(graph) == Condensation(GraphComponents(graph), graph.edges)

(* Components partition the nodes into the classes of mutual reachability. *)
LEMMA ComponentFacts ==
    ASSUME NEW graph, IsGraph(graph)
    PROVE  /\ IsFiniteSet(GraphComponents(graph))
           /\ GraphComponents(graph) \subseteq SUBSET graph.nodes
           /\ GraphComponents(graph) \subseteq SUBSET Txs
           /\ \A c \in GraphComponents(graph) : c # {}
           /\ \A u \in graph.nodes : \E c \in GraphComponents(graph) : u \in c
           /\ \A c \in GraphComponents(graph) : \A u \in c, v \in graph.nodes :
                v \in c <=> <<u, v>> \in Reachability(graph.edges) /\ <<v, u>> \in Reachability(graph.edges)
           /\ \A c, d \in GraphComponents(graph) : \A u : u \in c /\ u \in d => c = d
           /\ \A c, d \in GraphComponents(graph) : \A u \in c, v \in d :
                <<u, v>> \in graph.edges /\ c # d => <<c, d>> \in GraphCondensation(graph)
<1> DEFINE nodes == graph.nodes
           edges == graph.edges
<1>0. nodes \in SUBSET Txs /\ edges \in SUBSET (nodes \X nodes)
  BY DEF IsGraph
<1> HIDE DEF nodes, edges
<1> DEFINE reach == Reachability(edges)
           class(u) == {v \in nodes : <<u, v>> \in reach /\ <<v, u>> \in reach}
<1>1. edges \in SUBSET (Txs \X Txs)
  BY <1>0
<1>2. /\ \A id \in nodes : <<id, id>> \in reach
      /\ \A a, b, c \in nodes : <<a, b>> \in reach /\ <<b, c>> \in reach => <<a, c>> \in reach
  BY <1>0, <1>1, ReachabilityLeast DEF Transitive
<1>3. GraphComponents(graph) = {class(u) : u \in nodes}
  BY DEF Components, GraphComponents, nodes, edges
<1> HIDE DEF reach
<1>4. IsFiniteSet({class(u) : u \in nodes})
  <2>1. IsFiniteSet(nodes)
    BY <1>0, TxAssumption, FS_Subset
  <2>2. IsFiniteSet(SUBSET nodes)
    BY <2>1, FS_SUBSET
  <2>3. {class(u) : u \in nodes} \in SUBSET SUBSET nodes
    OBVIOUS
  <2> QED  BY <2>2, <2>3, FS_Subset
<1>5. ASSUME NEW u \in nodes, NEW v \in nodes  PROVE v \in class(u) => class(u) = class(v)
  BY <1>2
<1>6. /\ {class(u) : u \in nodes} \subseteq SUBSET nodes
      /\ \A c \in {class(u) : u \in nodes} : c # {}
      /\ \A u \in nodes : u \in class(u)
  BY <1>2
<1>7. \A c \in {class(u) : u \in nodes} : \A u \in c : c = class(u)
  <2> SUFFICES ASSUME NEW w \in nodes, NEW u \in class(w)  PROVE class(w) = class(u)
    OBVIOUS
  <2>1. u \in nodes
    OBVIOUS
  <2> HIDE DEF class
  <2> QED  BY <1>5, <2>1
<1>8. \A c \in {class(u) : u \in nodes} : \A u \in c, v \in nodes :
        v \in c <=> <<u, v>> \in reach /\ <<v, u>> \in reach
  <2> TAKE c \in {class(u) : u \in nodes}
  <2> TAKE u \in c, v \in nodes
  <2>1. c = class(u)
    BY <1>7
  <2>2. v \in class(u) <=> <<u, v>> \in reach /\ <<v, u>> \in reach
    OBVIOUS
  <2> HIDE DEF class
  <2> QED  BY <2>1, <2>2, Zenon
<1>9. \A c, d \in {class(u) : u \in nodes} : \A u : u \in c /\ u \in d => c = d
  <2> HIDE DEF class
  <2> QED  BY <1>7, Zenon
<1>10. \A u \in nodes : \E c \in {class(x) : x \in nodes} : u \in c
  <2>1. \A u \in nodes : u \in class(u) /\ class(u) \in {class(x) : x \in nodes}
    BY <1>6
  <2> HIDE DEF class
  <2> QED  BY <2>1, Zenon
<1>11. {class(u) : u \in nodes} \subseteq SUBSET Txs
  BY <1>0
<1>12. \A c, d \in GraphComponents(graph) : \A u \in c, v \in d :
        <<u, v>> \in edges /\ c # d => <<c, d>> \in GraphCondensation(graph)
  BY DEF GraphCondensation, Condensation, edges
<1> HIDE DEF class
<1>13. LET C == GraphComponents(graph)
       IN  /\ IsFiniteSet(C) /\ C \subseteq SUBSET nodes /\ C \subseteq SUBSET Txs
           /\ \A c \in C : c # {}
           /\ \A u \in nodes : \E c \in C : u \in c
           /\ \A c \in C : \A u \in c, v \in nodes :
                v \in c <=> <<u, v>> \in reach /\ <<v, u>> \in reach
           /\ \A c, d \in C : \A u : u \in c /\ u \in d => c = d
  BY <1>3, <1>4, <1>6, <1>8, <1>9, <1>10, <1>11, Zenon
<1> QED  BY <1>12, <1>13, Zenon DEF reach, nodes, edges

(* Among any components one has no predecessor: the condensation is acyclic. *)
LEMMA CondensationAcyclic ==
    ASSUME NEW graph, IsGraph(graph), NEW S \in SUBSET GraphComponents(graph), S # {}
    PROVE  \E c \in S : \A d \in S : <<d, c>> \notin GraphCondensation(graph)
<1> DEFINE nodes == graph.nodes
           edges == graph.edges
<1>0. nodes \in SUBSET Txs /\ edges \in SUBSET (nodes \X nodes)
  BY DEF IsGraph
<1> DEFINE reach == Reachability(edges)
           C == GraphComponents(graph)
           above(c) == {x \in nodes : \E u \in c : <<x, u>> \in reach}
           sizes == {Cardinality(above(c)) : c \in S}
<1>1. edges \in SUBSET (Txs \X Txs)
  BY <1>0
<1>2. /\ edges \subseteq reach /\ \A id \in nodes : <<id, id>> \in reach
      /\ \A a, b, c \in nodes : <<a, b>> \in reach /\ <<b, c>> \in reach => <<a, c>> \in reach
  BY <1>0, <1>1, ReachabilityLeast DEF Transitive
<1>3. /\ C \subseteq SUBSET nodes /\ \A c \in C : c # {}
      /\ \A c \in C : \A u \in c, v \in nodes : v \in c <=> <<u, v>> \in reach /\ <<v, u>> \in reach
      /\ \A c, d \in C : \A u : u \in c /\ u \in d => c = d
  BY ComponentFacts
<1> HIDE DEF reach, C, nodes, edges
<1>4. IsFiniteSet(nodes)
  BY <1>0, TxAssumption, FS_Subset
<1>5. \A c : above(c) \in SUBSET nodes /\ IsFiniteSet(above(c)) /\ Cardinality(above(c)) \in Nat
  <2> SUFFICES ASSUME NEW c
               PROVE above(c) \in SUBSET nodes /\ IsFiniteSet(above(c)) /\ Cardinality(above(c)) \in Nat
    OBVIOUS
  <2>1. above(c) \in SUBSET nodes
    OBVIOUS
  <2> HIDE DEF above
  <2> QED  BY <1>4, <2>1, FS_Subset, FS_CardinalityType
<1>6. PICK m \in sizes : \A k \in sizes : m <= k
  <2>1. sizes \in SUBSET Nat /\ sizes # {}
    <3> HIDE DEF above
    <3> QED  BY <1>5
  <2> HIDE DEF sizes
  <2> QED  BY <2>1, LeastNumber
<1>7. PICK c \in S : m = Cardinality(above(c))
  OBVIOUS
<1>8. ASSUME NEW d \in S, <<d, c>> \in Condensation(C, edges)  PROVE FALSE
  <2>1. c \in C /\ d \in C /\ c # d /\ \E e \in edges : e[1] \in d /\ e[2] \in c
    BY <1>8 DEF Condensation
  <2>2. PICK e \in edges : e[1] \in d /\ e[2] \in c
    BY <2>1
  <2>3. /\ e[1] \in nodes /\ e[2] \in nodes /\ <<e[1], e[2]>> \in reach
        /\ c \subseteq nodes /\ d \subseteq nodes
    <3>1. e = <<e[1], e[2]>> /\ e[1] \in nodes /\ e[2] \in nodes /\ e \in reach
      BY <1>0, <1>2, <2>2
    <3> QED  BY <1>3, <2>1, <3>1
  <2>10. \A u \in d : u \in nodes /\ <<u, e[1]>> \in reach
    <3> TAKE u \in d
    <3>1. u \in nodes
      BY <2>3
    <3>2. e[1] \in d <=> <<u, e[1]>> \in reach /\ <<e[1], u>> \in reach
      BY <1>3, <2>1, <2>3
    <3> QED  BY <2>2, <3>1, <3>2
  <2>4. above(d) \subseteq above(c)
    <3> SUFFICES ASSUME NEW x \in nodes, NEW u \in d, <<x, u>> \in reach
                 PROVE  <<x, e[2]>> \in reach
      BY <2>2
    <3>1. u \in nodes /\ <<u, e[1]>> \in reach
      BY <2>2, <2>3, <2>10
    <3>2. <<x, e[1]>> \in reach
      BY <1>2, <2>3, <3>1
    <3> QED  BY <1>2, <2>3, <3>2
  <2>5. e[2] \in above(c)
    BY <1>2, <2>2, <2>3
  <2>6. e[2] \notin above(d)
    <3> SUFFICES ASSUME NEW u \in d, <<e[2], u>> \in reach  PROVE FALSE
      OBVIOUS
    <3>1. u \in nodes /\ <<u, e[1]>> \in reach
      BY <2>2, <2>3, <2>10
    <3>2. <<e[2], e[1]>> \in reach
      BY <1>2, <2>3, <3>1
    <3>3. e[2] \in d
      BY <1>3, <2>1, <2>2, <2>3, <3>2
    <3> QED  BY <1>3, <2>1, <2>2, <3>3
  <2>7. Cardinality(above(d)) < Cardinality(above(c))
    <3>1. above(d) \cup {e[2]} \in SUBSET above(c)
      <4> HIDE DEF above
      <4> QED  BY <2>4, <2>5
    <3>2. Cardinality(above(d) \cup {e[2]}) = Cardinality(above(d)) + 1
      <4> HIDE DEF above
      <4> QED  BY <1>5, <2>6, FS_AddElement
    <3>3. Cardinality(above(d) \cup {e[2]}) <= Cardinality(above(c))
      <4> HIDE DEF above
      <4> QED  BY <1>5, <3>1, FS_Subset
    <3>4. Cardinality(above(d)) \in Nat /\ Cardinality(above(c)) \in Nat
      BY <1>5, Zenon
    <3> HIDE DEF above
    <3> QED  BY <3>2, <3>3, <3>4
  <2>8. m <= Cardinality(above(d))
    <3> HIDE DEF above
    <3> QED  BY <1>6
  <2>9. Cardinality(above(d)) \in Nat /\ Cardinality(above(c)) \in Nat
    BY <1>5, Zenon
  <2> HIDE DEF above
  <2> QED  BY <1>7, <2>7, <2>8, <2>9
<1> QED  BY <1>8 DEF C, edges, GraphCondensation

-----------------------------------------------------------------------------
(* Kahn's algorithm. *)

(* Least is the least member of a set of identifiers. *)
LEMMA LeastElement ==
    ASSUME NEW ids \in SUBSET Nat, ids # {}
    PROVE  Least(ids) \in ids /\ \A y \in ids : Least(ids) <= y
<1>1. \E x \in ids : \A y \in ids : x <= y
  BY LeastNumber
<1> QED  BY <1>1 DEF Least

(* FirstReady chooses one of the ready components. *)
LEMMA FirstReadyIn ==
    ASSUME NEW ready, ready # {}, \A c \in ready : c \in SUBSET Nat /\ c # {}
    PROVE  FirstReady(ready) \in ready
<1>1. \A c \in ready : Least(c) \in Nat
  BY LeastElement
<1> DEFINE A == {Least(c) : c \in ready}
<1>2. PICK m \in A : \A k \in A : m <= k
  <2>1. A \in SUBSET Nat /\ A # {}
    BY <1>1
  <2> HIDE DEF A
  <2> QED  BY <2>1, LeastNumber
<1>3. \E c \in ready : \A d \in ready : Least(c) <= Least(d)
  BY <1>2
<1> QED  BY <1>3 DEF FirstReady

(* A sequence of components, each once and after its predecessors. *)
Ordered(components, condensation) ==
    {seq \in Seq(components) :
        /\ \A i, j \in DOMAIN seq : seq[i] = seq[j] => i = j
        /\ \A j \in DOMAIN seq, d \in components :
            <<d, seq[j]>> \in condensation => \E i \in 1 .. j - 1 : seq[i] = d}

(* The components whose predecessors have all been output. *)
ReadyAfter(components, condensation, seq) ==
    {c \in components \ Ids(seq) :
        \A d \in components : <<d, c>> \in condensation => d \in Ids(seq)}

(* One step of the algorithm outputs the first of the ready components. *)
AppendReady(components, condensation, seq) ==
    IF ReadyAfter(components, condensation, seq) = {} THEN seq
    ELSE Append(seq, FirstReady(ReadyAfter(components, condensation, seq)))

(* A step keeps the order and, when a component is ready, makes it longer. *)
LEMMA AppendReadyOrdered ==
    ASSUME NEW components, \A c \in components : c \in SUBSET Nat /\ c # {},
           NEW condensation, NEW seq \in Ordered(components, condensation)
    PROVE  /\ AppendReady(components, condensation, seq) \in Ordered(components, condensation)
           /\ ReadyAfter(components, condensation, seq) # {} =>
                Len(AppendReady(components, condensation, seq)) = Len(seq) + 1
           /\ Len(seq) \in Nat
<1> DEFINE ready == ReadyAfter(components, condensation, seq)
           c == FirstReady(ready)
           longer == Append(seq, c)
<1>1. /\ seq \in Seq(components) /\ Len(seq) \in Nat /\ DOMAIN seq = 1 .. Len(seq)
      /\ \A i, j \in DOMAIN seq : seq[i] = seq[j] => i = j
      /\ \A j \in DOMAIN seq, d \in components :
            <<d, seq[j]>> \in condensation => \E i \in 1 .. j - 1 : seq[i] = d
  BY DEF Ordered
<1>2. CASE ready = {}
  BY <1>1, <1>2, Zenon DEF AppendReady
<1>3. CASE ready # {}
  <2>1. c \in ready
    <3>1. \A d \in ready : d \in SUBSET Nat /\ d # {}
      BY DEF ReadyAfter
    <3> HIDE DEF ready
    <3> QED  BY <1>3, <3>1, FirstReadyIn
  <2>2. c \in components /\ c \notin Ids(seq)
        /\ \A d \in components : <<d, c>> \in condensation => d \in Ids(seq)
    <3> HIDE DEF c
    <3> QED  BY <2>1 DEF ReadyAfter
  <2> HIDE DEF c, ready
  <2>3. /\ longer \in Seq(components) /\ Len(longer) = Len(seq) + 1
        /\ DOMAIN longer = 1 .. Len(seq) + 1
        /\ longer[Len(seq) + 1] = c
        /\ \A i \in 1 .. Len(seq) : longer[i] = seq[i] /\ seq[i] \in Ids(seq)
    BY <1>1, <2>2 DEF Ids
  <2> HIDE DEF longer
  <2>4. ASSUME NEW i \in DOMAIN longer, NEW j \in DOMAIN longer, longer[i] = longer[j]
        PROVE  i = j
    <3>1. CASE i \in 1 .. Len(seq) /\ j \in 1 .. Len(seq)
      BY <1>1, <2>3, <2>4, <3>1
    <3>2. CASE i \in 1 .. Len(seq) /\ j = Len(seq) + 1
      BY <2>2, <2>3, <2>4, <3>2
    <3>3. CASE j \in 1 .. Len(seq) /\ i = Len(seq) + 1
      BY <2>2, <2>3, <2>4, <3>3
    <3>4. CASE i = Len(seq) + 1 /\ j = Len(seq) + 1
      BY <3>4
    <3>5. \A k \in 1 .. Len(seq) + 1 : k \in 1 .. Len(seq) \/ k = Len(seq) + 1
      BY <1>1
    <3> QED  BY <2>3, <3>1, <3>2, <3>3, <3>4, <3>5
  <2>5. ASSUME NEW j \in DOMAIN longer, NEW d \in components, <<d, longer[j]>> \in condensation
        PROVE  \E i \in 1 .. j - 1 : longer[i] = d
    <3>1. CASE j \in 1 .. Len(seq)
      <4>1. PICK i \in 1 .. j - 1 : seq[i] = d
        BY <1>1, <2>3, <2>5, <3>1
      <4>2. i \in 1 .. Len(seq)
        BY <1>1, <3>1, <4>1
      <4> QED  BY <2>3, <4>1, <4>2
    <3>2. CASE j = Len(seq) + 1
      <4>1. d \in Ids(seq)
        BY <2>2, <2>3, <2>5, <3>2
      <4>2. PICK i \in 1 .. Len(seq) : seq[i] = d
        BY <1>1, <4>1 DEF Ids
      <4>3. i \in 1 .. j - 1
        BY <1>1, <3>2, <4>2
      <4> QED  BY <2>3, <4>2, <4>3
    <3> QED  BY <1>1, <2>3, <3>1, <3>2
  <2>6. longer \in Ordered(components, condensation)
    BY <2>3, <2>4, <2>5 DEF Ordered
  <2>7. AppendReady(components, condensation, seq) = longer
    BY <1>3 DEF AppendReady, longer, c, ready
  <2> QED  BY <1>1, <2>3, <2>6, <2>7
<1> QED  BY <1>2, <1>3

(* The recursion of TopoSort, as the sequence of its steps. *)
LEMMA TopoSortSteps ==
    ASSUME NEW components, IsFiniteSet(components),
           \A c \in components : c \in SUBSET Nat /\ c # {}, NEW condensation
    PROVE  /\ Cardinality(components) \in Nat
           /\ \E sorted \in [0 .. Cardinality(components) -> Ordered(components, condensation)] :
                /\ sorted[0] = <<>>
                /\ \A k \in 1 .. Cardinality(components) :
                    sorted[k] = AppendReady(components, condensation, sorted[k - 1])
                /\ TopoSort(components, condensation) = sorted[Cardinality(components)]
<1> DEFINE n == Cardinality(components)
           S == Ordered(components, condensation)
           step == [p \in (1 .. n) \X S |-> AppendReady(components, condensation, p[2])]
           eqn(f) == f = [k \in 0 .. n |->
                IF k = 0 THEN <<>>
                ELSE LET before == Ids(f[k-1])
                         ready == {c \in components \ before :
                                      \A d \in components : <<d, c>> \in condensation => d \in before}
                     IN  IF ready = {} THEN f[k-1] ELSE Append(f[k-1], FirstReady(ready))]
           sorted == CHOOSE f : eqn(f)
<1>1. n \in Nat
  BY FS_CardinalityType
<1>2. <<>> \in S /\ step \in [(1 .. n) \X S -> S]
  <2>1. <<>> \in S
    BY DEF Ordered
  <2>2. \A seq \in S : AppendReady(components, condensation, seq) \in S
    BY AppendReadyOrdered
  <2> HIDE DEF S, n
  <2> QED  BY <2>1, <2>2
<1>3. PICK f : Iterates(f, n, S, <<>>, step)
  <2> HIDE DEF n, S, step
  <2> QED  BY <1>1, <1>2, IteratesExist
<1>4. /\ f \in [0 .. n -> S] /\ f[0] = <<>>
      /\ \A k \in 1 .. n : f[k] = AppendReady(components, condensation, f[k - 1])
  <2>1. f \in [0 .. n -> S] /\ f[0] = <<>> /\ \A k \in 1 .. n : f[k] = step[<<k, f[k - 1]>>]
    BY <1>3, Zenon DEF Iterates
  <2>2. ASSUME NEW k \in 1 .. n  PROVE f[k] = AppendReady(components, condensation, f[k - 1])
    <3>1. k - 1 \in 0 .. n
      BY <1>1
    <3>2. f[k - 1] \in S
      <4> HIDE DEF S, n
      <4> QED  BY <2>1, <3>1
    <3> HIDE DEF S
    <3> QED  BY <2>1, <3>2
  <2> QED  BY <2>1, <2>2
<1>5. eqn(f)
  <2>1. f = [k \in 0 .. n |-> IF k = 0 THEN <<>> ELSE AppendReady(components, condensation, f[k - 1])]
    <3> HIDE DEF S
    <3> QED  BY <1>1, <1>4
  <2> QED  BY <2>1, Zenon DEF AppendReady, ReadyAfter
<1>6. eqn(sorted)
  <2> HIDE DEF eqn
  <2> QED  BY <1>5, Zenon
<1>7. sorted = [k \in 0 .. n |-> IF k = 0 THEN <<>>
                                 ELSE AppendReady(components, condensation, sorted[k - 1])]
  <2> HIDE DEF sorted, n
  <2> QED  BY <1>6, Zenon DEF AppendReady, ReadyAfter
<1>8. /\ sorted[0] = <<>>
      /\ \A k \in 1 .. n : sorted[k] = AppendReady(components, condensation, sorted[k - 1])
  <2> HIDE DEF sorted, n
  <2> QED  BY <1>1, <1>7
<1>9. \A k \in 0 .. n : sorted[k] \in S
  <2> DEFINE A == {k \in 0 .. n : sorted[k] \in S}
  <2>1. 0 \in A
    <3> HIDE DEF sorted, n, S
    <3> QED  BY <1>1, <1>2, <1>8
  <2>2. ASSUME NEW k \in 1 .. n, k - 1 \in A  PROVE k \in A
    <3>1. \A seq \in S : AppendReady(components, condensation, seq) \in S
      BY AppendReadyOrdered
    <3> HIDE DEF sorted, n, S
    <3> QED  BY <1>1, <1>8, <2>2, <3>1
  <2>3. 0 .. n \subseteq A
    <3> HIDE DEF A, n
    <3> QED  BY <1>1, <2>1, <2>2, UpTo
  <2> HIDE DEF sorted, n, S
  <2> QED  BY <2>3
<1>10. sorted \in [0 .. n -> S]
  <2> HIDE DEF sorted, n, S
  <2> QED  BY <1>7, <1>9
<1>11. TopoSort(components, condensation) = sorted[n]
  BY DEF TopoSort
<1> HIDE DEF sorted
<1> QED BY <1>1, <1>8, <1>10, <1>11

(* Kahn's algorithm outputs a component once and after its predecessors, and *)
(* leaves none out when the graph has no cycle.                              *)
THEOREM TopoSortOrdered ==
    ASSUME NEW components, IsFiniteSet(components),
           \A c \in components : c \in SUBSET Nat /\ c # {}, NEW condensation
    PROVE  /\ TopoSort(components, condensation) \in Ordered(components, condensation)
           /\ (\A S \in SUBSET components : S # {} =>
                    \E c \in S : \A d \in S : <<d, c>> \notin condensation)
                => Ids(TopoSort(components, condensation)) = components
<1> DEFINE n == Cardinality(components)
<1>1. PICK t \in [0 .. n -> Ordered(components, condensation)] :
        /\ t[0] = <<>>
        /\ \A k \in 1 .. n : t[k] = AppendReady(components, condensation, t[k - 1])
        /\ TopoSort(components, condensation) = t[n]
        /\ n \in Nat
  BY TopoSortSteps
<1>2. t[n] \in Ordered(components, condensation)
  <2> HIDE DEF n
  <2> QED  BY <1>1
<1>3. ASSUME \A S \in SUBSET components : S # {} =>
                    \E c \in S : \A d \in S : <<d, c>> \notin condensation
      PROVE  Ids(t[n]) = components
  <2> DEFINE A == {k \in 0 .. n : Len(t[k]) = k \/ Ids(t[k]) = components}
  <2>1. \A k \in 0 .. n : /\ t[k] \in Ordered(components, condensation) /\ t[k] \in Seq(components)
                          /\ Ids(t[k]) \subseteq components /\ Len(t[k]) \in Nat
                          /\ DOMAIN t[k] = 1 .. Len(t[k])
    <3> TAKE k \in 0 .. n
    <3>1. t[k] \in Ordered(components, condensation)
      <4> HIDE DEF n
      <4> QED  BY <1>1
    <3>2. t[k] \in Seq(components)
      BY <3>1 DEF Ordered
    <3> QED  BY <3>1, <3>2 DEF Ids
  <2>2. 0 \in A
    BY <1>1
  <2>3. ASSUME NEW k \in 1 .. n, k - 1 \in A  PROVE k \in A
    <3>1. k - 1 \in 0 .. n /\ k \in 0 .. n /\ t[k] = AppendReady(components, condensation, t[k - 1])
      BY <1>1
    <3>2. CASE ReadyAfter(components, condensation, t[k - 1]) = {}
      <4>1. components \ Ids(t[k - 1]) = {}
        <5> SUFFICES ASSUME components \ Ids(t[k - 1]) # {}  PROVE FALSE
          OBVIOUS
        <5>1. PICK c \in components \ Ids(t[k - 1]) :
                \A d \in components \ Ids(t[k - 1]) : <<d, c>> \notin condensation
          <6>1. components \ Ids(t[k - 1]) \in SUBSET components
            OBVIOUS
          <6> QED  BY <1>3, <6>1
        <5>2. c \in ReadyAfter(components, condensation, t[k - 1])
          BY <5>1 DEF ReadyAfter
        <5> QED  BY <3>2, <5>2
      <4>2. t[k] = t[k - 1]
        BY <3>1, <3>2 DEF AppendReady
      <4>3. Ids(t[k - 1]) = components
        BY <2>1, <3>1, <4>1
      <4> QED  BY <3>1, <4>2, <4>3
    <3>3. CASE ReadyAfter(components, condensation, t[k - 1]) # {}
      <4>1. Len(t[k]) = Len(t[k - 1]) + 1
        <5>1. t[k - 1] \in Ordered(components, condensation)
          BY <2>1, <3>1
        <5>2. Len(AppendReady(components, condensation, t[k - 1])) = Len(t[k - 1]) + 1
          BY <3>3, <5>1, AppendReadyOrdered
        <5> QED  BY <3>1, <5>2, Zenon
      <4>2. Ids(t[k - 1]) # components
        BY <3>3 DEF ReadyAfter
      <4>3. Len(t[k - 1]) = k - 1
        BY <2>3, <4>2
      <4> QED  BY <1>1, <3>1, <4>1, <4>3
    <3> QED  BY <3>2, <3>3
  <2>4. n \in A
    <3> HIDE DEF A
    <3>1. 0 .. n \subseteq A
      BY <1>1, <2>2, <2>3, UpTo
    <3> QED  BY <1>1, <3>1
  <2>5. ASSUME Len(t[n]) = n  PROVE Ids(t[n]) = components
    <3>1. n \in 0 .. n /\ t[n] \in Seq(components)
      BY <1>1, <2>1
    <3>2. t[n] \in [1 .. n -> components] /\ \A i, j \in 1 .. n : t[n][i] = t[n][j] => i = j
      <4>1. \A seq \in Seq(components) : seq \in [1 .. Len(seq) -> components] /\ DOMAIN seq = 1 .. Len(seq)
        OBVIOUS
      <4>2. \A seq \in Ordered(components, condensation) :
                \A i, j \in DOMAIN seq : seq[i] = seq[j] => i = j
        BY DEF Ordered
      <4> HIDE DEF n
      <4> QED  BY <1>2, <2>5, <3>1, <4>1, <4>2
    <3>3. t[n] \in Injection(1 .. n, components)
      BY <3>2 DEF Injection, IsInjective
    <3>4. IsFiniteSet(1 .. n) /\ Cardinality(1 .. n) = n
      BY <1>1, FS_Interval
    <3>5. t[n] \in Surjection(1 .. n, components)
      BY <3>3, <3>4, FS_Injection
    <3>6. \A c \in components : \E i \in 1 .. n : t[n][i] = c
      BY <3>5 DEF Surjection
    <3>7. Ids(t[n]) \subseteq components
      BY <2>1, <3>1
    <3>8. \A i \in DOMAIN t[n] : t[n][i] \in Ids(t[n])
      BY DEF Ids
    <3>9. DOMAIN t[n] = 1 .. n
      <4> HIDE DEF n
      <4> QED  BY <3>2
    <3>10. \A c \in components : c \in Ids(t[n])
      BY <3>6, <3>8, <3>9, Zenon
    <3> QED  BY <3>7, <3>10, Zenon
  <2> HIDE DEF n
  <2> QED  BY <2>4, <2>5
<1> QED  BY <1>1, <1>2, <1>3

-----------------------------------------------------------------------------
(* The marks of unsafe components. *)

(* One component of the order passes its mark on. *)
MarkFrom(marked, condensation, c) ==
    marked \cup (IF c \in marked THEN Neighbours(condensation, c) ELSE {})

(* What one component adds to the marks. *)
LEMMA MarkFromFacts ==
    ASSUME NEW components, NEW condensation \in SUBSET (components \X components),
           NEW marked \in SUBSET components, NEW c
    PROVE  /\ MarkFrom(marked, condensation, c) \in SUBSET components
           /\ \A d : d \in MarkFrom(marked, condensation, c) <=>
                        d \in marked \/ (c \in marked /\ <<c, d>> \in condensation)
<1>1. \A d : d \in Neighbours(condensation, c) <=> <<c, d>> \in condensation
  <2>1. \A e \in condensation : e = <<e[1], e[2]>>
    OBVIOUS
  <2> QED  BY <2>1 DEF Neighbours
<1>2. \A d : <<c, d>> \in condensation => d \in components
  OBVIOUS
<1> QED  BY <1>1, <1>2 DEF MarkFrom

(* The marks after each component of the order. *)
Marking(marked, components, condensation, order, notSolid) ==
    /\ marked \in [0 .. Len(order) -> SUBSET components]
    /\ marked[0] = notSolid
    /\ \A k \in 1 .. Len(order) : marked[k] = MarkFrom(marked[k - 1], condensation, order[k])
    /\ Unsafe(order, condensation, notSolid) = marked[Len(order)]

(* The recursion of Unsafe, as the sequence of its marks. *)
LEMMA UnsafeSteps ==
    ASSUME NEW components, NEW condensation \in SUBSET (components \X components),
           NEW order \in Seq(components), NEW notSolid \in SUBSET components
    PROVE  \E marked : Marking(marked, components, condensation, order, notSolid)
<1> DEFINE n == Len(order)
           S == SUBSET components
           step == [p \in (1 .. n) \X S |-> MarkFrom(p[2], condensation, order[p[1]])]
           eqn(f) == f = [k \in 0 .. n |->
                IF k = 0 THEN notSolid
                ELSE f[k-1] \cup
                     (IF order[k] \in f[k-1] THEN Neighbours(condensation, order[k]) ELSE {})]
           marked == CHOOSE f : eqn(f)
<1>1. n \in Nat
  OBVIOUS
<1>2. notSolid \in S /\ step \in [(1 .. n) \X S -> S]
  <2>1. \A m \in S : \A c : MarkFrom(m, condensation, c) \in S
    BY MarkFromFacts
  <2> HIDE DEF n
  <2> QED  BY <2>1
<1>3. PICK f : Iterates(f, n, S, notSolid, step)
  <2> HIDE DEF n, S, step
  <2> QED  BY <1>1, <1>2, IteratesExist
<1>4. /\ f \in [0 .. n -> S] /\ f[0] = notSolid
      /\ \A k \in 1 .. n : f[k] = MarkFrom(f[k - 1], condensation, order[k])
  <2>1. f \in [0 .. n -> S] /\ f[0] = notSolid /\ \A k \in 1 .. n : f[k] = step[<<k, f[k - 1]>>]
    BY <1>3, Zenon DEF Iterates
  <2>2. ASSUME NEW k \in 1 .. n  PROVE f[k] = MarkFrom(f[k - 1], condensation, order[k])
    <3>1. k - 1 \in 0 .. n
      BY <1>1
    <3>2. f[k - 1] \in S
      <4> HIDE DEF S, n
      <4> QED  BY <2>1, <3>1
    <3> HIDE DEF S, n
    <3> QED  BY <2>1, <3>2
  <2> QED  BY <2>1, <2>2
<1>5. eqn(f)
  <2>1. f = [k \in 0 .. n |-> IF k = 0 THEN notSolid ELSE MarkFrom(f[k - 1], condensation, order[k])]
    <3> HIDE DEF S, n
    <3> QED  BY <1>1, <1>4
  <2> QED  BY <2>1, Zenon DEF MarkFrom
<1>6. eqn(marked)
  <2> HIDE DEF eqn
  <2> QED  BY <1>5, Zenon
<1>7. marked = [k \in 0 .. n |-> IF k = 0 THEN notSolid
                                 ELSE MarkFrom(marked[k - 1], condensation, order[k])]
  <2> HIDE DEF marked, n
  <2> QED  BY <1>6, Zenon DEF MarkFrom
<1>8. /\ marked[0] = notSolid
      /\ \A k \in 1 .. n : marked[k] = MarkFrom(marked[k - 1], condensation, order[k])
  <2> HIDE DEF marked, n
  <2> QED  BY <1>1, <1>7
<1>9. \A k \in 0 .. n : marked[k] \in S
  <2> DEFINE A == {k \in 0 .. n : marked[k] \in S}
  <2>1. 0 \in A
    <3> HIDE DEF marked, n, S
    <3> QED  BY <1>1, <1>2, <1>8
  <2>2. ASSUME NEW k \in 1 .. n, k - 1 \in A  PROVE k \in A
    <3>1. \A m \in S : \A c : MarkFrom(m, condensation, c) \in S
      BY MarkFromFacts
    <3> HIDE DEF marked, n, S
    <3> QED  BY <1>1, <1>8, <2>2, <3>1
  <2>3. 0 .. n \subseteq A
    <3> HIDE DEF A, n
    <3> QED  BY <1>1, <2>1, <2>2, UpTo
  <2> HIDE DEF marked, n, S
  <2> QED  BY <2>3
<1>10. marked \in [0 .. n -> S]
  <2> HIDE DEF marked, n, S
  <2> QED  BY <1>7, <1>9
<1>11. Unsafe(order, condensation, notSolid) = marked[n]
  BY DEF Unsafe
<1> HIDE DEF marked
<1> QED BY <1>8, <1>10, <1>11 DEF Marking

(* In an order of all components the marks reach every successor, and        *)
(* nothing else.                                                             *)
LEMMA UnsafeClosed ==
    ASSUME NEW components, NEW condensation \in SUBSET (components \X components),
           NEW order \in Ordered(components, condensation), NEW notSolid \in SUBSET components
    PROVE  /\ Unsafe(order, condensation, notSolid) \in SUBSET components
           /\ notSolid \subseteq Unsafe(order, condensation, notSolid)
           /\ Ids(order) = components =>
                \A c, d \in components :
                    c \in Unsafe(order, condensation, notSolid) /\ <<c, d>> \in condensation
                        => d \in Unsafe(order, condensation, notSolid)
           /\ \A Q : notSolid \subseteq Q
                        /\ (\A c, d \in components : c \in Q /\ <<c, d>> \in condensation => d \in Q)
                        => Unsafe(order, condensation, notSolid) \subseteq Q
<1> DEFINE n == Len(order)
<1>a. order \in Seq(components)
  BY DEF Ordered
<1>0. /\ order \in Seq(components) /\ n \in Nat /\ DOMAIN order = 1 .. n
      /\ \A k \in 1 .. n : order[k] \in components
      /\ \A i, j \in 1 .. n : order[i] = order[j] => i = j
      /\ \A j \in 1 .. n, d \in components :
            <<d, order[j]>> \in condensation => \E i \in 1 .. j - 1 : order[i] = d
  BY DEF Ordered
<1>b. \E m : Marking(m, components, condensation, order, notSolid)
  BY <1>a, UnsafeSteps, Zenon
<1>1. PICK m \in [0 .. n -> SUBSET components] :
        /\ m[0] = notSolid
        /\ \A k \in 1 .. n : m[k] = MarkFrom(m[k - 1], condensation, order[k])
        /\ Unsafe(order, condensation, notSolid) = m[n]
  BY <1>b, Zenon DEF Marking
<1> HIDE DEF n
<1>2. \A k \in 1 .. n : k - 1 \in 0 .. n /\ k \in 0 .. n
  BY <1>0
<1>3. \A k \in 1 .. n : \A d : d \in m[k] <=>
            d \in m[k - 1] \/ (order[k] \in m[k - 1] /\ <<order[k], d>> \in condensation)
  <2> TAKE k \in 1 .. n
  <2>1. m[k - 1] \in SUBSET components /\ m[k] = MarkFrom(m[k - 1], condensation, order[k])
    BY <1>1, <1>2
  <2> QED  BY <2>1, MarkFromFacts
<1>4. notSolid \subseteq m[n]
  <2> DEFINE A == {k \in 0 .. n : notSolid \subseteq m[k]}
  <2>1. 0 \in A
    BY <1>0, <1>1
  <2>2. ASSUME NEW k \in 1 .. n, k - 1 \in A  PROVE k \in A
    BY <1>2, <1>3, <2>2
  <2>3. 0 .. n \subseteq A
    <3> HIDE DEF A
    <3> QED  BY <1>0, <2>1, <2>2, UpTo
  <2> QED  BY <1>0, <2>3
<1>5. ASSUME NEW Q, notSolid \subseteq Q,
             \A c, d \in components : c \in Q /\ <<c, d>> \in condensation => d \in Q
      PROVE  m[n] \subseteq Q
  <2> DEFINE A == {k \in 0 .. n : m[k] \subseteq Q}
  <2>1. 0 \in A
    BY <1>0, <1>1, <1>5
  <2>2. ASSUME NEW k \in 1 .. n, k - 1 \in A  PROVE k \in A
    <3>1. m[k] \subseteq components
      BY <1>1, <1>2
    <3>2. \A d \in m[k] : d \in Q
      BY <1>0, <1>3, <1>5, <2>2, <3>1
    <3> QED  BY <1>2, <3>2
  <2>3. 0 .. n \subseteq A
    <3> HIDE DEF A
    <3> QED  BY <1>0, <2>1, <2>2, UpTo
  <2> QED  BY <1>0, <2>3
<1>6. \A i \in 1 .. n, d \in components :
        order[i] \in m[n] /\ <<order[i], d>> \in condensation => d \in m[n]
  <2> DEFINE A == {k \in 0 .. n : \A i \in 1 .. k, d \in components :
                        order[i] \in m[k] /\ <<order[i], d>> \in condensation => d \in m[k]}
  <2>1. 0 \in A
    BY <1>0
  <2>2. ASSUME NEW k \in 1 .. n, k - 1 \in A  PROVE k \in A
    <3>1. \A i \in 1 .. k - 1, d \in components :
            order[i] \in m[k - 1] /\ <<order[i], d>> \in condensation => d \in m[k - 1]
      BY <2>2
    <3> HIDE DEF A
    <3>2. ASSUME NEW i \in 1 .. k, NEW d \in components,
                 order[i] \in m[k], <<order[i], d>> \in condensation
          PROVE  d \in m[k]
      <4>1. i \in 1 .. n /\ order[i] \in components
        BY <1>0
      <4>2. order[i] \in m[k - 1]
        <5> SUFFICES ASSUME <<order[k], order[i]>> \in condensation  PROVE FALSE
          BY <1>3, <3>2
        <5>1. order[k] \in components
          BY <1>0
        <5>2. PICK j \in 1 .. i - 1 : order[j] = order[k]
          BY <1>0, <4>1, <5>1
        <5>3. j \in 1 .. n /\ j # k
          BY <1>0, <4>1
        <5> QED  BY <1>0, <5>2, <5>3
      <4>3. CASE i = k
        BY <1>3, <3>2, <4>2, <4>3
      <4>4. CASE i # k
        <5>1. i \in 1 .. k - 1
          BY <1>0, <4>4
        <5> QED  BY <1>3, <3>1, <3>2, <4>2, <5>1
      <4> QED  BY <4>3, <4>4
    <3> QED  BY <1>2, <3>2 DEF A
  <2>3. 0 .. n \subseteq A
    <3> HIDE DEF A
    <3> QED  BY <1>0, <2>1, <2>2, UpTo
  <2> QED  BY <1>0, <2>3
<1>7. Ids(order) = components => \A c \in components : \E i \in 1 .. n : order[i] = c
  BY <1>0 DEF Ids
<1>8. m[n] \in SUBSET components
  BY <1>0, <1>1
<1>9. Ids(order) = components =>
        \A c, d \in components : c \in m[n] /\ <<c, d>> \in condensation => d \in m[n]
  BY <1>6, <1>7
<1>10. Unsafe(order, condensation, notSolid) = m[n]
  BY <1>1
<1> HIDE DEF n
<1>11. \A Q : notSolid \subseteq Q
                /\ (\A c, d \in components : c \in Q /\ <<c, d>> \in condensation => d \in Q)
                => m[n] \subseteq Q
  BY <1>5
<1> QED  BY <1>4, <1>8, <1>9, <1>10, <1>11, Zenon

-----------------------------------------------------------------------------
(* The proposal. *)

(* The components that hold a transaction that is not solid. *)
Unready(graph, state) ==
    {c \in GraphComponents(graph) : \E id \in c : state.states[id] # "solid"}
(* What the marks hold back (buildProposal), and what is left to output. *)
Held(graph, state) ==
    Unsafe(TopoSort(GraphComponents(graph), GraphCondensation(graph)), GraphCondensation(graph),
           Unready(graph, state))
Selected(graph, state) == GraphComponents(graph) \ Held(graph, state)

(* The selected components are all solid, hold every predecessor of theirs,  *)
(* and leave out only what an unready component leads to; Kahn's algorithm   *)
(* orders all of them.                                                       *)
LEMMA SelectedClosed ==
    ASSUME NEW graph, IsGraph(graph), NEW state
    PROVE  /\ \A c \in Selected(graph, state) : \A id \in c : state.states[id] = "solid"
           /\ \A c \in Selected(graph, state), d \in GraphComponents(graph) :
                <<d, c>> \in GraphCondensation(graph) => d \in Selected(graph, state)
           /\ \A Q : Unready(graph, state) \subseteq Q
                        /\ (\A c, d \in GraphComponents(graph) :
                                c \in Q /\ <<c, d>> \in GraphCondensation(graph) => d \in Q)
                        => GraphComponents(graph) \ Selected(graph, state) \subseteq Q
           /\ TopoSort(Selected(graph, state), GraphCondensation(graph))
                \in Ordered(Selected(graph, state), GraphCondensation(graph))
           /\ Ids(TopoSort(Selected(graph, state), GraphCondensation(graph)))
                = Selected(graph, state)
<1> DEFINE C == GraphComponents(graph)
           K == GraphCondensation(graph)
           U == Unready(graph, state)
           order == TopoSort(C, K)
           sel == Selected(graph, state)
<1>1. IsFiniteSet(C) /\ \A c \in C : c \in SUBSET Nat /\ c # {}
  <2>1. IsFiniteSet(C) /\ C \subseteq SUBSET Txs /\ \A c \in C : c # {}
    BY ComponentFacts, Zenon
  <2> QED  BY <2>1, TxAssumption
<1>2. K \in SUBSET (C \X C) /\ U \in SUBSET C
  BY DEF GraphCondensation, Condensation, Unready
<1>3. \A S \in SUBSET C : S # {} => \E c \in S : \A d \in S : <<d, c>> \notin K
  BY CondensationAcyclic
<1> HIDE DEF C, K, U
<1>4. order \in Ordered(C, K) /\ Ids(order) = C
  BY <1>1, <1>3, TopoSortOrdered
<1> HIDE DEF order
<1>5. /\ U \subseteq Unsafe(order, K, U) /\ Unsafe(order, K, U) \in SUBSET C
      /\ \A c, d \in C : c \in Unsafe(order, K, U) /\ <<c, d>> \in K => d \in Unsafe(order, K, U)
      /\ \A Q : U \subseteq Q /\ (\A c, d \in C : c \in Q /\ <<c, d>> \in K => d \in Q)
                    => Unsafe(order, K, U) \subseteq Q
  BY <1>2, <1>4, UnsafeClosed
<1>6. sel = C \ Unsafe(order, K, U)
  BY DEF Selected, Held, C, K, U, order
<1>7. IsFiniteSet(sel) /\ \A c \in sel : c \in SUBSET Nat /\ c # {}
  BY <1>1, <1>6, FS_Subset
<1>8. \A S \in SUBSET sel : S # {} => \E c \in S : \A d \in S : <<d, c>> \notin K
  BY <1>3, <1>6
<1> HIDE DEF sel
<1>9. TopoSort(sel, K) \in Ordered(sel, K) /\ Ids(TopoSort(sel, K)) = sel
  BY <1>7, <1>8, TopoSortOrdered
<1>10. \A c \in sel : \A id \in c : state.states[id] = "solid"
  <2>1. \A c \in C : c \notin U => \A id \in c : state.states[id] = "solid"
    BY DEF U, Unready, C
  <2> QED  BY <1>5, <1>6, <2>1
<1>11. \A c \in sel, d \in C : <<d, c>> \in K => d \in sel
  BY <1>5, <1>6
<1>12. C \ sel = Unsafe(order, K, U)
  BY <1>5, <1>6
<1>13. \A Q : U \subseteq Q /\ (\A c, d \in C : c \in Q /\ <<c, d>> \in K => d \in Q)
                => C \ sel \subseteq Q
  BY <1>5, <1>12, Zenon
<1> QED  BY <1>9, <1>10, <1>11, <1>13, Zenon DEF sel, C, K, U

(* The batches are the selected components in Kahn order. *)
LEMMA ProposalOutput ==
    ASSUME NEW graph, IsGraph(graph), NEW state, state.batchCounter \in Nat,
           NEW ordered, ordered = TopoSort(Selected(graph, state), GraphCondensation(graph)),
           NEW finalOrder, finalOrder = BuildProposal(graph, state).finalOrder
    PROVE  /\ Outputs(state, finalOrder)
           /\ DOMAIN finalOrder = DOMAIN ordered
           /\ \A i \in DOMAIN ordered : Ids(finalOrder[i].txs) = ordered[i]
           /\ Output(finalOrder) = UNION Selected(graph, state)
<1>1. finalOrder = [i \in DOMAIN ordered |-> Batch(state.batchCounter + i, Sorted(ordered[i]))]
  BY DEF BuildProposal, Selected, Held, Unready, GraphCondensation, GraphComponents
<1>2. /\ ordered \in Ordered(Selected(graph, state), GraphCondensation(graph))
      /\ Ids(ordered) = Selected(graph, state)
  BY SelectedClosed
<1>3. \A c \in Selected(graph, state) : c \in SUBSET Txs
  <2>1. GraphComponents(graph) \subseteq SUBSET Txs
    BY ComponentFacts, Zenon
  <2> QED  BY <2>1 DEF Selected
<1>4. \A i \in DOMAIN ordered :
        /\ ordered[i] \in SUBSET Txs
        /\ Sorted(ordered[i]) \in Seq(Txs) /\ Ids(Sorted(ordered[i])) = ordered[i]
  <2> SUFFICES ASSUME NEW c \in Selected(graph, state)
               PROVE  c \in SUBSET Txs /\ Sorted(c) \in Seq(Txs) /\ Ids(Sorted(c)) = c
    BY <1>2 DEF Ids
  <2>1. c \in SUBSET Txs /\ c \in SUBSET Nat /\ IsFiniteSet(c)
    BY <1>3, TxAssumption, FS_Subset
  <2>2. Sorted(c) \in Seq(c) /\ Ids(Sorted(c)) = c
    BY <2>1, SortedProperties
  <2>3. \A S \in SUBSET Txs : \A seq \in Seq(S) : seq \in Seq(Txs)
    OBVIOUS
  <2> QED  BY <2>1, <2>2, <2>3, Zenon
<1>5. ordered \in Seq(Selected(graph, state))
  BY <1>2 DEF Ordered
<1>6. DOMAIN ordered = 1 .. Len(ordered) /\ Len(ordered) \in Nat
  BY <1>5, SeqElements
<1>7. \A i \in DOMAIN ordered : /\ finalOrder[i] \in [index : Nat, txs : Seq(Txs)]
                                /\ finalOrder[i].index = state.batchCounter + i
                                /\ finalOrder[i].txs = Sorted(ordered[i])
  <2> TAKE i \in DOMAIN ordered
  <2>1. state.batchCounter + i \in Nat
    BY <1>6
  <2>2. finalOrder[i] = [index |-> state.batchCounter + i, txs |-> Sorted(ordered[i])]
    BY <1>1, Zenon DEF Batch
  <2>3. Sorted(ordered[i]) \in Seq(Txs)
    BY <1>4
  <2> QED  BY <2>1, <2>2, <2>3
<1>8. DOMAIN finalOrder = DOMAIN ordered
  BY <1>1
<1>9. Outputs(state, finalOrder)
  <2>1. finalOrder \in [1 .. Len(ordered) -> [index : Nat, txs : Seq(Txs)]]
    BY <1>1, <1>6, <1>7, Zenon
  <2>2. \A S : \A n \in Nat : \A f \in [1 .. n -> S] : f \in Seq(S)
    OBVIOUS
  <2>3. finalOrder \in Seq([index : Nat, txs : Seq(Txs)])
    BY <1>6, <2>1, <2>2, Zenon
  <2>4. \A i \in DOMAIN finalOrder : finalOrder[i].index = state.batchCounter + i
    BY <1>7, <1>8, Zenon
  <2> QED  BY <2>3, <2>4, Zenon DEF Outputs
<1>10. \A i \in DOMAIN ordered : Ids(finalOrder[i].txs) = ordered[i]
  BY <1>4, <1>7
<1>11. Output(finalOrder) = UNION Selected(graph, state)
  <2>1. Output(finalOrder) = UNION {ordered[i] : i \in DOMAIN ordered}
    BY <1>8, <1>10 DEF Output
  <2>2. {ordered[i] : i \in DOMAIN ordered} = Ids(ordered)
    BY DEF Ids
  <2> QED  BY <1>2, <2>1, <2>2
<1> QED  BY <1>8, <1>9, <1>10, <1>11

-----------------------------------------------------------------------------
(* The inductive invariant of the engine. *)

(* An exact graph is a graph on transactions that are not finalized. *)
LEMMA ExactGraph ==
    ASSUME NEW graph, NEW state, Exact(graph, state)
    PROVE  /\ IsGraph(graph) /\ graph.nodes = NodesOf(state) /\ graph.edges = EdgesOf(state)
           /\ NodesOf(state) \in SUBSET Txs /\ EdgesOf(state) \in SUBSET (Txs \X Txs)
           /\ NodesOf(state) \cap Done(state) = {}
<1>1. graph.nodes = NodesOf(state) /\ graph.edges = EdgesOf(state)
  BY DEF Exact
<1>2. NodesOf(state) \in SUBSET Txs
  BY DEF NodesOf
<1>3. EdgesOf(state) \in SUBSET (NodesOf(state) \X NodesOf(state))
  BY DEF EdgesOf
<1>4. \A id \in Done(state) : Reporters(state, id) = {}
  BY DEF Reporters, LivePos
<1>5. NodesOf(state) \cap Done(state) = {}
  BY <1>4, NodesByCount
<1>6. EdgesOf(state) \in SUBSET (Txs \X Txs)
  BY <1>2, <1>3
<1> QED  BY <1>1, <1>2, <1>3, <1>5, <1>6 DEF IsGraph

(* A round of the leader: what holds of the committed state and graph holds  *)
(* of the evidence applied to them and of the proposal's outcome.            *)
LEMMA RoundFacts ==
    ASSUME NEW state \in States, ExactCaches(state), NEW graph, Exact(graph, state),
           NEW batch, Extending(state, batch),
           NEW applied, applied = ApplyEvidence(state, batch),
           NEW refreshed,
           refreshed = Refresh(graph, applied.state, applied.nodes, applied.pairs),
           NEW finalOrder, finalOrder = BuildProposal(refreshed, applied.state).finalOrder,
           NEW post, post = FinalizeState(applied.state, finalOrder)
    PROVE  /\ applied.state \in States /\ ExactCaches(applied.state)
           /\ Exact(refreshed, applied.state)
           /\ AppliedLogs(state, batch, applied.state) /\ AppliedRest(state, batch, applied.state)
           /\ Outputs(applied.state, finalOrder) /\ applied.state.fragmentSeq > 0
           /\ Output(finalOrder) \cap Done(state) = {} /\ Output(finalOrder) \in SUBSET Txs
           /\ post \in States /\ ExactCaches(post)
           /\ Exact(RemoveFinalized(refreshed, Output(finalOrder)), post)
<1> DEFINE pre == applied.state
<1>1. pre \in States /\ ExactCaches(pre)
  BY AppliedExact, Zenon
<1>2. AppliedLogs(state, batch, pre) /\ AppliedRest(state, batch, pre)
  BY AppliedFields, Zenon
<1>3. Exact(refreshed, pre)
  BY RefreshedExact, Zenon
<1> HIDE DEF pre
<1>4. pre.fragmentSeq > 0 /\ pre.batchCounter \in Nat /\ Done(pre) = Done(state)
  <2>1. pre.fragmentSeq = state.fragmentSeq + 1 /\ pre.done = state.done
    BY <1>2, Zenon DEF AppliedRest
  <2> QED  BY <1>1, <2>1 DEF States, Done
<1>5. /\ IsGraph(refreshed) /\ refreshed.nodes \in SUBSET Txs
      /\ refreshed.nodes \cap Done(state) = {}
  BY <1>3, <1>4, ExactGraph
<1>6. Outputs(pre, finalOrder) /\ Output(finalOrder) = UNION Selected(refreshed, pre)
  BY <1>4, <1>5, ProposalOutput DEF pre
<1>7. Output(finalOrder) \subseteq refreshed.nodes
  <2>1. GraphComponents(refreshed) \subseteq SUBSET refreshed.nodes
    <3>1. IsGraph(refreshed)
      BY <1>5
    <3> QED  BY <3>1, ComponentFacts
  <2> QED  BY <1>6, <2>1 DEF Selected
<1>8. post = FinalizeState(pre, finalOrder)
  BY DEF pre
<1>9. post \in States /\ ExactCaches(post)
  BY <1>1, <1>4, <1>6, <1>8, FinalizedExact
<1>10. Exact(RemoveFinalized(refreshed, Output(finalOrder)), post)
  BY <1>1, <1>3, <1>4, <1>6, <1>8, RemovedExact
<1>11. Output(finalOrder) \cap Done(state) = {} /\ Output(finalOrder) \in SUBSET Txs
  BY <1>5, <1>7
<1> QED  BY <1>1, <1>2, <1>3, <1>4, <1>6, <1>9, <1>10, <1>11, Zenon DEF pre

(* The committed state has its type, its caches are exact and the leader's   *)
(* graph is the one it defines.                                              *)
CommittedExact ==
    /\ committed \in States /\ ExactCaches(committed) /\ Exact(manager, committed)

(* A pending candidate was built from the committed state, which has not     *)
(* changed since.                                                            *)
CandidateBuilt ==
    pending # NoCandidate =>
        collected = {} /\ \E batch : Extending(committed, batch) /\ pending = Candidate(batch)

(* The inductive invariant. CachesExact and GraphExact alone are not         *)
(* inductive: a commit installs what constructCandidate computed earlier,    *)
(* so the invariant remembers what it was computed from.                     *)
EngineInv ==
    /\ CommittedExact
    /\ Extending(committed, collected)
    /\ CandidateBuilt

(* The invariant holds of the empty state and graph. *)
LEMMA InitialExact == Init => EngineInv
<1> SUFFICES ASSUME Init PROVE EngineInv
  OBVIOUS
<1> DEFINE state == NewEvidenceState
<1>0. committed = state /\ manager = NewDependencyManager /\ collected = {} /\ pending = NoCandidate
  BY DEF Init
<1>1. state \in States
  BY DEF NewEvidenceState, States, Logs, Repeats, NotDone
<1>2. \A r \in Replicas, id \in Txs : LivePos(state, r, id) = 0 /\ state.pos[r][id] = 0
  <2>1. \A id : PosIn(<<>>, id) = 0
    BY DEF PosIn, Ids
  <2> QED  BY <2>1 DEF NewEvidenceState, LivePos
<1>3. /\ state.live = {} /\ state.visibility = [id \in Txs |-> 0]
      /\ state.weights = [e \in Txs \X Txs |-> 0] /\ state.states = [id \in Txs |-> "blank"]
  BY DEF NewEvidenceState
<1> HIDE DEF state
<1>4. /\ \A id \in Txs : Reporters(state, id) = {}
      /\ \A u, v \in Txs : Preferring(state, u, v) = {}
  BY <1>2 DEF Reporters, Preferring
<1>5. Cardinality({}) = 0
  BY FS_EmptySet
<1>6. WeightsOf(state) = [e \in Txs \X Txs |-> 0] /\ StatesOf(state) = [id \in Txs |-> "blank"]
  BY <1>4, <1>5, ThresholdValues DEF WeightsOf, StatesOf
<1>7. ExactCaches(state)
  <2>1. ExactPositions(state)
    BY <1>2 DEF ExactPositions
  <2>2. state.live = {id \in Txs : Reporters(state, id) # {}}
    BY <1>3, <1>4
  <2>3. \A id \in Txs : state.visibility[id] = Cardinality(Reporters(state, id))
    BY <1>3, <1>4, <1>5
  <2> QED  BY <1>3, <1>6, <2>1, <2>2, <2>3 DEF ExactCaches
<1>8. Exact(NewDependencyManager, state)
  <2>1. NodesOf(state) = {}
    BY <1>6 DEF NodesOf
  <2>2. EdgesOf(state) = {}
    BY <2>1 DEF EdgesOf
  <2> QED  BY <2>1, <2>2 DEF Exact, NewDependencyManager
<1>9. Extending(state, {})
  BY DEF Extending, OneEach
<1> QED  BY <1>0, <1>1, <1>7, <1>8, <1>9 DEF EngineInv, CommittedExact, CandidateBuilt

(* An order collected extends the log of a replica that has sent none yet.   *)
LEMMA CollectedExtends ==
    ASSUME EngineInv, NEW r \in Replicas, NEW txs \in Extensions(r), CollectLocalOrder(r, txs)
    PROVE  Extending(committed, collected')
<1> DEFINE order == [replica |-> r, txs |-> txs]
           fresh == Txs \ Ids(committed.head[r])
<1>1. txs \in Seq(fresh) /\ \A i, j \in DOMAIN txs : txs[i] = txs[j] => i = j
  <2>1. PICK k \in 0 .. LoMax : txs \in [1 .. k -> fresh]
    BY DEF Extensions
  <2>2. \A i, j \in DOMAIN txs : txs[i] = txs[j] => i = j
    BY DEF Extensions
  <2> HIDE DEF fresh
  <2> QED  BY <2>1, <2>2, ThresholdAssumption
<1>2. txs \in Logs /\ Ids(txs) \subseteq fresh
  <2>1. \A seq \in Seq(fresh) : seq \in Seq(Txs) /\ Ids(seq) \subseteq fresh
    BY DEF Ids
  <2> HIDE DEF fresh
  <2> QED  BY <1>1, <2>1 DEF Logs, Repeats
<1>3. order \in Orders /\ Ids(committed.head[order.replica]) \cap Ids(order.txs) = {}
  BY <1>2 DEF Orders
<1>4. collected' = collected \cup {order} /\ \A o \in collected : o.replica # r
  BY DEF CollectLocalOrder
<1>5. Extending(committed, collected)
  BY DEF EngineInv
<1>6. order.replica = r
  OBVIOUS
<1> HIDE DEF order
<1> QED  BY <1>3, <1>4, <1>5, <1>6 DEF Extending, OneEach

(* Every step keeps the invariant. *)
LEMMA EngineInvInductive == EngineInv /\ [Next]_vars => EngineInv'
<1> SUFFICES ASSUME EngineInv, [Next]_vars PROVE EngineInv'
  OBVIOUS
<1>1. /\ committed \in States /\ ExactCaches(committed) /\ Exact(manager, committed)
      /\ Extending(committed, collected)
  BY DEF EngineInv, CommittedExact
<1>2. ASSUME NEW r \in Replicas, NEW txs \in Extensions(r), CollectLocalOrder(r, txs)
      PROVE  EngineInv'
  <2>1. Extending(committed, collected')
    BY <1>2, CollectedExtends
  <2>2. committed' = committed /\ manager' = manager /\ pending' = pending /\ pending = NoCandidate
    BY <1>2 DEF CollectLocalOrder
  <2> QED  BY <1>1, <2>1, <2>2 DEF EngineInv, CommittedExact, CandidateBuilt, NoCandidate
<1>3. CASE ConstructCandidate
  <2>1. /\ committed' = committed /\ manager' = manager /\ collected' = {}
        /\ pending' = Candidate(collected) \/ pending' = NoCandidate
    BY <1>3 DEF ConstructCandidate
  <2>2. Extending(committed, {})
    BY DEF Extending, OneEach
  <2>4. \A batch : Candidate(batch)' = Candidate(batch)
    BY <2>1 DEF Candidate
  <2>5. CandidateBuilt'
    <3>1. CASE pending' = NoCandidate
      BY <3>1 DEF CandidateBuilt, NoCandidate
    <3>2. CASE pending' = Candidate(collected)
      BY <1>1, <2>1, <2>4, <3>2 DEF CandidateBuilt
    <3> QED  BY <2>1, <3>1, <3>2
  <2> QED  BY <1>1, <2>1, <2>2, <2>5 DEF EngineInv, CommittedExact
<1>4. CASE CommitPending
  <2>1. /\ pending # NoCandidate /\ committed' = pending.postState /\ manager' = pending.manager
        /\ pending' = NoCandidate /\ collected' = collected
    BY <1>4 DEF CommitPending
  <2>2. PICK batch : Extending(committed, batch) /\ pending = Candidate(batch) /\ collected = {}
    BY <2>1 DEF EngineInv, CandidateBuilt
  <2>3. committed' \in States /\ ExactCaches(committed') /\ Exact(manager', committed')
    <3> DEFINE applied == ApplyEvidence(committed, batch)
               refreshed == Refresh(manager, applied.state, applied.nodes, applied.pairs)
               finalOrder == BuildProposal(refreshed, applied.state).finalOrder
               post == FinalizeState(applied.state, finalOrder)
    <3>1. /\ pending.postState = post
          /\ pending.manager = RemoveFinalized(refreshed, Output(finalOrder))
      BY <2>2 DEF Candidate
    <3>2. /\ post \in States /\ ExactCaches(post)
          /\ Exact(RemoveFinalized(refreshed, Output(finalOrder)), post)
      <4> HIDE DEF applied, refreshed, finalOrder, post
      <4> QED  BY <1>1, <2>2, RoundFacts DEF applied, refreshed, finalOrder, post
    <3> HIDE DEF applied, refreshed, finalOrder, post
    <3> QED  BY <2>1, <3>1, <3>2
  <2>4. Extending(committed', collected')
    BY <2>1, <2>2 DEF Extending, OneEach
  <2> QED  BY <2>1, <2>3, <2>4 DEF EngineInv, CommittedExact, CandidateBuilt, NoCandidate
<1>5. CASE AbandonPending
  <2>1. /\ committed' = committed /\ manager' = manager /\ collected' = collected
        /\ pending' = NoCandidate
    BY <1>5 DEF AbandonPending
  <2> QED  BY <1>1, <2>1 DEF EngineInv, CommittedExact, CandidateBuilt, NoCandidate
<1>6. CASE UNCHANGED vars
  <2>1. /\ committed' = committed /\ manager' = manager /\ collected' = collected
        /\ pending' = pending
    BY <1>6 DEF vars
  <2>2. \A batch : Candidate(batch)' = Candidate(batch)
    BY <2>1 DEF Candidate
  <2> QED  BY <1>1, <2>1, <2>2 DEF EngineInv, CommittedExact, CandidateBuilt, NoCandidate
<1> QED  BY <1>2, <1>3, <1>4, <1>5, <1>6 DEF Next

(* The type of the evidence state, exact caches and an exact graph, and      *)
(* candidates built from both are invariant, for every set of replicas and   *)
(* transactions and all thresholds that meet the assumption.                 *)
THEOREM EngineInvariant == Spec => []EngineInv
<1> QED  BY InitialExact, EngineInvInductive, PTL DEF Spec

(* The incremental caches always agree with a computation from the whole     *)
(* logs (applyEvidence, finalize), for all values of the constants.          *)
THEOREM CachesExactHolds == Spec => []CachesExact
<1>1. EngineInv => CachesExact
  BY DEF EngineInv, CommittedExact, ExactCaches, ExactPositions, CachesExact
<1> QED  BY <1>1, EngineInvariant, PTL

(* The leader's incremental graph is always the one the followers' local     *)
(* predicate defines, when it is committed and when a proposal is built      *)
(* from it (refresh, refreshPair, removeFinalized), for all values of the    *)
(* constants.                                                                *)
THEOREM GraphExactHolds == Spec => []GraphExact
<1>1. EngineInv => GraphExact
  <2> SUFFICES ASSUME EngineInv PROVE GraphExact
    OBVIOUS
  <2>1. /\ committed \in States /\ ExactCaches(committed) /\ Exact(manager, committed)
        /\ Extending(committed, collected)
    BY DEF EngineInv, CommittedExact
  <2> DEFINE applied == ApplyEvidence(committed, collected)
  <2>2. Exact(Refresh(manager, applied.state, applied.nodes, applied.pairs), applied.state)
    BY <2>1, RefreshedExact, Zenon
  <2> QED  BY <2>1, <2>2, Zenon DEF GraphExact
<1> QED  BY <1>1, EngineInvariant, PTL

-----------------------------------------------------------------------------
(* What a commit does: the output only grows. *)

(* A commit installs the outcome of a round on the committed state.          *)
Commits(batch, pre, graph, finalOrder) ==
    /\ Extending(committed, batch)
    /\ AppliedLogs(committed, batch, pre) /\ AppliedRest(committed, batch, pre)
    /\ pre \in States /\ ExactCaches(pre) /\ Exact(graph, pre) /\ pre.fragmentSeq > 0
    /\ finalOrder = BuildProposal(graph, pre).finalOrder
    /\ Outputs(pre, finalOrder)
    /\ Output(finalOrder) \cap Done(committed) = {} /\ Output(finalOrder) \in SUBSET Txs
    /\ committed' = FinalizeState(pre, finalOrder)

(* CommitPending installs a candidate that a round of the leader built. *)
LEMMA CommitFacts ==
    ASSUME EngineInv, CommitPending
    PROVE  \E batch, pre, graph, finalOrder : Commits(batch, pre, graph, finalOrder)
<1>1. committed \in States /\ ExactCaches(committed) /\ Exact(manager, committed)
  BY DEF EngineInv, CommittedExact
<1>2. pending # NoCandidate /\ committed' = pending.postState
  BY DEF CommitPending
<1>3. PICK batch : Extending(committed, batch) /\ pending = Candidate(batch)
  BY <1>2 DEF EngineInv, CandidateBuilt
<1> DEFINE applied == ApplyEvidence(committed, batch)
           graph == Refresh(manager, applied.state, applied.nodes, applied.pairs)
           finalOrder == BuildProposal(graph, applied.state).finalOrder
           post == FinalizeState(applied.state, finalOrder)
<1>4. pending.postState = post
  BY <1>3 DEF Candidate
<1>5. Commits(batch, applied.state, graph, finalOrder)
  <2>1. /\ applied.state \in States /\ ExactCaches(applied.state)
        /\ Exact(graph, applied.state)
        /\ AppliedLogs(committed, batch, applied.state)
        /\ AppliedRest(committed, batch, applied.state)
        /\ Outputs(applied.state, finalOrder) /\ applied.state.fragmentSeq > 0
        /\ Output(finalOrder) \cap Done(committed) = {} /\ Output(finalOrder) \in SUBSET Txs
    <3> HIDE DEF applied, graph, finalOrder, post
    <3> QED  BY <1>1, <1>3, RoundFacts DEF applied, graph, finalOrder, post
  <2>2. finalOrder = BuildProposal(graph, applied.state).finalOrder
    OBVIOUS
  <2>3. committed' = FinalizeState(applied.state, finalOrder)
    BY <1>2, <1>4
  <2> HIDE DEF applied, graph, finalOrder, post
  <2> QED  BY <1>3, <2>1, <2>2, <2>3 DEF Commits
<1> HIDE DEF applied, graph, finalOrder, post
<1> QED  BY <1>5

(* What a commit does to the output. *)
LEMMA CommitOutput ==
    ASSUME committed \in States, NEW batch, NEW pre, NEW graph, NEW finalOrder,
           Commits(batch, pre, graph, finalOrder)
    PROVE  /\ Done(committed') = Done(committed) \cup Output(finalOrder)
           /\ \A id \in Txs \ Output(finalOrder) : committed'.done[id] = committed.done[id]
           /\ \A id \in Output(finalOrder) :
                \E i \in DOMAIN finalOrder :
                    /\ id \in Ids(finalOrder[i].txs)
                    /\ committed'.done[id] = [fragment |-> committed.fragmentSeq + 1,
                                              batch |-> committed.batchCounter + i]
           /\ committed'.batchCounter = committed.batchCounter + Len(finalOrder)
           /\ committed'.head = pre.head
           /\ Done(pre) = Done(committed)
           /\ DOMAIN finalOrder = 1 .. Len(finalOrder) /\ Len(finalOrder) \in Nat
           /\ committed.batchCounter \in Nat
<1>1. /\ AppliedRest(committed, batch, pre) /\ pre \in States /\ ExactCaches(pre)
      /\ pre.fragmentSeq > 0 /\ Outputs(pre, finalOrder)
      /\ committed' = FinalizeState(pre, finalOrder)
  BY DEF Commits
<1>2. /\ pre.fragmentSeq = committed.fragmentSeq + 1
      /\ pre.batchCounter = committed.batchCounter
      /\ pre.done = committed.done
  BY <1>1 DEF AppliedRest
<1>3. Done(pre) = Done(committed)
  BY <1>2 DEF Done
<1>4. /\ committed'.head = pre.head
      /\ Done(committed') = Done(pre) \cup Output(finalOrder)
      /\ \A id \in Txs \ Output(finalOrder) : committed'.done[id] = pre.done[id]
      /\ \A id \in Output(finalOrder) :
            \E i \in DOMAIN finalOrder :
                /\ id \in Ids(finalOrder[i].txs)
                /\ committed'.done[id] = [fragment |-> pre.fragmentSeq,
                                         batch |-> pre.batchCounter + i]
      /\ committed'.batchCounter = pre.batchCounter + Len(finalOrder)
  BY <1>1, FinalizedExact
<1>5. DOMAIN finalOrder = 1 .. Len(finalOrder) /\ Len(finalOrder) \in Nat
  BY <1>1, SeqElements DEF Outputs
<1>6. committed.batchCounter \in Nat
  BY DEF States
<1> QED  BY <1>2, <1>3, <1>4, <1>5, <1>6

(* A step keeps what is final and numbers what becomes final after it. *)
LEMMA OutputGrowsStep ==
    ASSUME EngineInv, Next
    PROVE  \A id \in Txs :
        IF id \in Done(committed) THEN committed'.done[id] = committed.done[id]
        ELSE id \in Done(committed') =>
                /\ committed'.done[id].fragment = committed.fragmentSeq + 1
                /\ committed'.done[id].batch > committed.batchCounter
                /\ committed'.done[id].batch <= committed'.batchCounter
<1>1. CASE CommitPending
  <2>1. PICK batch, pre, graph, finalOrder : Commits(batch, pre, graph, finalOrder)
    BY <1>1, CommitFacts
  <2>2. committed \in States /\ Output(finalOrder) \cap Done(committed) = {}
    BY <2>1 DEF EngineInv, CommittedExact, Commits
  <2>3. /\ Done(committed') = Done(committed) \cup Output(finalOrder)
        /\ \A id \in Txs \ Output(finalOrder) : committed'.done[id] = committed.done[id]
        /\ \A id \in Output(finalOrder) :
            \E i \in DOMAIN finalOrder :
                committed'.done[id] = [fragment |-> committed.fragmentSeq + 1,
                                       batch |-> committed.batchCounter + i]
        /\ committed'.batchCounter = committed.batchCounter + Len(finalOrder)
        /\ DOMAIN finalOrder = 1 .. Len(finalOrder) /\ Len(finalOrder) \in Nat
        /\ committed.batchCounter \in Nat
    BY <2>1, <2>2, CommitOutput
  <2>4. \A id \in Done(committed) : id \in Txs \ Output(finalOrder)
    BY <2>2 DEF Done
  <2>5. ASSUME NEW id \in Output(finalOrder)
        PROVE  /\ committed'.done[id].fragment = committed.fragmentSeq + 1
               /\ committed'.done[id].batch > committed.batchCounter
               /\ committed'.done[id].batch <= committed'.batchCounter
    <3>1. PICK i \in DOMAIN finalOrder :
            committed'.done[id] = [fragment |-> committed.fragmentSeq + 1,
                                   batch |-> committed.batchCounter + i]
      BY <2>3
    <3>2. /\ committed'.done[id].fragment = committed.fragmentSeq + 1
          /\ committed'.done[id].batch = committed.batchCounter + i
      BY <3>1
    <3> QED  BY <2>3, <3>2
  <2> QED  BY <2>3, <2>4, <2>5
<1>2. CASE committed' = committed
  BY <1>2
<1>3. committed' = committed \/ CommitPending
  BY DEF Next, CollectLocalOrder, ConstructCandidate, AbandonPending
<1> QED  BY <1>1, <1>2, <1>3

(* What is final keeps its fragment and batch, and what becomes final is     *)
(* numbered after everything before it (finalize, CommitPending), for all    *)
(* values of the constants.                                                  *)
THEOREM OutputGrowsHolds == Spec => OutputGrows
<1>1. EngineInv /\ [Next]_vars =>
        [\A id \in Txs :
            IF id \in Done(committed) THEN committed'.done[id] = committed.done[id]
            ELSE id \in Done(committed') =>
                    /\ committed'.done[id].fragment = committed.fragmentSeq + 1
                    /\ committed'.done[id].batch > committed.batchCounter
                    /\ committed'.done[id].batch <= committed'.batchCounter]_vars
  BY OutputGrowsStep
<1> QED  BY <1>1, EngineInvariant, PTL DEF Spec, OutputGrows

(* An edge is output in its direction or within one batch. *)
LEMMA EdgeOrder ==
    ASSUME NEW graph, IsGraph(graph), NEW state, state.batchCounter \in Nat,
           NEW finalOrder, finalOrder = BuildProposal(graph, state).finalOrder,
           NEW u, NEW v, <<u, v>> \in graph.edges, v \in Output(finalOrder)
    PROVE  /\ u \in Output(finalOrder)
           /\ \A i, j \in DOMAIN finalOrder :
                u \in Ids(finalOrder[i].txs) /\ v \in Ids(finalOrder[j].txs) => i <= j
<1> DEFINE sel == Selected(graph, state)
           ordered == TopoSort(sel, GraphCondensation(graph))
<1>1. /\ DOMAIN finalOrder = DOMAIN ordered
      /\ \A i \in DOMAIN ordered : Ids(finalOrder[i].txs) = ordered[i]
      /\ Output(finalOrder) = UNION sel
  BY ProposalOutput
<1>2. /\ ordered \in Ordered(sel, GraphCondensation(graph))
      /\ \A c \in sel, d \in GraphComponents(graph) :
            <<d, c>> \in GraphCondensation(graph) => d \in sel
  BY SelectedClosed
<1>3. /\ \A c, d \in GraphComponents(graph) : \A x : x \in c /\ x \in d => c = d
      /\ \A x \in graph.nodes : \E c \in GraphComponents(graph) : x \in c
      /\ \A c, d \in GraphComponents(graph) : \A x \in c, y \in d :
            <<x, y>> \in graph.edges /\ c # d => <<c, d>> \in GraphCondensation(graph)
  BY ComponentFacts
<1>4. sel \subseteq GraphComponents(graph)
  BY DEF Selected
<1>5. u \in graph.nodes
  BY DEF IsGraph
<1> HIDE DEF sel, ordered
<1>6. /\ DOMAIN ordered = 1 .. Len(ordered) /\ Len(ordered) \in Nat
      /\ \A i \in DOMAIN ordered : ordered[i] \in sel
      /\ \A i, j \in DOMAIN ordered : ordered[i] = ordered[j] => i = j
      /\ \A j \in DOMAIN ordered, d \in sel :
            <<d, ordered[j]>> \in GraphCondensation(graph) => \E i \in 1 .. j - 1 : ordered[i] = d
  <2>1. ordered \in Seq(sel)
    BY <1>2 DEF Ordered
  <2>2. /\ DOMAIN ordered = 1 .. Len(ordered) /\ Len(ordered) \in Nat
        /\ \A i \in DOMAIN ordered : ordered[i] \in sel
    BY <2>1, SeqElements
  <2> QED  BY <1>2, <2>2 DEF Ordered
<1>7. PICK cu \in GraphComponents(graph) : u \in cu
  BY <1>3, <1>5
<1>8. PICK cv \in sel : v \in cv
  BY <1>1
<1>9. cu \in sel
  BY <1>2, <1>3, <1>4, <1>7, <1>8
<1>10. ASSUME NEW i \in DOMAIN finalOrder, NEW j \in DOMAIN finalOrder,
              u \in Ids(finalOrder[i].txs), v \in Ids(finalOrder[j].txs)
       PROVE  i <= j
  <2>1. ordered[i] = cu /\ ordered[j] = cv
    BY <1>1, <1>3, <1>4, <1>6, <1>7, <1>8, <1>10
  <2>2. CASE cu = cv
    BY <1>1, <1>6, <2>1, <2>2
  <2>3. CASE cu # cv
    <3>1. <<cu, cv>> \in GraphCondensation(graph)
      BY <1>3, <1>4, <1>7, <1>8, <2>3
    <3>2. PICK k \in 1 .. j - 1 : ordered[k] = cu
      BY <1>1, <1>6, <1>9, <2>1, <3>1
    <3>3. k \in DOMAIN ordered
      BY <1>1, <1>6, <3>2
    <3> QED  BY <1>1, <1>6, <2>1, <3>2, <3>3
  <2> QED  BY <2>2, <2>3
<1> QED  BY <1>1, <1>7, <1>9, <1>10

-----------------------------------------------------------------------------
(* Batch-order fairness. *)

(* When a transaction is solid and QH replicas report another before it, the *)
(* other is in the graph and the edge between them points from it: the pair  *)
(* is output in that order or together (edgePred, CalculateSolidThreshold,   *)
(* CalculateEdgeThreshold).                                                  *)
THEOREM FairPairHasEdge ==
    ASSUME NEW state, state.head \in [Replicas -> Seq(Txs)],
           NEW u \in Txs, NEW v \in Txs, u \notin Done(state), v \notin Done(state),
           StatesOf(state)[v] = "solid",
           Cardinality(ReportedBefore(state, u, v)) >= QH
    PROVE  /\ <<u, v>> \in EdgesOf(state)
           /\ <<v, u>> \notin EdgesOf(state)
<1> DEFINE A == ReportedBefore(state, u, v)
           B == Reporters(state, v)
           forth == Preferring(state, u, v)
           back == Preferring(state, v, u)
<1>1. /\ A \in SUBSET Replicas /\ B \in SUBSET Replicas
      /\ forth \in SUBSET Replicas /\ back \in SUBSET Replicas
      /\ Reporters(state, u) \in SUBSET Replicas
  BY DEF ReportedBefore, Reporters, Preferring
<1>2. \A r \in Replicas : /\ PosIn(state.head[r], u) \in Nat /\ PosIn(state.head[r], v) \in Nat
                         /\ LivePos(state, r, u) = PosIn(state.head[r], u)
                         /\ LivePos(state, r, v) = PosIn(state.head[r], v)
  BY PosInLog DEF LivePos
<1>3. Cardinality(B) >= SolidThreshold
  BY DEF StatesOf, Shade
<1>4. /\ Cardinality(A \cap B) >= EdgeThreshold /\ Cardinality(Replicas \ A) < EdgeThreshold
  BY <1>1, <1>3, QuorumOverlap
<1>5. A \cap B \subseteq forth /\ forth \subseteq Reporters(state, u)
  BY <1>2 DEF ReportedBefore, Reporters, Preferring
<1>6. back \subseteq Replicas \ A
  BY <1>2 DEF ReportedBefore, Preferring
<1>7. u # v
  <2>1. B # {}
    <3>1. SolidThreshold > 0
      BY ReplicaCount DEF SolidThreshold
    <3>2. SUFFICES ASSUME B = {} PROVE FALSE
      BY DEF B
    <3>3. Cardinality(B) = 0
      BY <3>2, FS_EmptySet
    <3> QED  BY <1>3, <3>1, <3>3, ReplicaCount DEF SolidThreshold
  <2>2. A \cap B # {}
    <3>1. EdgeThreshold > 0
      BY ReplicaCount DEF EdgeThreshold
    <3>2. SUFFICES ASSUME A \cap B = {} PROVE FALSE
      OBVIOUS
    <3>3. Cardinality(A \cap B) = 0
      BY <3>2, FS_EmptySet
    <3> QED  BY <1>4, <3>1, <3>3, ReplicaCount DEF EdgeThreshold
  <2> QED  BY <1>2, <2>2 DEF ReportedBefore, Reporters
<1>8. /\ Cardinality(forth) >= EdgeThreshold /\ Cardinality(back) < EdgeThreshold
      /\ Cardinality(Reporters(state, u)) >= EdgeThreshold
      /\ Cardinality(forth) \in Nat /\ Cardinality(back) \in Nat
  <2>1. Cardinality(A \cap B) \in Nat /\ Cardinality(A \cap B) <= Cardinality(forth)
    BY <1>1, <1>5, SubsetCount
  <2>2. /\ Cardinality(forth) \in Nat /\ Cardinality(Reporters(state, u)) \in Nat
        /\ Cardinality(forth) <= Cardinality(Reporters(state, u))
    BY <1>1, <1>5, SubsetCount
  <2>3. /\ Cardinality(back) \in Nat /\ Cardinality(Replicas \ A) \in Nat
        /\ Cardinality(back) <= Cardinality(Replicas \ A)
    <3>1. Replicas \ A \in SUBSET Replicas
      OBVIOUS
    <3> HIDE DEF A, back
    <3> QED  BY <1>1, <1>6, <3>1, SubsetCount
  <2>4. EdgeThreshold \in Int
    BY ReplicaCount DEF EdgeThreshold
  <2> HIDE DEF A, B, forth, back
  <2> QED  BY <1>4, <2>1, <2>2, <2>3, <2>4
<1>9. WeightsOf(state)[<<u, v>>] = Cardinality(forth) /\ WeightsOf(state)[<<v, u>>] = Cardinality(back)
  BY DEF WeightsOf
<1>10. u \in NodesOf(state) /\ v \in NodesOf(state)
  BY <1>8 DEF NodesOf, StatesOf, Shade
<1>11. EdgePred(u, v, WeightsOf(state)) /\ ~EdgePred(v, u, WeightsOf(state))
  BY <1>8, <1>9, ReplicaCount DEF EdgePred, EdgeThreshold
<1> QED  BY <1>7, <1>10, <1>11 DEF EdgesOf

(* The replicas of a set that have logged u before v. *)
Before(state, B, u, v) ==
    {r \in B : 0 < PosIn(state.head[r], u) /\ PosIn(state.head[r], u) < PosIn(state.head[r], v)}

(* The reporters that made v solid have fixed its order for good: what enough *)
(* of them logged before v, and too few after it, is output and not later.   *)
Settled(state, v) ==
    \E B \in SUBSET Replicas :
        /\ Cardinality(B) >= SolidThreshold
        /\ \A r \in B : PosIn(state.head[r], v) > 0
        /\ \A u \in Txs :
            /\ Cardinality(Before(state, B, u, v)) >= EdgeThreshold
            /\ Cardinality(B \ Before(state, B, u, v)) < EdgeThreshold
            => u \in Done(state) /\ state.done[u].batch <= state.done[v].batch

(* Every output transaction is settled, and its batch number was given out. *)
FairInv ==
    \A v \in Done(committed) :
        Settled(committed, v) /\ committed.done[v].batch <= committed.batchCounter

(* Logs only grow, so what precedes a logged transaction never changes. *)
LEMMA GrownPositions ==
    ASSUME NEW state \in States, NEW batch, Extending(state, batch),
           NEW after, AppliedLogs(state, batch, after), NEW r \in Replicas,
           NEW v, PosIn(state.head[r], v) > 0
    PROVE  /\ PosIn(after.head[r], v) = PosIn(state.head[r], v)
           /\ \A u : 0 < PosIn(after.head[r], u) /\ PosIn(after.head[r], u) < PosIn(after.head[r], v)
                <=> 0 < PosIn(state.head[r], u) /\ PosIn(state.head[r], u) < PosIn(state.head[r], v)
<1> DEFINE log == state.head[r]
<1>1. log \in Logs /\ log \in Seq(Txs)
  BY DEF States, Logs
<1>2. CASE r \notin SendersOf(batch)
  BY <1>2 DEF AppliedLogs
<1>3. CASE r \in SendersOf(batch)
  <2>1. PICK order \in batch : order.replica = r
    BY <1>3 DEF SendersOf
  <2>2. /\ order.txs \in Logs /\ order.txs \in Seq(Txs) /\ Ids(log) \cap Ids(order.txs) = {}
        /\ after.head[r] = log \o order.txs
    BY <2>1 DEF Extending, Orders, AppliedLogs, Logs
  <2>3. \A id : PosIn(after.head[r], id) =
            IF id \in Ids(order.txs) THEN Len(log) + PosIn(order.txs, id) ELSE PosIn(log, id)
    BY <1>1, <2>2, PosInExtension
  <2>4. v \in Ids(log) /\ PosIn(log, v) <= Len(log) /\ Len(log) \in Nat
    BY <1>1, PosInLog
  <2>5. \A u : /\ PosIn(log, u) \in Nat
               /\ u \in Ids(order.txs) => PosIn(order.txs, u) \in Nat /\ PosIn(log, u) = 0
    BY <1>1, <2>2, PosInLog
  <2>6. PosIn(after.head[r], v) = PosIn(log, v)
    BY <2>2, <2>3, <2>4
  <2> HIDE DEF log
  <2>7. ASSUME NEW u
        PROVE  0 < PosIn(after.head[r], u) /\ PosIn(after.head[r], u) < PosIn(after.head[r], v)
                <=> 0 < PosIn(log, u) /\ PosIn(log, u) < PosIn(log, v)
    <3>1. CASE u \in Ids(order.txs)
      <4>1. /\ PosIn(after.head[r], u) = Len(log) + PosIn(order.txs, u)
            /\ PosIn(order.txs, u) \in Nat /\ PosIn(log, u) = 0 /\ PosIn(log, v) \in Nat
        BY <2>3, <2>5, <3>1
      <4> QED  BY <2>4, <2>6, <4>1
    <3>2. CASE u \notin Ids(order.txs)
      <4>1. PosIn(after.head[r], u) = PosIn(log, u)
        BY <2>3, <3>2
      <4> QED  BY <2>6, <4>1
    <3> QED  BY <3>1, <3>2
  <2> QED  BY <2>6, <2>7 DEF log
<1> QED  BY <1>2, <1>3

(* A settled transaction stays settled when the logs grow and more is        *)
(* output.                                                                   *)
LEMMA SettledKept ==
    ASSUME NEW state \in States, NEW batch, Extending(state, batch),
           NEW pre, AppliedLogs(state, batch, pre), NEW after, after.head = pre.head,
           Done(state) \subseteq Done(after),
           \A id \in Done(state) : after.done[id] = state.done[id],
           NEW v \in Done(state), Settled(state, v)
    PROVE  Settled(after, v)
<1>1. PICK B \in SUBSET Replicas :
        /\ Cardinality(B) >= SolidThreshold
        /\ \A r \in B : PosIn(state.head[r], v) > 0
        /\ \A u \in Txs :
            /\ Cardinality(Before(state, B, u, v)) >= EdgeThreshold
            /\ Cardinality(B \ Before(state, B, u, v)) < EdgeThreshold
            => u \in Done(state) /\ state.done[u].batch <= state.done[v].batch
  BY DEF Settled
<1>2. \A r \in B : /\ PosIn(pre.head[r], v) = PosIn(state.head[r], v)
                   /\ \A u : 0 < PosIn(pre.head[r], u) /\ PosIn(pre.head[r], u) < PosIn(pre.head[r], v)
                        <=> 0 < PosIn(state.head[r], u) /\ PosIn(state.head[r], u) < PosIn(state.head[r], v)
  BY <1>1, GrownPositions
<1>3. \A u : Before(after, B, u, v) = Before(state, B, u, v)
  BY <1>2 DEF Before
<1>4. \A r \in B : PosIn(after.head[r], v) > 0
  BY <1>1, <1>2
<1>5. ASSUME NEW u \in Txs, Cardinality(Before(after, B, u, v)) >= EdgeThreshold,
             Cardinality(B \ Before(after, B, u, v)) < EdgeThreshold
      PROVE  u \in Done(after) /\ after.done[u].batch <= after.done[v].batch
  <2>1. u \in Done(state) /\ state.done[u].batch <= state.done[v].batch
    BY <1>1, <1>3, <1>5
  <2>2. after.done[u] = state.done[u] /\ after.done[v] = state.done[v]
    BY <2>1
  <2> QED  BY <2>1, <2>2
<1> QED  BY <1>1, <1>4, <1>5 DEF Settled

(* The graph has an edge for every pair that the reporters of v decide.      *)
LEMMA DecidedEdge ==
    ASSUME NEW state \in States, NEW v \in Txs, v \notin Done(state),
           NEW u \in Txs, u \notin Done(state),
           Cardinality(Before(state, Reporters(state, v), u, v)) >= EdgeThreshold,
           Cardinality(Reporters(state, v) \ Before(state, Reporters(state, v), u, v)) < EdgeThreshold,
           v \in NodesOf(state)
    PROVE  <<u, v>> \in EdgesOf(state)
<1> DEFINE B == Reporters(state, v)
           forth == Preferring(state, u, v)
           back == Preferring(state, v, u)
<1>1. \A r \in Replicas : /\ LivePos(state, r, u) = PosIn(state.head[r], u)
                         /\ LivePos(state, r, v) = PosIn(state.head[r], v)
                         /\ PosIn(state.head[r], u) \in Nat /\ PosIn(state.head[r], v) \in Nat
  <2>1. \A r \in Replicas : state.head[r] \in Seq(Txs)
    BY DEF States, Logs
  <2> QED  BY <2>1, PosInLog DEF LivePos
<1>2. Before(state, B, u, v) = forth
  BY <1>1 DEF Before, Preferring, Reporters
<1>3. /\ B \in SUBSET Replicas /\ forth \in SUBSET Replicas
      /\ back \in SUBSET (B \ forth) /\ B \ forth \in SUBSET Replicas
      /\ forth \in SUBSET Reporters(state, u) /\ Reporters(state, u) \in SUBSET Replicas
  BY <1>1 DEF Reporters, Preferring
<1>4. /\ Cardinality(forth) \in Nat /\ Cardinality(forth) >= EdgeThreshold
      /\ Cardinality(back) \in Nat /\ Cardinality(back) < EdgeThreshold
      /\ Cardinality(Reporters(state, u)) >= EdgeThreshold
  <2> HIDE DEF forth, back, B
  <2>1. Cardinality(forth) >= EdgeThreshold /\ Cardinality(B \ forth) < EdgeThreshold
    BY <1>2 DEF B
  <2>2. Cardinality(back) \in Nat /\ Cardinality(back) <= Cardinality(B \ forth)
    BY <1>3, SubsetCount
  <2>3. /\ Cardinality(forth) \in Nat /\ Cardinality(forth) <= Cardinality(Reporters(state, u))
        /\ Cardinality(Reporters(state, u)) \in Nat /\ Cardinality(B \ forth) \in Nat
    BY <1>3, SubsetCount
  <2> QED  BY <2>1, <2>2, <2>3, ThresholdValues
<1>5. u # v
  <2> SUFFICES ASSUME u = v PROVE FALSE
    OBVIOUS
  <2>1. forth = {}
    BY <1>1 DEF Preferring
  <2>2. Cardinality(forth) = 0
    BY <2>1, FS_EmptySet
  <2> HIDE DEF forth
  <2> QED  BY <1>4, <2>2, ThresholdValues
<1>6. u \in NodesOf(state)
  BY <1>4, NodesByCount
<1>7. /\ WeightsOf(state)[<<u, v>>] = Cardinality(forth)
      /\ WeightsOf(state)[<<v, u>>] = Cardinality(back)
  BY DEF WeightsOf
<1> HIDE DEF forth, back
<1>8. EdgePred(u, v, WeightsOf(state))
  BY <1>4, <1>7, ThresholdValues DEF EdgePred
<1> QED  BY <1>5, <1>6, <1>8 DEF EdgesOf

(* A transaction is settled when it is output. *)
LEMMA SettledNew ==
    ASSUME committed \in States, NEW batch, NEW pre, NEW graph, NEW finalOrder,
           Commits(batch, pre, graph, finalOrder),
           \A id \in Done(committed) : committed.done[id].batch <= committed.batchCounter,
           NEW v \in Output(finalOrder)
    PROVE  Settled(committed', v)
<1> DEFINE B == Reporters(pre, v)
<1>1. /\ pre \in States /\ ExactCaches(pre) /\ Exact(graph, pre)
      /\ finalOrder = BuildProposal(graph, pre).finalOrder
      /\ Output(finalOrder) \cap Done(committed) = {} /\ Output(finalOrder) \in SUBSET Txs
  BY DEF Commits
<1>2. /\ Done(committed') = Done(committed) \cup Output(finalOrder)
      /\ \A id \in Txs \ Output(finalOrder) : committed'.done[id] = committed.done[id]
      /\ \A id \in Output(finalOrder) :
            \E i \in DOMAIN finalOrder :
                /\ id \in Ids(finalOrder[i].txs)
                /\ committed'.done[id] = [fragment |-> committed.fragmentSeq + 1,
                                          batch |-> committed.batchCounter + i]
      /\ committed'.head = pre.head /\ Done(pre) = Done(committed)
      /\ DOMAIN finalOrder = 1 .. Len(finalOrder) /\ Len(finalOrder) \in Nat
      /\ committed.batchCounter \in Nat
  BY CommitOutput
<1>3. /\ IsGraph(graph) /\ graph.nodes = NodesOf(pre) /\ graph.edges = EdgesOf(pre)
  BY <1>1, ExactGraph
<1>4. pre.batchCounter \in Nat /\ pre.head \in [Replicas -> Logs]
  BY <1>1 DEF States
<1>5. v \in Txs /\ v \notin Done(pre)
  BY <1>1, <1>2
<1>6. v \in NodesOf(pre) /\ pre.states[v] = "solid"
  <2>1. Output(finalOrder) = UNION Selected(graph, pre)
    BY <1>1, <1>3, <1>4, ProposalOutput
  <2>2. PICK c \in Selected(graph, pre) : v \in c
    BY <2>1
  <2>3. pre.states[v] = "solid"
    BY <1>3, <2>2, SelectedClosed
  <2>4. c \in GraphComponents(graph)
    BY DEF Selected
  <2>5. GraphComponents(graph) \subseteq SUBSET graph.nodes
    BY <1>3, ComponentFacts
  <2> QED  BY <1>3, <2>2, <2>3, <2>4, <2>5
<1>7. B \in SUBSET Replicas /\ Cardinality(B) >= SolidThreshold
  <2>1. Shade(Cardinality(B)) = "solid"
    BY <1>1, <1>5, <1>6 DEF ExactCaches, StatesOf
  <2>2. Cardinality(B) \in Nat
    BY CountTypes
  <2>3. B \in SUBSET Replicas
    BY DEF Reporters
  <2> HIDE DEF B
  <2> QED  BY <2>1, <2>2, <2>3, ThresholdValues
<1>8. \A r \in B : PosIn(committed'.head[r], v) > 0
  BY <1>2, <1>5 DEF Reporters, LivePos
<1>9. ASSUME NEW u \in Txs, Cardinality(Before(committed', B, u, v)) >= EdgeThreshold,
             Cardinality(B \ Before(committed', B, u, v)) < EdgeThreshold
      PROVE  u \in Done(committed') /\ committed'.done[u].batch <= committed'.done[v].batch
  <2>1. Before(committed', B, u, v) = Before(pre, B, u, v)
    BY <1>2 DEF Before
  <2>2. PICK j \in DOMAIN finalOrder :
            /\ v \in Ids(finalOrder[j].txs)
            /\ committed'.done[v] = [fragment |-> committed.fragmentSeq + 1,
                                     batch |-> committed.batchCounter + j]
    BY <1>2
  <2>3. CASE u \in Done(committed)
    <3>1. committed'.done[u] = committed.done[u]
      BY <1>1, <1>2, <2>3
    <3>2. committed.done[u].batch <= committed.batchCounter
      BY <2>3
    <3>3. committed.done[u].batch \in Nat
      BY DEF States
    <3>4. j \in Nat
      BY <1>2
    <3> QED  BY <1>2, <2>2, <2>3, <3>1, <3>2, <3>3, <3>4
  <2>4. CASE u \notin Done(committed)
    <3>1. <<u, v>> \in graph.edges
      <4>1. /\ Cardinality(Before(pre, B, u, v)) >= EdgeThreshold
            /\ Cardinality(B \ Before(pre, B, u, v)) < EdgeThreshold
        BY <1>9, <2>1
      <4> QED  BY <1>1, <1>2, <1>3, <1>5, <1>6, <2>4, <4>1, DecidedEdge
    <3>2. /\ u \in Output(finalOrder)
          /\ \A i, k \in DOMAIN finalOrder :
                u \in Ids(finalOrder[i].txs) /\ v \in Ids(finalOrder[k].txs) => i <= k
      BY <1>1, <1>3, <1>4, <3>1, EdgeOrder
    <3>3. PICK i \in DOMAIN finalOrder :
            /\ u \in Ids(finalOrder[i].txs)
            /\ committed'.done[u] = [fragment |-> committed.fragmentSeq + 1,
                                     batch |-> committed.batchCounter + i]
      BY <1>2, <3>2
    <3>4. i <= j /\ i \in Nat /\ j \in Nat
      BY <1>2, <2>2, <3>2, <3>3
    <3> QED  BY <1>2, <2>2, <3>2, <3>3, <3>4
  <2> QED  BY <2>3, <2>4
<1> HIDE DEF B
<1> QED  BY <1>7, <1>8, <1>9 DEF Settled

(* Every step keeps output transactions settled. *)
LEMMA FairInvInductive == EngineInv /\ FairInv /\ [Next]_vars => FairInv'
<1> SUFFICES ASSUME EngineInv, FairInv, [Next]_vars PROVE FairInv'
  OBVIOUS
<1>1. CASE CommitPending
  <2>1. PICK batch, pre, graph, finalOrder : Commits(batch, pre, graph, finalOrder)
    BY <1>1, CommitFacts
  <2>2. /\ committed \in States /\ Output(finalOrder) \cap Done(committed) = {}
        /\ Extending(committed, batch) /\ AppliedLogs(committed, batch, pre)
    BY <2>1 DEF EngineInv, CommittedExact, Commits
  <2>3. \A id \in Done(committed) : committed.done[id].batch <= committed.batchCounter
    BY DEF FairInv
  <2>4. /\ Done(committed') = Done(committed) \cup Output(finalOrder)
        /\ \A id \in Txs \ Output(finalOrder) : committed'.done[id] = committed.done[id]
        /\ \A id \in Output(finalOrder) :
            \E i \in DOMAIN finalOrder :
                committed'.done[id] = [fragment |-> committed.fragmentSeq + 1,
                                       batch |-> committed.batchCounter + i]
        /\ committed'.batchCounter = committed.batchCounter + Len(finalOrder)
        /\ committed'.head = pre.head
        /\ DOMAIN finalOrder = 1 .. Len(finalOrder) /\ Len(finalOrder) \in Nat
        /\ committed.batchCounter \in Nat
    BY <2>1, <2>2, CommitOutput
  <2>5. /\ Done(committed) \subseteq Done(committed')
        /\ \A id \in Done(committed) : committed'.done[id] = committed.done[id]
    BY <2>2, <2>4 DEF Done
  <2>6. ASSUME NEW v \in Done(committed)
        PROVE  Settled(committed', v) /\ committed'.done[v].batch <= committed'.batchCounter
    <3>1. Settled(committed', v)
      BY <2>2, <2>4, <2>5, SettledKept DEF FairInv
    <3>2. committed.done[v].batch \in Nat
      BY <2>2 DEF States, Done
    <3> QED  BY <2>3, <2>4, <2>5, <3>1, <3>2
  <2>7. ASSUME NEW v \in Output(finalOrder)
        PROVE  Settled(committed', v) /\ committed'.done[v].batch <= committed'.batchCounter
    <3>1. Settled(committed', v)
      BY <2>1, <2>2, <2>3, SettledNew
    <3>2. PICK i \in DOMAIN finalOrder :
            committed'.done[v] = [fragment |-> committed.fragmentSeq + 1,
                                  batch |-> committed.batchCounter + i]
      BY <2>4
    <3> QED  BY <2>4, <3>1, <3>2
  <2> QED  BY <2>4, <2>6, <2>7 DEF FairInv
<1>2. CASE committed' = committed
  BY <1>2 DEF FairInv
<1>3. committed' = committed \/ CommitPending
  BY DEF Next, CollectLocalOrder, ConstructCandidate, AbandonPending, vars
<1> QED  BY <1>1, <1>2, <1>3

(* Settled transactions are fairly ordered: by QuorumOverlap, QH replicas    *)
(* that report u before v decide the pair among any reporters that made v    *)
(* solid.                                                                    *)
LEMMA FairInvSuffices == EngineInv /\ FairInv => BatchOrderFairness
<1> SUFFICES ASSUME EngineInv, FairInv, NEW u \in Txs, NEW v \in Txs,
                    Cardinality(ReportedBefore(committed, u, v)) >= QH, v \in Done(committed)
             PROVE  u \in Done(committed) /\ committed.done[u].batch <= committed.done[v].batch
  BY DEF BatchOrderFairness
<1>1. PICK B \in SUBSET Replicas :
        /\ Cardinality(B) >= SolidThreshold
        /\ \A r \in B : PosIn(committed.head[r], v) > 0
        /\ \A w \in Txs :
            /\ Cardinality(Before(committed, B, w, v)) >= EdgeThreshold
            /\ Cardinality(B \ Before(committed, B, w, v)) < EdgeThreshold
            => w \in Done(committed) /\ committed.done[w].batch <= committed.done[v].batch
  BY DEF FairInv, Settled
<1> DEFINE A == ReportedBefore(committed, u, v)
           forth == Before(committed, B, u, v)
<1>2. A \in SUBSET Replicas /\ forth \in SUBSET B /\ B \ forth \in SUBSET Replicas
  BY DEF ReportedBefore, Before
<1>3. A \cap B \in SUBSET forth /\ B \ forth \in SUBSET (Replicas \ A)
  BY <1>1 DEF ReportedBefore, Before
<1> HIDE DEF A, forth
<1>4. Cardinality(A \cap B) >= EdgeThreshold /\ Cardinality(Replicas \ A) < EdgeThreshold
  BY <1>1, <1>2, QuorumOverlap DEF A
<1>5. /\ Cardinality(A \cap B) \in Nat /\ Cardinality(forth) \in Nat
      /\ Cardinality(A \cap B) <= Cardinality(forth)
  BY <1>2, <1>3, SubsetCount
<1>6. /\ Cardinality(B \ forth) \in Nat /\ Cardinality(Replicas \ A) \in Nat
      /\ Cardinality(B \ forth) <= Cardinality(Replicas \ A)
  <2>1. Replicas \ A \in SUBSET Replicas
    OBVIOUS
  <2> QED  BY <1>2, <1>3, <2>1, SubsetCount
<1>7. Cardinality(forth) >= EdgeThreshold /\ Cardinality(B \ forth) < EdgeThreshold
  BY <1>4, <1>5, <1>6, ThresholdValues
<1> QED  BY <1>1, <1>7 DEF forth

(* Batch-order fairness: when QH replicas report u before v, v is never      *)
(* output in an earlier batch than u, for every set of replicas, every QH    *)
(* and F with 2*QH >= N + 2*F + 1 and all logs (buildProposal, edgePred,     *)
(* CalculateSolidThreshold, CalculateEdgeThreshold).                         *)
THEOREM BatchOrderFairnessHolds == Spec => []BatchOrderFairness
<1>1. Init => FairInv
  <2>1. Init => Done(committed) = {}
    BY DEF Init, NewEvidenceState, Done
  <2> QED  BY <2>1 DEF FairInv
<1>2. Init => EngineInv
  BY InitialExact
<1>3. EngineInv /\ [Next]_vars => EngineInv'
  BY EngineInvInductive
<1>4. EngineInv /\ FairInv /\ [Next]_vars => FairInv'
  BY FairInvInductive
<1>5. EngineInv /\ FairInv => BatchOrderFairness
  BY FairInvSuffices
<1> QED  BY <1>1, <1>2, <1>3, <1>4, <1>5, PTL DEF Spec

-----------------------------------------------------------------------------
(* Nothing waits needlessly. *)

(* rest are the edges between the transactions output leaves behind. *)
LeavesOut(graph, state, output, rest) ==
    /\ IsGraph(graph)
    /\ state.batchCounter \in Nat
    /\ output = Output(BuildProposal(graph, state).finalOrder)
    /\ rest = {e \in graph.edges : e[1] \notin output /\ e[2] \notin output}

(* Whatever is left out of the output follows a transaction that is not solid *)
(* along edges between transactions that are left out.                       *)
LEMMA LeftOutFollows ==
    ASSUME NEW graph, NEW state, NEW output, NEW rest, LeavesOut(graph, state, output, rest),
           NEW v \in graph.nodes \ output
    PROVE  \E u \in graph.nodes \ output :
                state.states[u] # "solid" /\ <<u, v>> \in Reachability(rest)
<1> DEFINE C == GraphComponents(graph)
           K == GraphCondensation(graph)
           sel == Selected(graph, state)
           U == graph.nodes \ output
           reach == Reachability(graph.edges)
           within == Reachability(rest)
           kept == {e \in Txs \X Txs : e[1] \in U => e[2] \in U /\ e \in within}
           followers == {c \in C : \A x \in c : \E u \in U :
                            state.states[u] # "solid" /\ <<u, x>> \in reach}
<1> USE DEF LeavesOut
<1>1. output = UNION sel
  BY ProposalOutput
<1>2. /\ C \subseteq SUBSET graph.nodes /\ \A x \in graph.nodes : \E c \in C : x \in c
      /\ \A c \in C : \A x \in c, y \in graph.nodes :
            y \in c <=> <<x, y>> \in reach /\ <<y, x>> \in reach
      /\ \A c, d \in C : \A x : x \in c /\ x \in d => c = d
      /\ \A c, d \in C : \A x \in c, y \in d : <<x, y>> \in graph.edges /\ c # d => <<c, d>> \in K
  BY ComponentFacts
<1>3. /\ \A c \in sel, d \in C : <<d, c>> \in K => d \in sel
      /\ \A Q : Unready(graph, state) \subseteq Q
                    /\ (\A c, d \in C : c \in Q /\ <<c, d>> \in K => d \in Q)
                    => C \ sel \subseteq Q
  BY SelectedClosed
<1>4. /\ graph.nodes \in SUBSET Txs /\ graph.edges \in SUBSET (graph.nodes \X graph.nodes)
      /\ graph.edges \in SUBSET (Txs \X Txs) /\ rest \in SUBSET (Txs \X Txs)
  BY DEF IsGraph
<1>5. /\ reach \in SUBSET (Txs \X Txs) /\ graph.edges \subseteq reach
      /\ (\A id \in Txs : <<id, id>> \in reach) /\ Transitive(reach)
      /\ \A Q : graph.edges \subseteq Q /\ (\A id \in Txs : <<id, id>> \in Q) /\ Transitive(Q)
                    => reach \subseteq Q
  BY <1>4, ReachabilityLeast
<1>6. /\ within \in SUBSET (Txs \X Txs) /\ rest \subseteq within
      /\ (\A id \in Txs : <<id, id>> \in within) /\ Transitive(within)
  BY <1>4, ReachabilityLeast
<1>7. sel \subseteq C /\ \A c \in C : c \in sel <=> c \notin C \ sel
  BY DEF Selected
<1>8. \A c \in C : \A x \in c : x \in U <=> c \notin sel
  <2> HIDE DEF C, K, sel, reach, within
  <2> QED  BY <1>1, <1>2, <1>7
<1> HIDE DEF C, K, sel, reach, within, U
<1>9. \A e \in graph.edges : e[1] \in U => e[2] \in U /\ e \in within
  <2> SUFFICES ASSUME NEW e \in graph.edges, e[1] \in U  PROVE e[2] \in U /\ e \in within
    OBVIOUS
  <2>1. e = <<e[1], e[2]>> /\ e[1] \in graph.nodes /\ e[2] \in graph.nodes
    BY <1>4
  <2>2. PICK c \in C : e[1] \in c
    BY <1>2, <2>1
  <2>3. PICK d \in C : e[2] \in d
    BY <1>2, <2>1
  <2>4. c \notin sel
    BY <1>8, <2>2
  <2>5. d \notin sel
    <3>1. CASE c = d
      BY <2>4, <3>1
    <3>2. CASE c # d
      <4>1. <<c, d>> \in K
        <5>1. <<e[1], e[2]>> \in graph.edges
          BY <2>1
        <5> QED  BY <1>2, <2>2, <2>3, <3>2, <5>1
      <4> QED  BY <1>3, <2>2, <2>3, <2>4, <4>1
    <3> QED  BY <3>1, <3>2
  <2>6. e[2] \in U
    BY <1>8, <2>3, <2>5
  <2>7. e \in rest
    BY <2>6 DEF U
  <2> QED  BY <1>6, <2>6, <2>7
<1>10. reach \subseteq kept
  <2>1. graph.edges \subseteq kept
    BY <1>4, <1>9
  <2>2. \A id \in Txs : <<id, id>> \in kept
    BY <1>6
  <2>3. \A a, b \in Txs : <<a, b>> \in kept <=> (a \in U => b \in U /\ <<a, b>> \in within)
    OBVIOUS
  <2> HIDE DEF kept
  <2>4. Transitive(kept)
    BY <1>6, <2>3 DEF Transitive
  <2> QED  BY <1>5, <2>1, <2>2, <2>4, Zenon
<1>11. Unready(graph, state) \subseteq followers
  <2> SUFFICES ASSUME NEW c \in C, NEW id \in c, state.states[id] # "solid"
               PROVE  c \in followers
    BY DEF Unready, C
  <2>1. c \notin sel
    BY SelectedClosed DEF sel
  <2>2. id \in U /\ \A x \in c : <<id, x>> \in reach
    BY <1>2, <1>8, <2>1
  <2> QED  BY <2>2
<1>12. ASSUME NEW c \in followers, NEW d \in C, <<c, d>> \in K  PROVE d \in followers
  <2>1. PICK e \in graph.edges : e[1] \in c /\ e[2] \in d
    BY <1>12 DEF K, GraphCondensation, Condensation
  <2>2. e = <<e[1], e[2]>> /\ e[1] \in graph.nodes /\ e[2] \in graph.nodes /\ e \in reach
    BY <1>4, <1>5
  <2>3. PICK u \in U : state.states[u] # "solid" /\ <<u, e[1]>> \in reach
    BY <2>1
  <2>4. \A x \in d : x \in Txs /\ <<e[2], x>> \in reach
    <3> TAKE x \in d
    <3>1. x \in graph.nodes
      BY <1>2
    <3>2. x \in d <=> <<e[2], x>> \in reach /\ <<x, e[2]>> \in reach
      BY <1>2, <2>1, <3>1
    <3> QED  BY <1>4, <3>1, <3>2
  <2>5. u \in Txs /\ e[1] \in Txs /\ e[2] \in Txs
    BY <1>4, <2>2 DEF U
  <2>6. \A x \in d : <<u, x>> \in reach
    <3>1. <<e[1], e[2]>> \in reach
      BY <2>2
    <3>2. <<u, e[2]>> \in reach
      BY <1>5, <2>3, <2>5, <3>1 DEF Transitive
    <3> QED  BY <1>5, <2>4, <2>5, <3>2 DEF Transitive
  <2> QED  BY <2>3, <2>6
<1>13. C \ sel \subseteq followers
  <2> HIDE DEF followers
  <2>1. \A c, d \in C : c \in followers /\ <<c, d>> \in K => d \in followers
    BY <1>12
  <2> QED  BY <1>3, <1>11, <2>1, Zenon
<1>14. v \in U
  BY DEF U
<1>15. PICK c \in C : v \in c
  BY <1>2
<1>16. c \in followers
  BY <1>8, <1>13, <1>14, <1>15
<1>17. PICK u \in U : state.states[u] # "solid" /\ <<u, v>> \in reach
  BY <1>15, <1>16
<1>18. <<u, v>> \in within
  BY <1>10, <1>17
<1> QED  BY <1>17, <1>18 DEF within, U

(* A commit leaves behind only solid transactions that follow a shaded one. *)
LEMMA BlockedStep == EngineInv /\ OnlyShadedBlocks /\ [Next]_vars => OnlyShadedBlocks'
<1> SUFFICES ASSUME EngineInv, OnlyShadedBlocks, [Next]_vars PROVE OnlyShadedBlocks'
  OBVIOUS
<1>1. CASE CommitPending
  <2>1. PICK batch, pre, graph, finalOrder : Commits(batch, pre, graph, finalOrder)
    BY <1>1, CommitFacts
  <2> DEFINE output == Output(finalOrder)
             rest == {e \in EdgesOf(pre) : e[1] \notin output /\ e[2] \notin output}
  <2>2. /\ committed \in States /\ pre \in States /\ ExactCaches(pre) /\ Exact(graph, pre)
        /\ finalOrder = BuildProposal(graph, pre).finalOrder /\ output \in SUBSET Txs
    BY <2>1 DEF EngineInv, CommittedExact, Commits
  <2>3. /\ Done(committed') = Done(committed) \cup output
        /\ committed'.head = pre.head /\ Done(pre) = Done(committed)
    BY <2>1, <2>2, CommitOutput
  <2>4. Finalizes(pre, output, committed')
    BY <2>2, <2>3 DEF Finalizes
  <2>5. /\ EdgesOf(committed') = rest
        /\ \A id \in Txs \ output : StatesOf(committed')[id] = StatesOf(pre)[id]
        /\ \A id \in output : StatesOf(committed')[id] = "blank"
        /\ NodesOf(committed') = NodesOf(pre) \ output
    BY <2>4, FinalizedGraph
  <2>6. /\ IsGraph(graph) /\ graph.nodes = NodesOf(pre) /\ graph.edges = EdgesOf(pre)
    BY <2>2, ExactGraph
  <2>7. pre.batchCounter \in Nat /\ pre.states = StatesOf(pre)
        /\ StatesOf(pre) \in [Txs -> {"blank", "shaded", "solid"}]
    BY <2>2, CountTypes DEF States, ExactCaches
  <2> HIDE DEF output
  <2>8. ASSUME NEW v \in Txs, StatesOf(committed')[v] = "solid"
        PROVE  \E u \in Txs : StatesOf(committed')[u] = "shaded" /\ <<u, v>> \in Reachability(rest)
    <3>1. v \in NodesOf(pre) \ output
      BY <2>5, <2>8 DEF NodesOf
    <3>2. PICK u \in NodesOf(pre) \ output :
            pre.states[u] # "solid" /\ <<u, v>> \in Reachability(rest)
      <4> HIDE DEF rest
      <4> DEFINE left == {e \in graph.edges : e[1] \notin output /\ e[2] \notin output}
      <4>1. v \in graph.nodes \ output /\ left = rest
        BY <2>6, <3>1 DEF rest
      <4>2. output = Output(BuildProposal(graph, pre).finalOrder)
        BY <2>2 DEF output
      <4>3. \E u \in graph.nodes \ output :
                pre.states[u] # "solid" /\ <<u, v>> \in Reachability(left)
        <5>1. LeavesOut(graph, pre, output, left)
          BY <2>6, <2>7, <4>2 DEF LeavesOut
        <5> HIDE DEF left
        <5> QED  BY <4>1, <5>1, LeftOutFollows
      <4> HIDE DEF left, rest
      <4> QED  BY <2>6, <4>1, <4>3
    <3>3. u \in Txs /\ StatesOf(pre)[u] # "blank"
      BY DEF NodesOf
    <3>4. StatesOf(pre)[u] = "shaded"
      BY <2>7, <3>2, <3>3
    <3> QED  BY <2>5, <3>2, <3>3, <3>4
  <2> HIDE DEF rest
  <2> QED  BY <2>5, <2>8 DEF OnlyShadedBlocks
<1>2. CASE committed' = committed
  BY <1>2 DEF OnlyShadedBlocks
<1>3. committed' = committed \/ CommitPending
  BY DEF Next, CollectLocalOrder, ConstructCandidate, AbandonPending, vars
<1> QED  BY <1>1, <1>2, <1>3

(* After a commit every solid transaction that is still live is reachable    *)
(* from one that too few replicas have reported (buildProposal), for all     *)
(* values of the constants.                                                  *)
THEOREM OnlyShadedBlocksHolds == Spec => []OnlyShadedBlocks
<1>1. Init => OnlyShadedBlocks
  <2> SUFFICES ASSUME Init PROVE OnlyShadedBlocks
    OBVIOUS
  <2>1. ExactCaches(committed) /\ committed.states = [id \in Txs |-> "blank"]
    BY InitialExact DEF EngineInv, CommittedExact, Init, NewEvidenceState
  <2>2. StatesOf(committed) = [id \in Txs |-> "blank"]
    BY <2>1 DEF ExactCaches
  <2> QED  BY <2>2 DEF OnlyShadedBlocks
<1>2. Init => EngineInv
  BY InitialExact
<1>3. EngineInv /\ [Next]_vars => EngineInv'
  BY EngineInvInductive
<1>4. EngineInv /\ OnlyShadedBlocks /\ [Next]_vars => OnlyShadedBlocks'
  BY BlockedStep
<1> QED  BY <1>1, <1>2, <1>3, <1>4, PTL DEF Spec

-----------------------------------------------------------------------------
(* What a follower computes of the graph from the evidence alone. *)

(* With exact caches the local predicate gives the nodes and the edges of    *)
(* the graph (localEdgePred, the active set of verifyStructuralCertificate). *)
LEMMA LocalGraph ==
    ASSUME NEW state \in States, ExactCaches(state)
    PROVE  /\ Active(state) = NodesOf(state) /\ NodesOf(state) \cap Done(state) = {}
           /\ NodesOf(state) \in SUBSET Txs
           /\ \A u, v \in Txs : LocalEdgePred(state, u, v) <=> <<u, v>> \in EdgesOf(state)
           /\ \A ids \in SUBSET Txs :
                LocalEdges(state, ids) = {e \in EdgesOf(state) : e[1] \in ids /\ e[2] \in ids}
<1>1. /\ state.live = {id \in Txs : Reporters(state, id) # {}}
      /\ state.weights = WeightsOf(state) /\ state.states = StatesOf(state)
      /\ state.head \in [Replicas -> Logs]
  BY DEF ExactCaches, States
<1>2. Active(state) = NodesOf(state)
  <2>1. \A id \in NodesOf(state) : Reporters(state, id) # {}
    BY NodesByCount
  <2> QED  BY <1>1, <2>1 DEF Active, NodesOf
<1>3. NodesOf(state) \cap Done(state) = {}
  <2>1. \A id \in Done(state) : Reporters(state, id) = {}
    BY DEF Reporters, LivePos
  <2> QED  BY <2>1, NodesByCount
<1>4. ASSUME NEW u \in Txs, NEW v \in Txs
      PROVE  LocalEdgePred(state, u, v) <=> <<u, v>> \in EdgesOf(state)
  <2>1. EdgePred(u, v, WeightsOf(state)) => u # v
    BY <1>1, NoSelfEdge
  <2> QED  BY <1>1, <2>1 DEF LocalEdgePred, EdgesOf, NodesOf
<1>5. NodesOf(state) \in SUBSET Txs
  BY DEF NodesOf
<1>6. ASSUME NEW ids \in SUBSET Txs
      PROVE  LocalEdges(state, ids) = {e \in EdgesOf(state) : e[1] \in ids /\ e[2] \in ids}
  <2>1. \A e \in EdgesOf(state) : e = <<e[1], e[2]>> /\ e[1] # e[2]
    BY DEF EdgesOf
  <2>2. \A e \in ids \X ids : LocalEdgePred(state, e[1], e[2]) <=> e \in EdgesOf(state)
    BY <1>4
  <2>3. \A e : e \in LocalEdges(state, ids) <=> e \in EdgesOf(state) /\ e[1] \in ids /\ e[2] \in ids
    <3> TAKE e
    <3>1. e \in LocalEdges(state, ids) => e \in ids \X ids /\ LocalEdgePred(state, e[1], e[2])
      BY DEF LocalEdges
    <3>2. e \in EdgesOf(state) /\ e[1] \in ids /\ e[2] \in ids => e \in ids \X ids /\ e[1] # e[2]
      BY <2>1
    <3> QED  BY <2>2, <3>1, <3>2 DEF LocalEdges
  <2> QED  BY <2>3
<1> QED  BY <1>2, <1>3, <1>4, <1>5, <1>6

-----------------------------------------------------------------------------
(* Sorted sequences. *)

(* A sorted set is a log of its members. *)
LEMMA SortedLog ==
    ASSUME NEW ids \in SUBSET Txs
    PROVE  /\ Sorted(ids) \in Logs /\ Ids(Sorted(ids)) = ids
           /\ Len(Sorted(ids)) = Cardinality(ids) /\ Cardinality(ids) \in Nat
<1>1. ids \in SUBSET Nat /\ IsFiniteSet(ids)
  BY TxAssumption, FS_Subset
<1>2. /\ Sorted(ids) \in Seq(ids) /\ Ids(Sorted(ids)) = ids
      /\ Len(Sorted(ids)) = Cardinality(ids) /\ Cardinality(ids) \in Nat
  BY <1>1, SortedProperties
<1>3. \A i, j \in DOMAIN Sorted(ids) : Sorted(ids)[i] = Sorted(ids)[j] => i = j
  <2>1. Increasing(Sorted(ids)) /\ DOMAIN Sorted(ids) = 1 .. Cardinality(ids)
    BY <1>1, <1>2, SortedProperties
  <2>2. \A i \in 1 .. Cardinality(ids) : Sorted(ids)[i] \in Nat
    BY <1>1, <1>2, SeqElements
  <2> SUFFICES ASSUME NEW i \in 1 .. Cardinality(ids), NEW j \in 1 .. Cardinality(ids),
                      Sorted(ids)[i] = Sorted(ids)[j]
               PROVE  i = j
    BY <2>1
  <2>3. ~(i < j) /\ ~(j < i)
    BY <2>1, <2>2 DEF Increasing
  <2> QED  BY <1>2, <2>3
<1>4. Sorted(ids) \in Seq(Txs)
  BY <1>2
<1> QED  BY <1>2, <1>3, <1>4 DEF Logs, Repeats

(* A sequence over a part of a set is one over the set. *)
LEMMA SeqWider ==
    ASSUME NEW S, NEW T, S \subseteq T, NEW seq \in Seq(S)
    PROVE  seq \in Seq(T)
<1>1. /\ DOMAIN seq = 1 .. Len(seq) /\ Len(seq) \in Nat
      /\ \A i \in DOMAIN seq : seq[i] \in S
  BY SeqElements
<1>2. seq = [i \in 1 .. Len(seq) |-> seq[i]]
  OBVIOUS
<1> QED  BY <1>1, <1>2

(* Increasing sequences of the same numbers agree as far as the first goes.  *)
LEMMA IncreasingPrefix ==
    ASSUME NEW a \in Seq(Nat), NEW b \in Seq(Nat), Increasing(a), Increasing(b), Ids(a) = Ids(b)
    PROVE  /\ Len(a) \in Nat /\ Len(b) \in Nat /\ Len(a) <= Len(b)
           /\ \A i \in 1 .. Len(a) : a[i] = b[i]
<1>1. /\ DOMAIN a = 1 .. Len(a) /\ Len(a) \in Nat /\ \A i \in 1 .. Len(a) : a[i] \in Nat
      /\ DOMAIN b = 1 .. Len(b) /\ Len(b) \in Nat /\ \A i \in 1 .. Len(b) : b[i] \in Nat
  BY SeqElements
<1>2. /\ \A i \in 1 .. Len(a) : \E j \in 1 .. Len(b) : a[i] = b[j]
      /\ \A j \in 1 .. Len(b) : \E i \in 1 .. Len(a) : a[i] = b[j]
  <2>1. Ids(a) = {a[i] : i \in 1 .. Len(a)} /\ Ids(b) = {b[i] : i \in 1 .. Len(b)}
    BY <1>1 DEF Ids
  <2> QED  BY <2>1
<1> DEFINE same == {k \in 0 .. Len(a) : k <= Len(b) /\ \A i \in 1 .. k : a[i] = b[i]}
<1>3. 0 \in same
  BY <1>1
<1>4. ASSUME NEW k \in 1 .. Len(a), k - 1 \in same  PROVE k \in same
  <2>1. k - 1 <= Len(b) /\ \A i \in 1 .. k - 1 : a[i] = b[i]
    BY <1>4
  <2> HIDE DEF same
  <2>2. PICK j \in 1 .. Len(b) : a[k] = b[j]
    BY <1>2
  <2>3. ~(j < k)
    <3> SUFFICES ASSUME j < k  PROVE FALSE
      OBVIOUS
    <3>1. j \in 1 .. k - 1 /\ j \in 1 .. Len(a)
      BY <1>1
    <3>2. a[j] = b[j] /\ a[j] < a[k]
      BY <1>1, <2>1, <3>1 DEF Increasing
    <3> QED  BY <1>1, <2>2, <3>1, <3>2
  <2>4. k \in 1 .. Len(b)
    BY <1>1, <2>3
  <2>5. ~(k < j)
    <3> SUFFICES ASSUME k < j  PROVE FALSE
      OBVIOUS
    <3>1. b[k] < a[k]
      BY <1>1, <2>2, <2>4 DEF Increasing
    <3>2. PICK i \in 1 .. Len(a) : a[i] = b[k]
      BY <1>2, <2>4
    <3>3. i < k
      <4>1. i = k \/ k < i => ~(a[i] < a[k])
        <5>1. a[i] \in Nat /\ a[k] \in Nat
          BY <1>1, <3>2
        <5>2. k < i => a[k] < a[i]
          BY <1>1, <3>2 DEF Increasing
        <5> QED  BY <5>1, <5>2
      <4> QED  BY <1>1, <3>1, <3>2, <4>1
    <3>4. i \in 1 .. k - 1 /\ i \in 1 .. Len(b)
      BY <1>1, <2>4, <3>3
    <3>5. b[i] = b[k] /\ b[i] < b[k]
      BY <1>1, <2>1, <2>4, <3>2, <3>3, <3>4 DEF Increasing
    <3> QED  BY <1>1, <2>4, <3>5
  <2>6. a[k] = b[k]
    BY <2>2, <2>3, <2>5
  <2>7. \A i \in 1 .. k : i \in 1 .. k - 1 \/ i = k
    OBVIOUS
  <2> QED  BY <2>1, <2>4, <2>6, <2>7 DEF same
<1>5. 0 .. Len(a) \subseteq same
  <2> HIDE DEF same
  <2> QED  BY <1>1, <1>3, <1>4, UpTo
<1>6. Len(a) \in same
  BY <1>1, <1>5
<1> QED  BY <1>1, <1>6

(* Sorted is the only increasing sequence of a set. *)
LEMMA SortedUnique ==
    ASSUME NEW ids \in SUBSET Txs, NEW seq \in Seq(Txs), Ids(seq) = ids,
           \A k \in 1 .. Len(seq) - 1 : seq[k] < seq[k + 1]
    PROVE  seq = Sorted(ids)
<1>1. /\ DOMAIN seq = 1 .. Len(seq) /\ Len(seq) \in Nat /\ \A i \in 1 .. Len(seq) : seq[i] \in Nat
      /\ seq \in Seq(Nat)
  <2>1. /\ DOMAIN seq = 1 .. Len(seq) /\ Len(seq) \in Nat
        /\ \A i \in 1 .. Len(seq) : seq[i] \in Nat
    BY TxAssumption, SeqElements
  <2>2. seq \in Seq(Nat)
    BY TxAssumption, SeqWider
  <2> QED  BY <2>1, <2>2
<1>2. Increasing(seq)
  <2> DEFINE above == {k \in 0 .. Len(seq) : \A j \in 1 .. k : \A i \in 1 .. j - 1 : seq[i] < seq[j]}
  <2>1. 0 \in above
    BY <1>1
  <2>2. ASSUME NEW k \in 1 .. Len(seq), k - 1 \in above  PROVE k \in above
    <3>1. \A j \in 1 .. k - 1 : \A i \in 1 .. j - 1 : seq[i] < seq[j]
      BY <2>2
    <3> HIDE DEF above
    <3>2. ASSUME NEW i \in 1 .. k - 1  PROVE seq[i] < seq[k]
      <4>1. k - 1 \in 1 .. Len(seq) - 1 /\ seq[k - 1] < seq[k - 1 + 1] /\ k - 1 + 1 = k
        BY <1>1, <3>2
      <4>2. i = k - 1 \/ (i \in 1 .. (k - 1) - 1 /\ k - 1 \in 1 .. k - 1)
        OBVIOUS
      <4>3. seq[i] \in Nat /\ seq[k - 1] \in Nat /\ seq[k] \in Nat
        BY <1>1, <4>1
      <4>4. i = k - 1 \/ seq[i] < seq[k - 1]
        BY <3>1, <4>2
      <4> QED  BY <4>1, <4>3, <4>4
    <3>3. \A j \in 1 .. k : j \in 1 .. k - 1 \/ j = k
      OBVIOUS
    <3> QED  BY <3>1, <3>2, <3>3 DEF above
  <2>3. 0 .. Len(seq) \subseteq above
    <3> HIDE DEF above
    <3> QED  BY <1>1, <2>1, <2>2, UpTo
  <2>4. Len(seq) \in above
    BY <1>1, <2>3
  <2>5. \A i, j \in 1 .. Len(seq) : i < j => i \in 1 .. j - 1
    OBVIOUS
  <2> QED  BY <1>1, <2>4, <2>5 DEF Increasing
<1>3. /\ Sorted(ids) \in Seq(Nat) /\ Increasing(Sorted(ids)) /\ Ids(Sorted(ids)) = ids
      /\ DOMAIN Sorted(ids) = 1 .. Len(Sorted(ids))
  <2>1. ids \in SUBSET Nat /\ IsFiniteSet(ids)
    BY TxAssumption, FS_Subset
  <2>2. Sorted(ids) \in Seq(ids) /\ Increasing(Sorted(ids)) /\ Ids(Sorted(ids)) = ids
    BY <2>1, SortedProperties
  <2>3. /\ DOMAIN Sorted(ids) = 1 .. Len(Sorted(ids))
        /\ \A i \in 1 .. Len(Sorted(ids)) : Sorted(ids)[i] \in Nat
        /\ Len(Sorted(ids)) \in Nat
    BY <2>1, <2>2, SeqElements
  <2>4. Sorted(ids) \in [1 .. Cardinality(ids) -> ids] /\ Cardinality(ids) \in Nat
    BY <2>1, SortedProperties
  <2>5. Sorted(ids) \in Seq(Nat)
    BY <2>1, <2>2, SeqWider
  <2> QED  BY <2>2, <2>3, <2>5
<1>4. /\ Len(seq) <= Len(Sorted(ids)) /\ Len(Sorted(ids)) <= Len(seq)
      /\ Len(seq) \in Nat /\ Len(Sorted(ids)) \in Nat
      /\ \A i \in 1 .. Len(seq) : seq[i] = Sorted(ids)[i]
  BY <1>1, <1>2, <1>3, IncreasingPrefix
<1>5. Len(seq) = Len(Sorted(ids))
  BY <1>4
<1> QED  BY <1>1, <1>3, <1>4, <1>5

-----------------------------------------------------------------------------
(* Breadth-first search. *)

(* One vertex of the queue appends its neighbours that are not in it.        *)
Search(edges, queue, k) ==
    IF k > Len(queue) THEN queue
    ELSE queue \o Sorted(Neighbours(edges, queue[k]) \ Ids(queue))

(* The queue after each step of the search. *)
Searching(queues, roots, edges) ==
    /\ queues \in [0 .. Cardinality(Txs) -> Logs]
    /\ queues[0] = Sorted(roots)
    /\ \A k \in 1 .. Cardinality(Txs) : queues[k] = Search(edges, queues[k - 1], k)
    /\ Bfs(roots, edges) = queues[Cardinality(Txs)]

(* The edges lead to transactions. *)
Leads(edges) == \A e \in edges : e[2] \in Txs

(* A log is no longer than there are transactions. *)
LEMMA LogLength ==
    ASSUME NEW log \in Logs
    PROVE  /\ Len(log) \in Nat /\ Cardinality(Txs) \in Nat /\ Len(log) <= Cardinality(Txs)
           /\ DOMAIN log = 1 .. Len(log) /\ \A i \in 1 .. Len(log) : log[i] \in Txs
<1>1. /\ Len(log) \in Nat /\ DOMAIN log = 1 .. Len(log)
      /\ \A i \in 1 .. Len(log) : log[i] \in Txs
  BY SeqElements DEF Logs
<1>2. log \in Injection(1 .. Len(log), Txs)
  BY <1>1 DEF Logs, Repeats, Injection, IsInjective
<1>3. IsFiniteSet(1 .. Len(log)) /\ Cardinality(1 .. Len(log)) = Len(log)
  BY <1>1, FS_Interval
<1>4. Cardinality(1 .. Len(log)) <= Cardinality(Txs)
  BY <1>2, <1>3, TxAssumption, FS_Injection
<1> QED  BY <1>1, <1>3, <1>4, TxAssumption, FS_CardinalityType

(* One step of the search. *)
LEMMA SearchStep ==
    ASSUME NEW edges, Leads(edges), NEW queue \in Logs, NEW k \in Nat \ {0}
    PROVE  /\ Search(edges, queue, k) \in Logs
           /\ Len(queue) <= Len(Search(edges, queue, k)) /\ Len(queue) \in Nat
           /\ \A i \in 1 .. Len(queue) : Search(edges, queue, k)[i] = queue[i]
           /\ Ids(queue) \subseteq Ids(Search(edges, queue, k))
           /\ Ids(Search(edges, queue, k)) \subseteq
                Ids(queue) \cup {e[2] : e \in {d \in edges : k <= Len(queue) /\ d[1] = queue[k]}}
           /\ k <= Len(queue) =>
                \A e \in edges : e[1] = queue[k] => e[2] \in Ids(Search(edges, queue, k))
           /\ k > Len(queue) => Search(edges, queue, k) = queue
<1>1. CASE k > Len(queue)
  <2>1. Search(edges, queue, k) = queue
    BY <1>1 DEF Search
  <2>2. Len(queue) \in Nat
    BY LogLength
  <2> QED  BY <1>1, <2>1, <2>2
<1>2. CASE ~(k > Len(queue))
  <2> DEFINE found == Neighbours(edges, queue[k])
             ext == Sorted(found \ Ids(queue))
  <2>1. Search(edges, queue, k) = queue \o ext
    BY <1>2 DEF Search
  <2>2. found \in SUBSET Txs /\ found = {e[2] : e \in {d \in edges : d[1] = queue[k]}}
    BY DEF Neighbours, Leads
  <2>3. ext \in Logs /\ Ids(ext) = found \ Ids(queue)
    <3> HIDE DEF found
    <3> QED  BY <2>2, SortedLog
  <2> HIDE DEF ext
  <2>4. /\ queue \o ext \in Logs /\ Ids(queue \o ext) = Ids(queue) \cup found
    <3>1. queue \o ext \in Logs /\ Ids(queue \o ext) = Ids(queue) \cup Ids(ext)
      BY <2>3, PosInExtension
    <3> HIDE DEF found
    <3> QED  BY <2>3, <3>1
  <2>5. /\ Len(queue) <= Len(queue \o ext) /\ Len(queue) \in Nat
        /\ \A i \in 1 .. Len(queue) : (queue \o ext)[i] = queue[i]
    BY <2>3 DEF Logs
  <2>6. k <= Len(queue)
    BY <1>2, <2>5
  <2>7. \A e \in edges : e[1] = queue[k] => e[2] \in found
    BY <2>2
  <2> HIDE DEF found
  <2> QED  BY <2>1, <2>2, <2>4, <2>5, <2>6, <2>7
<1> QED  BY <1>1, <1>2

(* The recursion of Bfs, as the sequence of its queues. *)
LEMMA SearchSteps ==
    ASSUME NEW roots \in SUBSET Txs, NEW edges, Leads(edges)
    PROVE  \E queues : Searching(queues, roots, edges)
<1> DEFINE n == Cardinality(Txs)
           S == Logs
           base == Sorted(roots)
           step == [p \in (1 .. n) \X S |-> Search(edges, p[2], p[1])]
           eqn(f) == f = [k \in 0 .. n |->
                IF k = 0 THEN Sorted(roots)
                ELSE LET before == f[k-1]
                     IN  IF k > Len(before) THEN before
                         ELSE before \o Sorted(Neighbours(edges, before[k]) \ Ids(before))]
           queues == CHOOSE f : eqn(f)
<1>1. n \in Nat
  BY TxAssumption, FS_CardinalityType
<1>2. base \in S /\ step \in [(1 .. n) \X S -> S]
  <2>1. \A k \in 1 .. n, q \in S : Search(edges, q, k) \in S
    <3> TAKE k \in 1 .. n, q \in S
    <3>1. k \in Nat \ {0}
      BY <1>1
    <3> QED  BY <3>1, SearchStep
  <2>2. base \in S
    BY SortedLog
  <2> HIDE DEF n, S, base
  <2> QED  BY <2>1, <2>2
<1>3. PICK f : Iterates(f, n, S, base, step)
  <2> HIDE DEF n, S, step, base
  <2> QED  BY <1>1, <1>2, IteratesExist
<1>4. /\ f \in [0 .. n -> S] /\ f[0] = base
      /\ \A k \in 1 .. n : f[k] = Search(edges, f[k - 1], k)
  <2>1. f \in [0 .. n -> S] /\ f[0] = base /\ \A k \in 1 .. n : f[k] = step[<<k, f[k - 1]>>]
    BY <1>3, Zenon DEF Iterates
  <2>2. ASSUME NEW k \in 1 .. n  PROVE f[k] = Search(edges, f[k - 1], k)
    <3>1. k - 1 \in 0 .. n
      BY <1>1
    <3>2. f[k - 1] \in S
      <4> HIDE DEF S, n
      <4> QED  BY <2>1, <3>1
    <3> HIDE DEF S, n
    <3> QED  BY <2>1, <3>2
  <2> QED  BY <2>1, <2>2
<1>5. eqn(f)
  <2>1. f = [k \in 0 .. n |-> IF k = 0 THEN base ELSE Search(edges, f[k - 1], k)]
    <3> HIDE DEF S, n, base
    <3> QED  BY <1>1, <1>4
  <2> QED  BY <2>1, Zenon DEF Search
<1>6. eqn(queues)
  <2> HIDE DEF eqn
  <2> QED  BY <1>5, Zenon
<1>7. queues = [k \in 0 .. n |-> IF k = 0 THEN base ELSE Search(edges, queues[k - 1], k)]
  <2> HIDE DEF queues, n
  <2> QED  BY <1>6, Zenon DEF Search
<1>8. /\ queues[0] = base
      /\ \A k \in 1 .. n : queues[k] = Search(edges, queues[k - 1], k)
  <2> HIDE DEF queues, n, base
  <2> QED  BY <1>1, <1>7
<1>9. \A k \in 0 .. n : queues[k] \in S
  <2> DEFINE A == {k \in 0 .. n : queues[k] \in S}
  <2>1. 0 \in A
    <3> HIDE DEF queues, n, S, base
    <3> QED  BY <1>1, <1>2, <1>8
  <2>2. ASSUME NEW k \in 1 .. n, k - 1 \in A  PROVE k \in A
    <3>1. k \in Nat \ {0} /\ queues[k - 1] \in S /\ k \in 0 .. n
      BY <1>1, <2>2
    <3>2. Search(edges, queues[k - 1], k) \in S
      <4> HIDE DEF queues, n
      <4> QED  BY <3>1, SearchStep
    <3> HIDE DEF queues, n, S
    <3> QED  BY <1>8, <3>1, <3>2
  <2>3. 0 .. n \subseteq A
    <3> HIDE DEF A, n
    <3> QED  BY <1>1, <2>1, <2>2, UpTo
  <2> HIDE DEF queues, n, S
  <2> QED  BY <2>3
<1>10. queues \in [0 .. n -> S]
  <2> HIDE DEF queues, n, S, base
  <2> QED  BY <1>7, <1>9
<1>11. Bfs(roots, edges) = queues[n]
  BY DEF Bfs
<1> HIDE DEF queues
<1> QED  BY <1>8, <1>10, <1>11 DEF Searching

(* The state of the search after k steps: it has only found what must be,    *)
(* every vertex after one that leads to it, and the neighbours of the first  *)
(* k vertices.                                                               *)
Searched(roots, edges, queue, k) ==
    /\ roots \subseteq Ids(queue)
    /\ \A i \in 1 .. k : i <= Len(queue) =>
            \A e \in edges : e[1] = queue[i] => e[2] \in Ids(queue)
    /\ \A Q : roots \subseteq Q /\ (\A e \in edges : e[1] \in Q => e[2] \in Q)
                => Ids(queue) \subseteq Q
    /\ \A j \in 1 .. Len(queue) : queue[j] \in roots \/
            \E e \in edges : e[2] = queue[j] /\ \E i \in 1 .. j - 1 : e[1] = queue[i]

(* Taking the next vertex keeps it that way. *)
LEMMA SearchedStep ==
    ASSUME NEW roots \in SUBSET Txs, NEW edges, Leads(edges), NEW queue \in Logs,
           NEW k \in Nat \ {0}, Searched(roots, edges, queue, k - 1)
    PROVE  Searched(roots, edges, Search(edges, queue, k), k)
<1> DEFINE after == Search(edges, queue, k)
<1>1. /\ after \in Logs /\ Len(queue) <= Len(after) /\ Len(queue) \in Nat
      /\ \A i \in 1 .. Len(queue) : after[i] = queue[i]
      /\ Ids(queue) \subseteq Ids(after)
      /\ Ids(after) \subseteq
            Ids(queue) \cup {e[2] : e \in {d \in edges : k <= Len(queue) /\ d[1] = queue[k]}}
      /\ k <= Len(queue) => \A e \in edges : e[1] = queue[k] => e[2] \in Ids(after)
      /\ k > Len(queue) => after = queue
  BY SearchStep
<1>2. Len(after) \in Nat /\ DOMAIN after = 1 .. Len(after) /\ DOMAIN queue = 1 .. Len(queue)
  BY <1>1, LogLength
<1> HIDE DEF after
<1>3. roots \subseteq Ids(after)
  BY <1>1 DEF Searched
<1>4. ASSUME NEW i \in 1 .. k, i <= Len(after), NEW e \in edges, e[1] = after[i]
      PROVE  e[2] \in Ids(after)
  <2>1. CASE i = k
    <3>1. CASE k <= Len(queue)
      <4>1. e[1] = queue[k]
        BY <1>1, <1>4, <2>1, <3>1
      <4> QED  BY <1>1, <3>1, <4>1
    <3>2. CASE k > Len(queue)
      BY <1>1, <1>4, <2>1, <3>2
    <3> QED  BY <1>1, <3>1, <3>2
  <2>2. CASE i # k
    <3>1. i \in 1 .. k - 1
      BY <2>2
    <3>2. i <= Len(queue)
      BY <1>1, <1>4, <3>1
    <3>3. e[1] = queue[i]
      BY <1>1, <1>4, <3>2
    <3> QED  BY <1>1, <3>1, <3>2, <3>3 DEF Searched
  <2> QED  BY <2>1, <2>2
<1>5. ASSUME NEW Q, roots \subseteq Q, \A e \in edges : e[1] \in Q => e[2] \in Q
      PROVE  Ids(after) \subseteq Q
  <2>1. Ids(queue) \subseteq Q
    BY <1>5 DEF Searched
  <2>2. k <= Len(queue) => queue[k] \in Q
    BY <1>1, <1>2, <2>1 DEF Ids
  <2>3. \A d \in edges : k <= Len(queue) /\ d[1] = queue[k] => d[2] \in Q
    BY <1>5, <2>2
  <2> QED  BY <1>1, <2>1, <2>3
<1>6. ASSUME NEW j \in 1 .. Len(after)
      PROVE  after[j] \in roots \/
                \E e \in edges : e[2] = after[j] /\ \E i \in 1 .. j - 1 : e[1] = after[i]
  <2>1. CASE j <= Len(queue)
    <3>1. after[j] = queue[j] /\ \A i \in 1 .. j - 1 : after[i] = queue[i]
      BY <1>1, <2>1
    <3>2. j \in 1 .. Len(queue)
      BY <1>1, <2>1
    <3>3. queue[j] \in roots \/
            \E e \in edges : e[2] = queue[j] /\ \E i \in 1 .. j - 1 : e[1] = queue[i]
      BY <3>2 DEF Searched
    <3> QED  BY <3>1, <3>3
  <2>2. CASE j > Len(queue)
    <3>1. after[j] \in Ids(after)
      BY <1>2 DEF Ids
    <3>2. after[j] \notin Ids(queue)
      <4> SUFFICES ASSUME after[j] \in Ids(queue)  PROVE FALSE
        OBVIOUS
      <4>1. PICK i \in 1 .. Len(queue) : queue[i] = after[j]
        BY <1>2 DEF Ids
      <4>2. after[i] = after[j] /\ i \in 1 .. Len(after) /\ i # j
        BY <1>1, <1>2, <2>2, <4>1
      <4> QED  BY <1>1, <1>2, <4>2 DEF Logs, Repeats
    <3>3. PICK e \in edges : k <= Len(queue) /\ e[1] = queue[k] /\ e[2] = after[j]
      BY <1>1, <3>1, <3>2
    <3>4. k \in 1 .. j - 1 /\ after[k] = queue[k]
      BY <1>1, <2>2, <3>3
    <3> QED  BY <3>3, <3>4
  <2> QED  BY <1>1, <1>2, <2>1, <2>2
<1> QED  BY <1>3, <1>4, <1>5, <1>6 DEF Searched, after

(* Breadth-first search finds exactly what can be reached, every vertex but  *)
(* the roots after one that leads to it.                                     *)
THEOREM SearchFindsReachable ==
    ASSUME NEW roots \in SUBSET Txs, NEW edges, Leads(edges)
    PROVE  /\ Bfs(roots, edges) \in Logs
           /\ Searched(roots, edges, Bfs(roots, edges), Cardinality(Txs))
           /\ \A e \in edges : e[1] \in Ids(Bfs(roots, edges)) => e[2] \in Ids(Bfs(roots, edges))
<1> DEFINE n == Cardinality(Txs)
<1>1. n \in Nat
  BY TxAssumption, FS_CardinalityType
<1>2. \E q : Searching(q, roots, edges)
  BY SearchSteps, Zenon
<1>3. PICK q \in [0 .. n -> Logs] :
        /\ q[0] = Sorted(roots)
        /\ \A k \in 1 .. n : q[k] = Search(edges, q[k - 1], k)
        /\ Bfs(roots, edges) = q[n]
  BY <1>2, Zenon DEF Searching
<1> DEFINE A == {k \in 0 .. n : Searched(roots, edges, q[k], k)}
<1>4. 0 \in A
  <2>1. /\ Ids(q[0]) = roots /\ q[0] \in Logs
    BY <1>3, SortedLog
  <2>2. DOMAIN q[0] = 1 .. Len(q[0])
    BY <2>1, LogLength
  <2>3. \A j \in 1 .. Len(q[0]) : q[0][j] \in roots
    BY <2>1, <2>2 DEF Ids
  <2>4. Searched(roots, edges, q[0], 0)
    BY <2>1, <2>3 DEF Searched
  <2> QED  BY <1>1, <2>4
<1>5. ASSUME NEW k \in 1 .. n, k - 1 \in A  PROVE k \in A
  <2>1. q[k - 1] \in Logs /\ Searched(roots, edges, q[k - 1], k - 1) /\ k \in Nat \ {0}
    BY <1>1, <1>3, <1>5
  <2>2. Searched(roots, edges, Search(edges, q[k - 1], k), k)
    <3> HIDE DEF A, n
    <3> QED  BY <2>1, SearchedStep
  <2>3. q[k] = Search(edges, q[k - 1], k)
    BY <1>3
  <2> QED  BY <1>1, <2>2, <2>3
<1>6. 0 .. n \subseteq A
  <2> HIDE DEF A, n
  <2> QED  BY <1>1, <1>4, <1>5, UpTo
<1>7. Searched(roots, edges, q[n], n) /\ q[n] \in Logs
  BY <1>1, <1>3, <1>6
<1>8. Len(q[n]) <= n /\ Len(q[n]) \in Nat /\ DOMAIN q[n] = 1 .. Len(q[n])
  BY <1>7, LogLength
<1>9. ASSUME NEW e \in edges, e[1] \in Ids(q[n])  PROVE e[2] \in Ids(q[n])
  <2>1. PICK i \in 1 .. Len(q[n]) : q[n][i] = e[1]
    BY <1>8, <1>9 DEF Ids
  <2>2. i \in 1 .. n /\ i <= Len(q[n])
    BY <1>1, <1>8
  <2> QED  BY <1>7, <2>1, <2>2 DEF Searched
<1>10. q[n] = Bfs(roots, edges)
  BY <1>3
<1> QED  BY <1>7, <1>9, <1>10

-----------------------------------------------------------------------------
(* What a follower's acceptance means. *)

(* The certificates a follower can be sent (SCCClaim, BlockRecord and        *)
(* StructuralCertificate of types/type.go).                                  *)
AnyClaim ==
    [txs : Seq(Txs), rank : Nat, inTree : SUBSET (Txs \X Txs), outTree : SUBSET (Txs \X Txs)]
AnyRecord == [vertex : Txs, depth : Nat, hasParent : BOOLEAN, parent : Txs \cup {NoParent}]
AnyCertificate == [part : Seq(AnyClaim), blockForest : SUBSET AnyRecord]
AnyOrder == Seq([index : Nat, txs : Seq(Txs)])

(* An accepted tree gives paths of the graph between the root and every      *)
(* vertex: from the root, or to it when it is inward (verifyTree).           *)
LEMMA TreeReaches ==
    ASSUME NEW state \in States, ExactCaches(state),
           NEW component \in SUBSET Txs, NEW root \in component,
           NEW tree \in SUBSET (Txs \X Txs), NEW inward \in BOOLEAN,
           VerifyTree(state, root, component, tree, inward)
    PROVE  \A v \in component :
                IF inward THEN <<v, root>> \in Reachability(EdgesOf(state))
                ELSE <<root, v>> \in Reachability(EdgesOf(state))
<1> DEFINE reach == Reachability(EdgesOf(state))
           down == IF inward THEN {<<e[2], e[1]>> : e \in tree} ELSE tree
           found == {v \in Txs : IF inward THEN <<v, root>> \in reach ELSE <<root, v>> \in reach}
<1>1. /\ \A e \in tree : /\ e[1] \in component /\ e[2] \in component
                         /\ LocalEdgePred(state, e[1], e[2])
      /\ Ids(Bfs({root}, down)) = component
  BY DEF VerifyTree
<1>2. \A u, v \in Txs : LocalEdgePred(state, u, v) => <<u, v>> \in EdgesOf(state)
  BY LocalGraph
<1>3. EdgesOf(state) \in SUBSET (Txs \X Txs)
  BY DEF EdgesOf, NodesOf
<1>4. /\ EdgesOf(state) \subseteq reach /\ Transitive(reach)
      /\ \A id \in Txs : <<id, id>> \in reach
  BY <1>3, ReachabilityLeast
<1>5. \A e \in tree : <<e[1], e[2]>> \in reach /\ e[1] \in Txs /\ e[2] \in Txs
  BY <1>1, <1>2, <1>4
<1> HIDE DEF reach
<1>6. \A e \in down : /\ e[1] \in Txs /\ e[2] \in Txs
                      /\ IF inward THEN <<e[2], e[1]>> \in reach ELSE <<e[1], e[2]>> \in reach
  <2>1. CASE inward = TRUE
    BY <1>5, <2>1
  <2>2. CASE inward = FALSE
    BY <1>5, <2>2
  <2> QED  BY <2>1, <2>2
<1>7. Leads(down) /\ {root} \in SUBSET Txs
  BY <1>6 DEF Leads
<1> HIDE DEF down
<1>8. {root} \subseteq found
  BY <1>4
<1>9. ASSUME NEW e \in down, e[1] \in found  PROVE e[2] \in found
  <2>1. CASE inward = TRUE
    BY <1>4, <1>6, <1>9, <2>1 DEF Transitive
  <2>2. CASE inward = FALSE
    BY <1>4, <1>6, <1>9, <2>2 DEF Transitive
  <2> QED  BY <2>1, <2>2
<1> HIDE DEF found
<1>10. Searched({root}, down, Bfs({root}, down), Cardinality(Txs))
  BY <1>7, SearchFindsReachable
<1>11. Ids(Bfs({root}, down)) \subseteq found
  BY <1>8, <1>9, <1>10 DEF Searched
<1> QED  BY <1>1, <1>11 DEF found, reach

(* The transactions of an accepted claim reach each other                    *)
(* (verifyClaimedTrees).                                                     *)
LEMMA ClaimConnected ==
    ASSUME NEW state \in States, ExactCaches(state), NEW claim \in AnyClaim,
           VerifyClaim(state, claim)
    PROVE  /\ Ids(claim.txs) # {} /\ Ids(claim.txs) \in SUBSET Txs
           /\ \A u, v \in Ids(claim.txs) : <<u, v>> \in Reachability(EdgesOf(state))
<1> DEFINE component == Ids(claim.txs)
           root == claim.txs[1]
           reach == Reachability(EdgesOf(state))
<1>1. /\ component # {}
      /\ VerifyTree(state, root, component, claim.outTree, FALSE)
      /\ VerifyTree(state, root, component, claim.inTree, TRUE)
  BY DEF VerifyClaim
<1>2. /\ claim.txs \in Seq(Txs) /\ claim.outTree \in SUBSET (Txs \X Txs)
      /\ claim.inTree \in SUBSET (Txs \X Txs)
  BY DEF AnyClaim
<1>3. /\ DOMAIN claim.txs = 1 .. Len(claim.txs) /\ Len(claim.txs) \in Nat
      /\ \A i \in DOMAIN claim.txs : claim.txs[i] \in Txs
  BY <1>2, SeqElements
<1>4. component \in SUBSET Txs /\ root \in component
  BY <1>1, <1>3 DEF Ids
<1>5. EdgesOf(state) \in SUBSET (Txs \X Txs)
  BY DEF EdgesOf, NodesOf
<1>6. Transitive(reach)
  BY <1>5, ReachabilityLeast
<1> HIDE DEF component, root, reach
<1>7. \A v \in component : <<root, v>> \in reach /\ <<v, root>> \in reach
  <2>1. \A v \in component : <<root, v>> \in reach
    BY <1>1, <1>2, <1>4, TreeReaches DEF reach
  <2>2. \A v \in component : <<v, root>> \in reach
    BY <1>1, <1>2, <1>4, TreeReaches DEF reach
  <2> QED  BY <2>1, <2>2
<1>8. \A u, v \in component : <<u, v>> \in reach
  BY <1>4, <1>6, <1>7 DEF Transitive
<1> QED  BY <1>1, <1>4, <1>8 DEF component, reach

(* An accepted block forest gives every solid transaction left out a path    *)
(* from a shaded one (verifyBlockForest).                                    *)
LEMMA ForestReaches ==
    ASSUME NEW state \in States, ExactCaches(state), NEW included,
           NEW records \in SUBSET AnyRecord, VerifyBlockForest(state, included, records),
           NEW v \in NodesOf(state) \ included, state.states[v] = "solid"
    PROVE  \E u \in NodesOf(state) :
                state.states[u] = "shaded" /\ <<u, v>> \in Reachability(EdgesOf(state))
<1> DEFINE vertices == {record.vertex : record \in records}
           recordOf(id) == CHOOSE record \in records : record.vertex = id
           reach == Reachability(EdgesOf(state))
           blocked == {w \in vertices : \E u \in NodesOf(state) :
                            state.states[u] = "shaded" /\ <<u, w>> \in reach}
           lost == vertices \ blocked
<1>1. /\ vertices \subseteq Active(state) \ included
      /\ \A record \in records :
            IF record.hasParent
            THEN /\ record.parent \in vertices
                 /\ record.depth = recordOf(record.parent).depth + 1
                 /\ LocalEdgePred(state, record.parent, record.vertex)
            ELSE record.depth = 0 /\ state.states[record.vertex] = "shaded"
      /\ {id \in Active(state) \ included : state.states[id] = "solid"} \subseteq vertices
  BY Zenon DEF VerifyBlockForest
<1>2. Active(state) = NodesOf(state) /\ NodesOf(state) \in SUBSET Txs
  BY LocalGraph
<1>3. \A a, b \in Txs : LocalEdgePred(state, a, b) => <<a, b>> \in EdgesOf(state)
  BY LocalGraph
<1>4. EdgesOf(state) \in SUBSET (Txs \X Txs)
  BY DEF EdgesOf, NodesOf
<1>5. /\ EdgesOf(state) \subseteq reach /\ Transitive(reach)
      /\ \A id \in Txs : <<id, id>> \in reach
  BY <1>4, ReachabilityLeast
<1>6. v \in vertices
  BY <1>1, <1>2
<1>7. \A w \in vertices : recordOf(w) \in records /\ recordOf(w).vertex = w
  OBVIOUS
<1>8. \A record \in records : record.depth \in Nat /\ record.hasParent \in BOOLEAN
  BY DEF AnyRecord
<1> HIDE DEF vertices, reach
<1>9. SUFFICES ASSUME v \notin blocked  PROVE FALSE
  BY <1>6 DEF reach
<1> DEFINE depths == {recordOf(w).depth : w \in lost}
<1>10. depths \in SUBSET Nat /\ depths # {}
  <2>1. \A w \in lost : recordOf(w) \in records
    BY <1>7
  <2>2. v \in lost
    BY <1>6, <1>9
  <2>3. \A w \in lost : recordOf(w).depth \in Nat
    BY <1>8, <2>1
  <2> HIDE DEF lost, recordOf
  <2> QED  BY <2>2, <2>3
<1>11. PICK m \in depths : \A k \in depths : m <= k
  <2> HIDE DEF depths
  <2> QED  BY <1>10, LeastNumber
<1>12. PICK w \in lost : recordOf(w).depth = m
  OBVIOUS
<1> DEFINE r == recordOf(w)
<1>13. r \in records /\ r.vertex = w /\ w \in NodesOf(state) /\ w \in Txs
  BY <1>1, <1>2, <1>7
<1>14. r.depth = m
  BY <1>12
<1> HIDE DEF r
<1>15. CASE ~r.hasParent
  <2>1. state.states[w] = "shaded"
    BY <1>1, <1>13, <1>15
  <2>2. <<w, w>> \in reach
    BY <1>5, <1>13
  <2> QED  BY <1>13, <2>1, <2>2
<1>16. CASE r.hasParent
  <2>1. /\ r.parent \in vertices /\ r.depth = recordOf(r.parent).depth + 1
        /\ LocalEdgePred(state, r.parent, w)
    BY <1>1, <1>13, <1>16
  <2>2. r.parent \in Txs /\ <<r.parent, w>> \in reach
    BY <1>1, <1>2, <1>3, <1>5, <1>13, <2>1
  <2>3. r.parent \in lost
    <3> SUFFICES ASSUME r.parent \in blocked  PROVE FALSE
      BY <2>1
    <3>1. PICK u \in NodesOf(state) : state.states[u] = "shaded" /\ <<u, r.parent>> \in reach
      OBVIOUS
    <3>2. <<u, w>> \in reach
      BY <1>2, <1>5, <1>13, <2>2, <3>1 DEF Transitive
    <3> QED  BY <3>1, <3>2
  <2>4. recordOf(r.parent).depth \in depths /\ recordOf(r.parent).depth \in Nat
    BY <1>7, <1>8, <2>1, <2>3
  <2>5. m <= recordOf(r.parent).depth
    BY <1>11, <2>4
  <2> QED  BY <1>10, <1>14, <2>1, <2>4, <2>5
<1> QED  BY <1>15, <1>16

(* TopoSort looks at edges between its components only. *)
LEMMA TopoSortRestricted ==
    ASSUME NEW components, IsFiniteSet(components),
           \A c \in components : c \in SUBSET Nat /\ c # {}, NEW some, NEW other,
           \A c, d \in components : <<c, d>> \in some <=> <<c, d>> \in other
    PROVE  TopoSort(components, some) = TopoSort(components, other)
<1> DEFINE n == Cardinality(components)
<1>1. \A seq : ReadyAfter(components, some, seq) = ReadyAfter(components, other, seq)
  BY DEF ReadyAfter
<1>2. \A seq : AppendReady(components, some, seq) = AppendReady(components, other, seq)
  BY <1>1 DEF AppendReady
<1>3. /\ n \in Nat
      /\ \E f \in [0 .. n -> Ordered(components, some)] :
            /\ f[0] = <<>>
            /\ \A k \in 1 .. n : f[k] = AppendReady(components, some, f[k - 1])
            /\ TopoSort(components, some) = f[n]
  BY TopoSortSteps
<1>4. \E g \in [0 .. n -> Ordered(components, other)] :
            /\ g[0] = <<>>
            /\ \A k \in 1 .. n : g[k] = AppendReady(components, other, g[k - 1])
            /\ TopoSort(components, other) = g[n]
  BY TopoSortSteps
<1>5. PICK f : /\ f[0] = <<>>
               /\ \A k \in 1 .. n : f[k] = AppendReady(components, some, f[k - 1])
               /\ TopoSort(components, some) = f[n]
  BY <1>3
<1>6. PICK g : /\ g[0] = <<>>
               /\ \A k \in 1 .. n : g[k] = AppendReady(components, other, g[k - 1])
               /\ TopoSort(components, other) = g[n]
  BY <1>4
<1> DEFINE same == {k \in 0 .. n : f[k] = g[k]}
<1>7. 0 \in same
  BY <1>3, <1>5, <1>6
<1>8. ASSUME NEW k \in 1 .. n, k - 1 \in same  PROVE k \in same
  BY <1>2, <1>3, <1>5, <1>6, <1>8
<1>9. 0 .. n \subseteq same
  <2> HIDE DEF same, n
  <2> QED  BY <1>3, <1>7, <1>8, UpTo
<1>10. n \in same
  BY <1>3, <1>9
<1> QED  BY <1>5, <1>6, <1>10

(* What leads to a selected transaction is selected. *)
LEMMA SelectedBackward ==
    ASSUME NEW graph, IsGraph(graph), NEW state, NEW u \in graph.nodes,
           NEW v \in UNION Selected(graph, state), <<u, v>> \in Reachability(graph.edges)
    PROVE  u \in UNION Selected(graph, state)
<1> DEFINE C == GraphComponents(graph)
           K == GraphCondensation(graph)
           sel == Selected(graph, state)
           reach == Reachability(graph.edges)
           back == {e \in Txs \X Txs : e[2] \in UNION sel => e[1] \in UNION sel}
<1>1. /\ C \subseteq SUBSET graph.nodes /\ \A x \in graph.nodes : \E c \in C : x \in c
      /\ \A c, d \in C : \A x : x \in c /\ x \in d => c = d
      /\ \A c, d \in C : \A x \in c, y \in d : <<x, y>> \in graph.edges /\ c # d => <<c, d>> \in K
  BY ComponentFacts
<1>2. \A c \in sel, d \in C : <<d, c>> \in K => d \in sel
  BY SelectedClosed
<1>3. sel \subseteq C
  BY DEF Selected
<1>4. /\ graph.edges \in SUBSET (Txs \X Txs) /\ graph.nodes \in SUBSET Txs
      /\ \A e \in graph.edges : e = <<e[1], e[2]>> /\ e[1] \in graph.nodes /\ e[2] \in graph.nodes
  BY DEF IsGraph
<1>5. \A Q : graph.edges \subseteq Q /\ (\A id \in Txs : <<id, id>> \in Q) /\ Transitive(Q)
                    => reach \subseteq Q
  BY <1>4, ReachabilityLeast
<1> HIDE DEF C, K, sel, reach
<1>6. ASSUME NEW e \in graph.edges, e[2] \in UNION sel  PROVE e[1] \in UNION sel
  <2>1. PICK c \in sel : e[2] \in c
    BY <1>6
  <2>2. PICK d \in C : e[1] \in d
    BY <1>1, <1>4
  <2>3. d = c \/ <<d, c>> \in K
    <3>1. <<e[1], e[2]>> \in graph.edges /\ c \in C
      BY <1>3, <1>4
    <3> QED  BY <1>1, <2>1, <2>2, <3>1
  <2>4. d \in sel
    BY <1>2, <2>1, <2>2, <2>3
  <2> QED  BY <2>2, <2>4
<1>7. graph.edges \subseteq back
  BY <1>4, <1>6
<1>8. /\ \A id \in Txs : <<id, id>> \in back
      /\ \A a, b \in Txs : <<a, b>> \in back <=> (b \in UNION sel => a \in UNION sel)
  OBVIOUS
<1> HIDE DEF back
<1>9. Transitive(back)
  BY <1>8 DEF Transitive
<1>10. <<u, v>> \in back
  BY <1>5, <1>7, <1>8, <1>9 DEF reach
<1>11. u \in Txs /\ v \in Txs
  BY <1>1, <1>3, <1>4 DEF sel
<1> QED  BY <1>8, <1>10, <1>11 DEF sel

(* A final order and a certificate that a follower accepts. *)
Accepts(graph, state, finalOrder, certificate) ==
    /\ state \in States /\ ExactCaches(state) /\ Exact(graph, state)
    /\ finalOrder \in AnyOrder /\ certificate \in AnyCertificate
    /\ VerifyCertificate(state, finalOrder, certificate)

PartOf(finalOrder, i) == Ids(finalOrder[i].txs)

(* The checks of verifyStructuralCertificate in terms of the graph. *)
Checked(graph, state, finalOrder) ==
    /\ IsGraph(graph) /\ state.batchCounter \in Nat /\ finalOrder \in AnyOrder
    /\ \A i \in DOMAIN finalOrder :
         /\ PartOf(finalOrder, i) # {} /\ PartOf(finalOrder, i) \in SUBSET graph.nodes
         /\ \A id \in PartOf(finalOrder, i) : state.states[id] = "solid"
         /\ \A u, v \in PartOf(finalOrder, i) : <<u, v>> \in Reachability(graph.edges)
         /\ finalOrder[i].index = state.batchCounter + i
         /\ finalOrder[i].txs \in Seq(Txs)
         /\ \A k \in 1 .. Len(finalOrder[i].txs) - 1 :
                 finalOrder[i].txs[k] < finalOrder[i].txs[k + 1]
    /\ \A i, j \in DOMAIN finalOrder :
         PartOf(finalOrder, i) \cap PartOf(finalOrder, j) # {} => i = j
    /\ \A e \in graph.edges : e[2] \in Output(finalOrder) => e[1] \in Output(finalOrder)
    /\ \A e \in graph.edges : \A i, j \in DOMAIN finalOrder :
         e[1] \in PartOf(finalOrder, i) /\ e[2] \in PartOf(finalOrder, j) => i <= j
    /\ \A v \in graph.nodes \ Output(finalOrder) : state.states[v] = "solid" =>
         \E u \in graph.nodes :
             state.states[u] = "shaded" /\ <<u, v>> \in Reachability(graph.edges)
    /\ LET parts == {PartOf(finalOrder, i) : i \in DOMAIN finalOrder}
       IN  TopoSort(parts,
                    Condensation(parts, {e \in graph.edges : /\ e[1] \in Output(finalOrder)
                                                             /\ e[2] \in Output(finalOrder)}))
             = [i \in DOMAIN finalOrder |-> PartOf(finalOrder, i)]

(* The checks of a follower (verifyStructuralCertificate) leave it that.     *)
LEMMA AcceptedFacts ==
    ASSUME NEW graph, NEW state, NEW finalOrder, NEW certificate,
           Accepts(graph, state, finalOrder, certificate)
    PROVE  Checked(graph, state, finalOrder)
<1> DEFINE part == certificate.part
           included == Output(finalOrder)
<1>1. /\ state \in States /\ ExactCaches(state) /\ Exact(graph, state)
      /\ finalOrder \in AnyOrder /\ part \in Seq(AnyClaim)
      /\ certificate.blockForest \in SUBSET AnyRecord
      /\ VerifyCertificate(state, finalOrder, certificate)
  BY DEF Accepts, AnyCertificate
<1>2. /\ VerifyBatches(state, finalOrder)
      /\ Len(part) = Len(finalOrder)
      /\ \A i \in DOMAIN part :
            /\ part[i].rank = i - 1 /\ part[i].txs = finalOrder[i].txs
            /\ VerifyClaim(state, part[i])
      /\ VerifyRanks(state, part)
      /\ \A outside \in Active(state) \ included : \A inside \in included :
            ~LocalEdgePred(state, outside, inside)
      /\ VerifyBlockForest(state, included, certificate.blockForest)
  BY <1>1, Zenon DEF VerifyCertificate
<1>3. /\ IsGraph(graph) /\ graph.nodes = NodesOf(state) /\ graph.edges = EdgesOf(state)
      /\ graph.nodes \in SUBSET Txs
  BY <1>1, ExactGraph
<1>4. /\ Active(state) = graph.nodes
      /\ \A u, v \in Txs : LocalEdgePred(state, u, v) <=> <<u, v>> \in graph.edges
      /\ \A ids \in SUBSET Txs :
            LocalEdges(state, ids) = {e \in graph.edges : e[1] \in ids /\ e[2] \in ids}
  BY <1>1, <1>3, LocalGraph
<1>5. /\ DOMAIN finalOrder = 1 .. Len(finalOrder) /\ DOMAIN part = 1 .. Len(part)
      /\ \A i \in DOMAIN part : part[i] \in AnyClaim
      /\ \A i \in DOMAIN finalOrder : finalOrder[i].txs \in Seq(Txs)
  <2>1. finalOrder \in Seq([index : Nat, txs : Seq(Txs)])
    BY <1>1 DEF AnyOrder
  <2>2. /\ DOMAIN finalOrder = 1 .. Len(finalOrder)
        /\ \A i \in DOMAIN finalOrder : finalOrder[i] \in [index : Nat, txs : Seq(Txs)]
    BY <2>1, SeqElements
  <2>3. \A i \in DOMAIN finalOrder : finalOrder[i].txs \in Seq(Txs)
    BY <2>2
  <2> HIDE DEF part
  <2>4. DOMAIN part = 1 .. Len(part) /\ \A i \in DOMAIN part : part[i] \in AnyClaim
    BY <1>1, SeqElements
  <2> QED  BY <2>2, <2>3, <2>4
<1>6. DOMAIN part = DOMAIN finalOrder
  BY <1>2, <1>5
<1> HIDE DEF part
<1>7. ASSUME NEW i \in DOMAIN finalOrder
      PROVE  /\ finalOrder[i].index = state.batchCounter + i
             /\ \A k \in 1 .. Len(finalOrder[i].txs) - 1 :
                    finalOrder[i].txs[k] < finalOrder[i].txs[k + 1]
             /\ \A id \in PartOf(finalOrder, i) :
                    /\ id \in graph.nodes /\ state.states[id] = "solid"
                    /\ \A j \in DOMAIN finalOrder : id \in PartOf(finalOrder, j) => i = j
  <2>1. /\ finalOrder[i].index = state.batchCounter + i
        /\ \A k \in 1 .. Len(finalOrder[i].txs) - 1 :
                finalOrder[i].txs[k] < finalOrder[i].txs[k + 1]
        /\ \A id \in Ids(finalOrder[i].txs) :
                /\ id \in Active(state) \ Done(state) /\ state.states[id] = "solid"
                /\ \A j \in DOMAIN finalOrder : id \in Ids(finalOrder[j].txs) => i = j
    BY <1>2, Zenon DEF VerifyBatches
  <2> QED  BY <1>4, <2>1 DEF PartOf
<1>8. ASSUME NEW i \in DOMAIN finalOrder
      PROVE  /\ PartOf(finalOrder, i) # {}
             /\ \A u, v \in PartOf(finalOrder, i) : <<u, v>> \in Reachability(graph.edges)
  <2>1. VerifyClaim(state, part[i]) /\ part[i] \in AnyClaim /\ part[i].txs = finalOrder[i].txs
    BY <1>2, <1>5, <1>6
  <2> QED  BY <1>1, <1>3, <2>1, ClaimConnected DEF PartOf
<1>9. included = UNION {PartOf(finalOrder, i) : i \in DOMAIN finalOrder}
  BY DEF Output, PartOf
<1>10. included \in SUBSET graph.nodes
  BY <1>7, <1>9
<1>11. ASSUME NEW e \in graph.edges
       PROVE  e = <<e[1], e[2]>> /\ e[1] \in graph.nodes /\ e[2] \in graph.nodes
  BY <1>3 DEF IsGraph
<1> HIDE DEF included
<1>12. ASSUME NEW e \in graph.edges, e[2] \in included  PROVE e[1] \in included
  <2>1. <<e[1], e[2]>> \in graph.edges /\ e[1] \in graph.nodes /\ e[1] \in Txs /\ e[2] \in Txs
    BY <1>3, <1>11
  <2> QED  BY <1>2, <1>4, <1>12, <2>1
<1>13. ASSUME NEW v \in graph.nodes \ included, state.states[v] = "solid"
       PROVE  \E u \in graph.nodes :
                    state.states[u] = "shaded" /\ <<u, v>> \in Reachability(graph.edges)
  BY <1>1, <1>2, <1>3, <1>13, ForestReaches
<1> DEFINE parts == {PartOf(finalOrder, i) : i \in DOMAIN finalOrder}
           inner == {e \in graph.edges : e[1] \in included /\ e[2] \in included}
<1>14. /\ \A i, j \in DOMAIN part :
            (\E e \in inner : e[1] \in PartOf(finalOrder, i) /\ e[2] \in PartOf(finalOrder, j))
                => i <= j
       /\ TopoSort(parts, Condensation(parts, inner)) =
            [i \in DOMAIN finalOrder |-> PartOf(finalOrder, i)]
  <2>1. \A i \in DOMAIN finalOrder : Ids(part[i].txs) = PartOf(finalOrder, i)
    BY <1>2, <1>6 DEF PartOf
  <2>2. {Ids(part[i].txs) : i \in DOMAIN part} = parts
    BY <1>6, <2>1
  <2>3. /\ \A i, j \in DOMAIN part :
            (\E e \in LocalEdges(state, UNION {Ids(part[k].txs) : k \in DOMAIN part}) :
                e[1] \in Ids(part[i].txs) /\ e[2] \in Ids(part[j].txs)) => i <= j
        /\ TopoSort({Ids(part[k].txs) : k \in DOMAIN part},
                    Condensation({Ids(part[k].txs) : k \in DOMAIN part},
                                 LocalEdges(state, UNION {Ids(part[k].txs) : k \in DOMAIN part})))
             = [i \in DOMAIN part |-> Ids(part[i].txs)]
    BY <1>2, Zenon DEF VerifyRanks
  <2>4. LocalEdges(state, UNION parts) = inner
    <3>1. UNION parts = included /\ included \in SUBSET Txs
      BY <1>3, <1>9, <1>10
    <3> QED  BY <1>4, <3>1
  <2>5. [i \in DOMAIN part |-> Ids(part[i].txs)] = [i \in DOMAIN finalOrder |-> PartOf(finalOrder, i)]
    BY <1>6, <2>1
  <2>6. /\ \A i, j \in DOMAIN part :
            (\E e \in inner : e[1] \in Ids(part[i].txs) /\ e[2] \in Ids(part[j].txs)) => i <= j
        /\ TopoSort(parts, Condensation(parts, inner)) = [i \in DOMAIN part |-> Ids(part[i].txs)]
    <3> HIDE DEF parts, inner
    <3> QED  BY <2>2, <2>3, <2>4
  <2> HIDE DEF parts, inner
  <2> QED  BY <1>6, <2>1, <2>5, <2>6
<1>15. ASSUME NEW e \in graph.edges, NEW i \in DOMAIN finalOrder, NEW j \in DOMAIN finalOrder,
              e[1] \in PartOf(finalOrder, i), e[2] \in PartOf(finalOrder, j)
       PROVE  i <= j
  <2>1. e \in inner
    BY <1>9, <1>15
  <2> QED  BY <1>6, <1>14, <1>15, <2>1
<1>16. state.batchCounter \in Nat
  BY <1>1 DEF States
<1>17. \A i, j \in DOMAIN finalOrder :
            PartOf(finalOrder, i) \cap PartOf(finalOrder, j) # {} => i = j
  BY <1>7
<1> USE DEF included
<1>18. \A i \in DOMAIN finalOrder : PartOf(finalOrder, i) \in SUBSET graph.nodes
  BY <1>7
<1>19. TopoSort(parts, Condensation(parts, inner)) =
            [i \in DOMAIN finalOrder |-> PartOf(finalOrder, i)]
  BY <1>14
<1>a. /\ IsGraph(graph) /\ state.batchCounter \in Nat /\ finalOrder \in AnyOrder
      /\ \A i \in DOMAIN finalOrder :
            /\ PartOf(finalOrder, i) # {} /\ PartOf(finalOrder, i) \in SUBSET graph.nodes
            /\ \A id \in PartOf(finalOrder, i) : state.states[id] = "solid"
            /\ \A u, v \in PartOf(finalOrder, i) : <<u, v>> \in Reachability(graph.edges)
            /\ finalOrder[i].index = state.batchCounter + i
            /\ finalOrder[i].txs \in Seq(Txs)
            /\ \A k \in 1 .. Len(finalOrder[i].txs) - 1 :
                    finalOrder[i].txs[k] < finalOrder[i].txs[k + 1]
  <2> HIDE DEF included
  <2> QED  BY <1>1, <1>3, <1>5, <1>7, <1>8, <1>16, <1>18
<1> QED  BY <1>a, <1>12, <1>13, <1>15, <1>17, <1>19, Zenon DEF Checked

(* Paths of the graph between accepted transactions do not go back in the    *)
(* order, and lead into the output only from the output.                     *)
LEMMA PathsForward ==
    ASSUME NEW graph, NEW state, NEW finalOrder, NEW certificate,
           Accepts(graph, state, finalOrder, certificate),
           NEW a \in graph.nodes, NEW b \in Output(finalOrder),
           <<a, b>> \in Reachability(graph.edges)
    PROVE  /\ a \in Output(finalOrder)
           /\ \A i, j \in DOMAIN finalOrder :
                a \in PartOf(finalOrder, i) /\ b \in PartOf(finalOrder, j) => i <= j
<1> DEFINE included == Output(finalOrder)
           reach == Reachability(graph.edges)
           forward == {e \in Txs \X Txs : e[2] \in included =>
                        /\ e[1] \in included
                        /\ \A i, j \in DOMAIN finalOrder :
                            e[1] \in PartOf(finalOrder, i) /\ e[2] \in PartOf(finalOrder, j) => i <= j}
<1>1. /\ IsGraph(graph) /\ finalOrder \in AnyOrder
      /\ \A i \in DOMAIN finalOrder : PartOf(finalOrder, i) \in SUBSET graph.nodes
      /\ \A i, j \in DOMAIN finalOrder :
            PartOf(finalOrder, i) \cap PartOf(finalOrder, j) # {} => i = j
      /\ \A e \in graph.edges : e[2] \in included => e[1] \in included
      /\ \A e \in graph.edges : \A i, j \in DOMAIN finalOrder :
            e[1] \in PartOf(finalOrder, i) /\ e[2] \in PartOf(finalOrder, j) => i <= j
  <2>1. Checked(graph, state, finalOrder)
    BY AcceptedFacts
  <2> QED  BY <2>1, Zenon DEF Checked
<1>2. included = UNION {PartOf(finalOrder, i) : i \in DOMAIN finalOrder}
  BY DEF Output, PartOf
<1>3. /\ graph.edges \in SUBSET (Txs \X Txs) /\ graph.nodes \in SUBSET Txs
  BY <1>1 DEF IsGraph
<1>4. \A Q : graph.edges \subseteq Q /\ (\A id \in Txs : <<id, id>> \in Q) /\ Transitive(Q)
                    => reach \subseteq Q
  BY <1>3, ReachabilityLeast
<1>5. DOMAIN finalOrder = 1 .. Len(finalOrder) /\ Len(finalOrder) \in Nat
  BY <1>1, SeqElements DEF AnyOrder
<1> HIDE DEF included, reach
<1>6. graph.edges \subseteq forward
  BY <1>1, <1>3
<1>7. \A x, y \in Txs : <<x, y>> \in forward <=>
            (y \in included => /\ x \in included
                               /\ \A i, j \in DOMAIN finalOrder :
                                    x \in PartOf(finalOrder, i) /\ y \in PartOf(finalOrder, j) => i <= j)
  OBVIOUS
<1> HIDE DEF forward
<1>8. \A id \in Txs : <<id, id>> \in forward
  <2> SUFFICES ASSUME NEW id \in Txs, NEW i \in DOMAIN finalOrder, NEW j \in DOMAIN finalOrder,
                      id \in PartOf(finalOrder, i), id \in PartOf(finalOrder, j)
               PROVE  i <= j
    BY <1>7
  <2>1. i = j
    BY <1>1
  <2> QED  BY <1>5, <2>1
<1>9. ASSUME NEW x \in Txs, NEW y \in Txs, NEW z \in Txs, <<x, y>> \in forward, <<y, z>> \in forward
      PROVE  <<x, z>> \in forward
  <2> SUFFICES ASSUME z \in included  
               PROVE  /\ x \in included
                      /\ \A i, j \in DOMAIN finalOrder :
                            x \in PartOf(finalOrder, i) /\ z \in PartOf(finalOrder, j) => i <= j
    BY <1>7
  <2>1. y \in included /\ x \in included
    BY <1>7, <1>9
  <2>2. PICK k \in DOMAIN finalOrder : y \in PartOf(finalOrder, k)
    BY <1>2, <2>1
  <2>3. ASSUME NEW i \in DOMAIN finalOrder, NEW j \in DOMAIN finalOrder,
               x \in PartOf(finalOrder, i), z \in PartOf(finalOrder, j)
        PROVE  i <= j
    <3>1. i <= k
      BY <1>7, <1>9, <2>1, <2>2, <2>3
    <3>2. k <= j
      BY <1>7, <1>9, <2>2, <2>3
    <3> QED  BY <1>5, <3>1, <3>2
  <2> QED  BY <2>1, <2>3
<1>10. Transitive(forward)
  BY <1>9 DEF Transitive
<1>11. <<a, b>> \in forward
  BY <1>4, <1>6, <1>8, <1>10 DEF reach
<1>12. a \in Txs /\ b \in Txs /\ b \in included
  BY <1>1, <1>2, <1>3 DEF included
<1> QED  BY <1>7, <1>11, <1>12 DEF included

(* The parts are components of the graph, and all of them that the algorithm *)
(* selects.                                                                  *)
LEMMA PartsSelected ==
    ASSUME NEW graph, NEW state, NEW finalOrder, NEW certificate,
           Accepts(graph, state, finalOrder, certificate)
    PROVE  {PartOf(finalOrder, i) : i \in DOMAIN finalOrder} = Selected(graph, state)
<1> DEFINE C == GraphComponents(graph)
           K == GraphCondensation(graph)
           sel == Selected(graph, state)
           reach == Reachability(graph.edges)
           included == Output(finalOrder)
           parts == {PartOf(finalOrder, i) : i \in DOMAIN finalOrder}
<1>1. /\ IsGraph(graph)
      /\ \A i \in DOMAIN finalOrder :
            /\ PartOf(finalOrder, i) # {} /\ PartOf(finalOrder, i) \in SUBSET graph.nodes
            /\ \A id \in PartOf(finalOrder, i) : state.states[id] = "solid"
            /\ \A u, v \in PartOf(finalOrder, i) : <<u, v>> \in reach
      /\ \A e \in graph.edges : e[2] \in included => e[1] \in included
      /\ \A v \in graph.nodes \ included : state.states[v] = "solid" =>
            \E u \in graph.nodes : state.states[u] = "shaded" /\ <<u, v>> \in reach
  <2>1. Checked(graph, state, finalOrder)
    BY AcceptedFacts
  <2> QED  BY <2>1, Zenon DEF Checked
<1>2. included = UNION parts
  BY DEF Output, PartOf
<1>3. /\ C \subseteq SUBSET graph.nodes /\ \A c \in C : c # {}
      /\ \A x \in graph.nodes : \E c \in C : x \in c
      /\ \A c \in C : \A x \in c, y \in graph.nodes :
            y \in c <=> <<x, y>> \in reach /\ <<y, x>> \in reach
      /\ \A c, d \in C : \A x : x \in c /\ x \in d => c = d
  BY <1>1, ComponentFacts
<1>4. /\ \A c \in sel : \A id \in c : state.states[id] = "solid"
      /\ \A Q : Unready(graph, state) \subseteq Q
                    /\ (\A c, d \in C : c \in Q /\ <<c, d>> \in K => d \in Q)
                    => C \ sel \subseteq Q
  BY <1>1, SelectedClosed
<1>5. sel \subseteq C
  BY DEF Selected
<1>6. DOMAIN finalOrder \subseteq Int
  <2>1. finalOrder \in AnyOrder
    BY AcceptedFacts DEF Checked
  <2>2. DOMAIN finalOrder = 1 .. Len(finalOrder)
    BY <2>1, SeqElements DEF AnyOrder
  <2> QED  BY <2>2
<1>7. ASSUME NEW i \in DOMAIN finalOrder  PROVE PartOf(finalOrder, i) \in C
  <2>1. PICK x \in PartOf(finalOrder, i) : x \in graph.nodes
    BY <1>1
  <2>2. PICK c \in C : x \in c
    BY <1>3, <2>1
  <2>3. \A y \in PartOf(finalOrder, i) : y \in c
    <3> TAKE y \in PartOf(finalOrder, i)
    <3>1. y \in graph.nodes /\ <<x, y>> \in reach /\ <<y, x>> \in reach
      BY <1>1, <2>1
    <3> HIDE DEF C, reach
    <3> QED  BY <1>3, <2>2, <3>1
  <2>4. ASSUME NEW y \in c  PROVE y \in PartOf(finalOrder, i)
    <3>1. y \in graph.nodes /\ <<x, y>> \in reach /\ <<y, x>> \in reach
      <4> HIDE DEF C, reach
      <4> QED  BY <1>3, <2>2
    <3>2. x \in included
      BY <1>2, <2>1
    <3>3. /\ y \in included
          /\ \A j \in DOMAIN finalOrder : y \in PartOf(finalOrder, j) => j <= i
      BY <2>1, <3>1, <3>2, PathsForward
    <3>4. PICK j \in DOMAIN finalOrder : y \in PartOf(finalOrder, j)
      BY <1>2, <3>3
    <3>5. i <= j
      BY <2>1, <3>1, <3>3, <3>4, PathsForward
    <3>6. j <= i
      BY <3>3, <3>4
    <3>7. i = j
      BY <1>6, <3>5, <3>6
    <3> QED  BY <3>4, <3>7
  <2>5. PartOf(finalOrder, i) = c
    BY <2>3, <2>4
  <2> QED  BY <2>5
<1>8. parts \subseteq C
  BY <1>7
<1> HIDE DEF C, K, sel, reach, included, parts
<1>9. Unready(graph, state) \subseteq C \ parts
  <2> SUFFICES ASSUME NEW c \in C, NEW id \in c, state.states[id] # "solid"  PROVE c \notin parts
    BY DEF Unready, C
  <2> QED  BY <1>1 DEF parts
<1>10. ASSUME NEW c \in C, NEW d \in C, c \notin parts, <<c, d>> \in K  PROVE d \notin parts
  <2> SUFFICES ASSUME d \in parts  PROVE FALSE
    OBVIOUS
  <2>1. PICK e \in graph.edges : e[1] \in c /\ e[2] \in d
    BY <1>10 DEF K, GraphCondensation, Condensation
  <2>2. e[1] \in included
    BY <1>1, <1>2, <2>1
  <2>3. PICK p \in parts : e[1] \in p
    BY <1>2, <2>2
  <2>4. p = c
    BY <1>3, <1>8, <2>1, <2>3
  <2> QED  BY <1>10, <2>3, <2>4
<1>11. parts \subseteq sel
  <2>1. \A c, d \in C : c \in C \ parts /\ <<c, d>> \in K => d \in C \ parts
    BY <1>10
  <2>2. C \ sel \subseteq C \ parts
    BY <1>4, <1>9, <2>1
  <2> QED  BY <1>8, <2>2
<1>12. ASSUME NEW c \in sel  PROVE c \in parts
  <2>1. PICK v \in c : v \in graph.nodes
    BY <1>3, <1>5
  <2>2. CASE v \in included
    <3>1. PICK p \in parts : v \in p
      BY <1>2, <2>2
    <3>2. p = c
      BY <1>3, <1>5, <1>8, <3>1
    <3> QED  BY <3>1, <3>2
  <2>3. CASE v \notin included
    <3>1. state.states[v] = "solid"
      BY <1>4
    <3>2. PICK u \in graph.nodes : state.states[u] = "shaded" /\ <<u, v>> \in reach
      BY <1>1, <2>1, <2>3, <3>1
    <3>3. v \in UNION sel
      OBVIOUS
    <3>4. u \in UNION sel
      BY <1>1, <3>2, <3>3, SelectedBackward DEF sel, reach
    <3>5. state.states[u] = "solid"
      BY <1>4, <3>4
    <3> QED  BY <3>2, <3>5
  <2> QED  BY <2>2, <2>3
<1> QED  BY <1>11, <1>12 DEF parts, sel

(* Certificate soundness: what a follower accepts on evidence alone, with    *)
(* whatever certificate, is the final order the algorithm derives from the   *)
(* graph (verifyStructuralCertificate, buildProposal).                       *)
THEOREM AcceptedIsProposal ==
    ASSUME NEW graph, NEW state, NEW finalOrder, NEW certificate,
           Accepts(graph, state, finalOrder, certificate)
    PROVE  finalOrder = BuildProposal(graph, state).finalOrder
<1> DEFINE sel == Selected(graph, state)
           K == GraphCondensation(graph)
           ordered == TopoSort(sel, K)
           parts == {PartOf(finalOrder, i) : i \in DOMAIN finalOrder}
           inner == {e \in graph.edges : e[1] \in Output(finalOrder) /\ e[2] \in Output(finalOrder)}
<1>1. /\ IsGraph(graph) /\ finalOrder \in AnyOrder
      /\ \A i \in DOMAIN finalOrder :
            /\ PartOf(finalOrder, i) \in SUBSET graph.nodes
            /\ finalOrder[i].index = state.batchCounter + i
            /\ finalOrder[i].txs \in Seq(Txs)
            /\ \A k \in 1 .. Len(finalOrder[i].txs) - 1 :
                    finalOrder[i].txs[k] < finalOrder[i].txs[k + 1]
      /\ TopoSort(parts, Condensation(parts, inner)) =
            [i \in DOMAIN finalOrder |-> PartOf(finalOrder, i)]
  <2>1. Checked(graph, state, finalOrder)
    BY AcceptedFacts
  <2> QED  BY <2>1, Zenon DEF Checked
<1>2. parts = sel
  BY PartsSelected
<1>3. Output(finalOrder) = UNION sel
  <2>1. Output(finalOrder) = UNION parts
    BY DEF Output, PartOf
  <2> QED  BY <1>2, <2>1
<1>4. /\ IsFiniteSet(sel) /\ sel \subseteq GraphComponents(graph)
      /\ \A c \in sel : c \in SUBSET Nat /\ c # {}
  <2>1. /\ IsFiniteSet(GraphComponents(graph)) /\ GraphComponents(graph) \subseteq SUBSET Txs
        /\ \A c \in GraphComponents(graph) : c # {}
    BY <1>1, ComponentFacts
  <2>2. sel \subseteq GraphComponents(graph)
    BY DEF Selected
  <2> QED  BY <2>1, <2>2, TxAssumption, FS_Subset
<1>5. \A c, d \in sel : <<c, d>> \in Condensation(sel, inner) <=> <<c, d>> \in K
  <2> TAKE c, d \in sel
  <2>1. <<c, d>> \in K <=> c # d /\ \E e \in graph.edges : e[1] \in c /\ e[2] \in d
    BY <1>4 DEF GraphCondensation, Condensation
  <2>2. <<c, d>> \in Condensation(sel, inner) <=> c # d /\ \E e \in inner : e[1] \in c /\ e[2] \in d
    <3> HIDE DEF inner, sel
    <3> QED  BY DEF Condensation
  <2>3. \A e \in graph.edges : e[1] \in c /\ e[2] \in d => e \in inner
    BY <1>3
  <2> QED  BY <2>1, <2>2, <2>3
<1>6. ordered = [i \in DOMAIN finalOrder |-> PartOf(finalOrder, i)]
  <2>1. TopoSort(sel, Condensation(sel, inner)) = ordered
    <3> HIDE DEF sel, inner, K
    <3> QED  BY <1>4, <1>5, TopoSortRestricted
  <2> HIDE DEF sel, inner, parts
  <2> QED  BY <1>1, <1>2, <2>1
<1>7. BuildProposal(graph, state).finalOrder =
        [i \in DOMAIN ordered |-> Batch(state.batchCounter + i, Sorted(ordered[i]))]
  BY DEF BuildProposal, Selected, Held, Unready, GraphCondensation, GraphComponents
<1>8. /\ DOMAIN finalOrder = 1 .. Len(finalOrder)
      /\ \A i \in DOMAIN finalOrder : finalOrder[i] \in [index : Nat, txs : Seq(Txs)]
  BY <1>1, SeqElements DEF AnyOrder
<1>9. ASSUME NEW i \in DOMAIN finalOrder
      PROVE  finalOrder[i] = Batch(state.batchCounter + i, Sorted(PartOf(finalOrder, i)))
  <2>1. PartOf(finalOrder, i) \in SUBSET Txs
    BY <1>1 DEF IsGraph
  <2>2. finalOrder[i].txs = Sorted(PartOf(finalOrder, i))
    <3>1. \A ids \in SUBSET Txs : Ids(finalOrder[i].txs) = ids => finalOrder[i].txs = Sorted(ids)
      BY <1>1, SortedUnique
    <3> QED  BY <2>1, <3>1 DEF PartOf
  <2>3. finalOrder[i] = [index |-> finalOrder[i].index, txs |-> finalOrder[i].txs]
    BY <1>8
  <2> QED  BY <1>1, <2>2, <2>3 DEF Batch
<1> HIDE DEF ordered
<1>10. finalOrder = [i \in DOMAIN finalOrder |-> finalOrder[i]]
  BY <1>1 DEF AnyOrder
<1>11. DOMAIN ordered = DOMAIN finalOrder /\ \A i \in DOMAIN finalOrder : ordered[i] = PartOf(finalOrder, i)
  BY <1>6
<1>12. [i \in DOMAIN ordered |-> Batch(state.batchCounter + i, Sorted(ordered[i]))] = finalOrder
  BY <1>9, <1>10, <1>11, Zenon
<1> QED  BY <1>7, <1>12

(* The certificates the follower is given in a run are of those considered.  *)
LEMMA CandidateShape ==
    ASSUME NEW batches \in OrderedPartitions, NEW counter \in Nat,
           NEW certificate \in Certificates(batches)
    PROVE  /\ [i \in DOMAIN batches |-> Batch(counter + i, Sorted(batches[i]))] \in AnyOrder
           /\ certificate \in AnyCertificate
<1> DEFINE order == [i \in DOMAIN batches |-> Batch(counter + i, Sorted(batches[i]))]
           rest == Txs \ UNION {batches[i] : i \in DOMAIN batches}
<1>1. PICK k \in 0 .. Cardinality(Txs) : batches \in [1 .. k -> (SUBSET Txs) \ {{}}]
  BY DEF OrderedPartitions
<1>2. k \in Nat /\ DOMAIN batches = 1 .. k /\ \A i \in 1 .. k : batches[i] \in SUBSET Txs
  BY <1>1, TxAssumption, FS_CardinalityType
<1>3. \A ids \in SUBSET Txs : Sorted(ids) \in Seq(Txs)
  BY SortedLog DEF Logs
<1>4. order \in AnyOrder
  <2>1. \A i \in 1 .. k : order[i] \in [index : Nat, txs : Seq(Txs)]
    BY <1>2, <1>3 DEF Batch
  <2>2. order = [i \in 1 .. k |-> order[i]]
    BY <1>2
  <2>3. \A S : \A f \in [1 .. k -> S] : f \in Seq(S)
    BY <1>2
  <2> HIDE DEF order
  <2> QED  BY <2>1, <2>2, <2>3 DEF AnyOrder
<1>5. PICK part \in Parts(batches), forest \in Forests(rest) :
        certificate = [part |-> part, blockForest |-> forest]
  BY DEF Certificates
<1>6. part \in Seq(AnyClaim)
  <2>1. DOMAIN part = 1 .. k /\ part = [i \in 1 .. k |-> part[i]]
    BY <1>2, <1>5 DEF Parts
  <2>2. ASSUME NEW i \in 1 .. k  PROVE part[i] \in AnyClaim
    <3>1. part[i] \in Claims(batches[i], i - 1)
      BY <1>2, <1>5, <2>2 DEF Parts
    <3>2. PICK in \in TreesOver(batches[i]), out \in TreesOver(batches[i]) :
            part[i] = [txs |-> Sorted(batches[i]), rank |-> i - 1, inTree |-> in, outTree |-> out]
      BY <3>1 DEF Claims
    <3>3. in \in SUBSET (Txs \X Txs) /\ out \in SUBSET (Txs \X Txs)
      <4>1. batches[i] \subseteq Txs
        BY <1>2
      <4> QED  BY <3>2, <4>1 DEF TreesOver
    <3> QED  BY <1>2, <1>3, <3>2, <3>3 DEF AnyClaim
  <2> QED  BY <1>2, <2>1, <2>2
<1>7. forest \in SUBSET AnyRecord
  <2>1. \A id \in Txs : Records(id) \subseteq AnyRecord
    <3> SUFFICES ASSUME NEW id \in Txs, NEW record \in Records(id)  PROVE record \in AnyRecord
      OBVIOUS
    <3>1. CASE record = [vertex |-> id, depth |-> 0, hasParent |-> FALSE, parent |-> NoParent]
      BY <3>1 DEF AnyRecord
    <3>2. CASE \E d \in 1 .. Cardinality(Txs) - 1, p \in Txs \ {id} :
                 record = [vertex |-> id, depth |-> d, hasParent |-> TRUE, parent |-> p]
      <4>1. PICK d \in 1 .. Cardinality(Txs) - 1, p \in Txs \ {id} :
                 record = [vertex |-> id, depth |-> d, hasParent |-> TRUE, parent |-> p]
        BY <3>2
      <4>2. d \in Nat
        OBVIOUS
      <4> QED  BY <4>1, <4>2 DEF AnyRecord
    <3> QED  BY <3>1, <3>2 DEF Records
  <2>2. PICK blocked \in SUBSET rest :
            \E f : (\A id \in blocked : f[id] \in Records(id)) /\ forest = {f[id] : id \in blocked}
    BY <1>5 DEF Forests
  <2> QED  BY <2>1, <2>2
<1>8. certificate \in AnyCertificate
  BY <1>5, <1>6, <1>7 DEF AnyCertificate
<1> QED  BY <1>4, <1>8

(* What a follower's checks accept is the one final order the algorithm      *)
(* derives from the evidence: of all the candidates of the run, and by       *)
(* AcceptedIsProposal of all certificates (verifyCandidate).                 *)
THEOREM OneOrderAcceptedHolds == Spec => []OneOrderAccepted
<1>1. EngineInv => OneOrderAccepted
  <2> SUFFICES ASSUME EngineInv, pending # NoCandidate, NEW candidate \in Candidates,
                      NEW finalOrder,
                      finalOrder = [i \in DOMAIN candidate[1] |->
                            Batch(pending.preState.batchCounter + i, Sorted(candidate[1][i]))],
                      AcceptsSome(pending.preState, finalOrder, candidate[2])
               PROVE  finalOrder = pending.finalOrder
    BY DEF OneOrderAccepted, Compared
  <2>1. PICK batches \in OrderedPartitions : candidate = <<batches, Certificates(batches)>>
    BY DEF Candidates
  <2>2. PICK batch : Extending(committed, batch) /\ pending = Candidate(batch)
    BY DEF EngineInv, CandidateBuilt
  <2>3. committed \in States /\ ExactCaches(committed) /\ Exact(manager, committed)
    BY DEF EngineInv, CommittedExact
  <2> DEFINE applied == ApplyEvidence(committed, batch)
             pre == applied.state
             refreshed == Refresh(manager, applied.state, applied.nodes, applied.pairs)
  <2>4. pre \in States /\ ExactCaches(pre) /\ Exact(refreshed, pre)
    <3>1. pre \in States /\ ExactCaches(pre)
      BY <2>2, <2>3, AppliedExact, Zenon
    <3>2. Exact(refreshed, pre)
      BY <2>2, <2>3, RefreshedExact, Zenon
    <3> QED  BY <3>1, <3>2
  <2>5. pending.preState = pre /\ pending.finalOrder = BuildProposal(refreshed, pre).finalOrder
    BY <2>2 DEF Candidate
  <2> HIDE DEF pre, refreshed
  <2>6. PICK certificate \in Certificates(batches) :
            VerifyCertificate(pre, finalOrder, certificate)
    BY <2>1, <2>5 DEF AcceptsSome
  <2>7. pre.batchCounter \in Nat
    BY <2>4 DEF States
  <2>8. finalOrder \in AnyOrder /\ certificate \in AnyCertificate
    <3>1. finalOrder = [i \in DOMAIN batches |-> Batch(pre.batchCounter + i, Sorted(batches[i]))]
      BY <2>1, <2>5
    <3> QED  BY <2>6, <2>7, <3>1, CandidateShape
  <2>9. Accepts(refreshed, pre, finalOrder, certificate)
    BY <2>4, <2>6, <2>8 DEF Accepts
  <2> QED  BY <2>5, <2>9, AcceptedIsProposal
<1> QED  BY <1>1, EngineInvariant, PTL

-----------------------------------------------------------------------------
(* The trees the leader builds. *)

(* In a search every vertex but the roots has a parent before it in the      *)
(* queue (BfsParent).                                                        *)
LEMMA SearchParents ==
    ASSUME NEW roots \in SUBSET Txs, NEW edges \in SUBSET (Txs \X Txs),
           NEW queue, queue = Bfs(roots, edges),
           NEW id \in Ids(queue) \ roots, NEW parent, parent = BfsParent(queue, edges, id)
    PROVE  /\ parent \in Ids(queue) /\ <<parent, id>> \in edges
           /\ PosIn(queue, parent) \in Nat /\ PosIn(queue, id) \in Nat
           /\ PosIn(queue, parent) < PosIn(queue, id)
<1>1. Leads(edges)
  BY DEF Leads
<1>2. queue \in Logs /\ Searched(roots, edges, queue, Cardinality(Txs))
  BY <1>1, SearchFindsReachable
<1>3. DOMAIN queue = 1 .. Len(queue) /\ Len(queue) \in Nat
  BY <1>2, LogLength
<1>4. PICK j \in 1 .. Len(queue) : queue[j] = id
  BY <1>3 DEF Ids
<1>5. PICK e \in edges : e[2] = id /\ \E i \in 1 .. j - 1 : e[1] = queue[i]
  BY <1>2, <1>4 DEF Searched
<1>6. PICK i \in 1 .. j - 1 : e[1] = queue[i]
  BY <1>5
<1> DEFINE A == {k \in DOMAIN queue : <<queue[k], id>> \in edges}
<1>7. i \in A
  <2>1. e = <<e[1], e[2]>>
    OBVIOUS
  <2> QED  BY <1>3, <1>5, <1>6, <2>1
<1>8. A \in SUBSET Nat /\ A # {}
  BY <1>3, <1>7
<1>9. PICK m \in A : \A k \in A : m <= k
  <2> HIDE DEF A
  <2> QED  BY <1>8, LeastNumber
<1> DEFINE first == CHOOSE k \in DOMAIN queue :
                        /\ <<queue[k], id>> \in edges
                        /\ \A l \in 1 .. k - 1 : <<queue[l], id>> \notin edges
<1>10. /\ first \in DOMAIN queue /\ <<queue[first], id>> \in edges
       /\ \A l \in 1 .. first - 1 : <<queue[l], id>> \notin edges
  <2>1. m \in DOMAIN queue /\ <<queue[m], id>> \in edges
    OBVIOUS
  <2>2. \A l \in 1 .. m - 1 : <<queue[l], id>> \notin edges
    <3> SUFFICES ASSUME NEW l \in 1 .. m - 1, <<queue[l], id>> \in edges  PROVE FALSE
      OBVIOUS
    <3>1. l \in A
      BY <1>3, <2>1
    <3>2. m <= l /\ m \in Nat
      <4> HIDE DEF A
      <4> QED  BY <1>3, <1>9, <2>1, <3>1
    <3> QED  BY <3>2
  <2> HIDE DEF A
  <2> QED  BY <2>1, <2>2
<1>11. parent = queue[first]
  BY DEF BfsParent
<1> HIDE DEF first
<1>12. first < j
  <2> SUFFICES ASSUME ~(first < j)  PROVE FALSE
    OBVIOUS
  <2>1. i \in 1 .. first - 1
    BY <1>3, <1>10
  <2>2. <<queue[i], id>> \in edges
    BY <1>7
  <2> QED  BY <1>10, <2>1, <2>2
<1>13. PosIn(queue, parent) = first /\ PosIn(queue, id) = j
  BY <1>2, <1>3, <1>4, <1>10, <1>11, PosInIndex
<1> QED  BY <1>3, <1>10, <1>11, <1>12, <1>13 DEF Ids

(* Vertices with a parent before them in a log are all found along the edges *)
(* from parent to child.                                                     *)
LEMMA ParentsReach ==
    ASSUME NEW log \in Logs, NEW roots \in SUBSET Txs,
           NEW edges, Leads(edges),
           \A id \in Ids(log) \ roots :
                \E p \in Ids(log) : <<p, id>> \in edges /\ PosIn(log, p) < PosIn(log, id)
    PROVE  Ids(log) \subseteq Ids(Bfs(roots, edges))
<1> DEFINE found == Ids(Bfs(roots, edges))
           missed == {PosIn(log, id) : id \in Ids(log) \ found}
<1>1. roots \subseteq found /\ \A e \in edges : e[1] \in found => e[2] \in found
  BY SearchFindsReachable DEF Searched
<1> HIDE DEF found
<1>2. \A id : PosIn(log, id) \in Nat
  BY PosInLog DEF Logs
<1> SUFFICES ASSUME Ids(log) \ found # {}  PROVE FALSE
  BY DEF found
<1>3. missed \in SUBSET Nat /\ missed # {}
  BY <1>2
<1>4. PICK m \in missed : \A k \in missed : m <= k
  <2> HIDE DEF missed
  <2> QED  BY <1>3, LeastNumber
<1>5. PICK id \in Ids(log) \ found : m = PosIn(log, id)
  OBVIOUS
<1>6. PICK p \in Ids(log) : <<p, id>> \in edges /\ PosIn(log, p) < PosIn(log, id)
  BY <1>1, <1>5
<1>7. p \notin found
  BY <1>1, <1>5, <1>6
<1>8. PosIn(log, p) \in missed
  BY <1>6, <1>7
<1> QED  BY <1>2, <1>4, <1>5, <1>6, <1>8

(* The edges of a component, and that the search from a root spans it.       *)
InnerEdges(adjacency, component) == {e \in adjacency : e[1] \in component /\ e[2] \in component}
Spans(root, component, adjacency) ==
    Ids(Bfs({root}, InnerEdges(adjacency, component))) = component

(* The edges of an adjacency are edges of the graph, reversed if inward. *)
Follows(state, adjacency, inward) ==
    \A e \in adjacency : IF inward THEN LocalEdgePred(state, e[2], e[1])
                         ELSE LocalEdgePred(state, e[1], e[2])

(* What a tree is built from. *)
Searchable(state, root, component, adjacency, inward) ==
    /\ component \in SUBSET Txs /\ root \in component /\ adjacency \in SUBSET (Txs \X Txs)
    /\ inward \in BOOLEAN
    /\ Follows(state, adjacency, inward) /\ Spans(root, component, adjacency)

(* What a follower asks of a tree (verifyTree and the length of its edges).  *)
TreePasses(state, root, component, tree, inward) ==
    /\ VerifyTree(state, root, component, tree, inward)
    /\ Cardinality(tree) = Cardinality(component) - 1

(* The tree of a component that is searched through passes the follower's    *)
(* check (spanningTree, verifyTree).                                         *)
LEMMA BuiltTree ==
    \A state, root, component, adjacency : \A inward \in BOOLEAN :
        Searchable(state, root, component, adjacency, inward) =>
            TreePasses(state, root, component,
                       SpanningTree(root, component, adjacency, inward), inward)
<1> SUFFICES ASSUME NEW state, NEW root, NEW component, NEW adjacency, NEW inward \in BOOLEAN,
                    Searchable(state, root, component, adjacency, inward),
                    NEW tree, tree = SpanningTree(root, component, adjacency, inward)
             PROVE  TreePasses(state, root, component, tree, inward)
  OBVIOUS
<1>0. /\ component \in SUBSET Txs /\ root \in component /\ adjacency \in SUBSET (Txs \X Txs)
      /\ inward \in BOOLEAN
      /\ Follows(state, adjacency, inward) /\ Spans(root, component, adjacency)
  BY DEF Searchable
<1> DEFINE edges == InnerEdges(adjacency, component)
           queue == Bfs({root}, edges)
           rest == component \ {root}
           par == [id \in rest |-> BfsParent(queue, edges, id)]
           down == {<<par[id], id>> : id \in rest}
<1>1. edges \in SUBSET (Txs \X Txs) /\ {root} \in SUBSET Txs /\ edges \subseteq adjacency
  BY <1>0 DEF InnerEdges
<1>2. Ids(queue) = component
  BY <1>0 DEF Spans
<1>3. queue \in Logs
  BY <1>1, SearchFindsReachable DEF Leads
<1>4. tree = {IF inward THEN <<id, par[id]>> ELSE <<par[id], id>> : id \in rest}
  <2>1. tree = {IF inward THEN <<id, BfsParent(queue, edges, id)>>
                ELSE <<BfsParent(queue, edges, id), id>> : id \in Ids(queue) \ {root}}
    BY DEF SpanningTree, InnerEdges
  <2>2. \A id \in rest : par[id] = BfsParent(queue, edges, id)
    OBVIOUS
  <2> HIDE DEF queue, par, edges
  <2> QED  BY <1>2, <2>1, <2>2
<1>5. \A id \in rest :
        /\ par[id] \in component /\ <<par[id], id>> \in edges
        /\ PosIn(queue, par[id]) < PosIn(queue, id)
  <2> TAKE id \in rest
  <2>1. par[id] = BfsParent(queue, edges, id) /\ id \in Ids(queue) \ {root}
    BY <1>2
  <2> HIDE DEF queue, par, edges, rest
  <2> QED  BY <1>1, <1>2, <2>1, SearchParents DEF queue
<1> HIDE DEF edges, queue, par
<1>6. down = IF inward THEN {<<e[2], e[1]>> : e \in tree} ELSE tree
  <2>0. inward \in BOOLEAN
    BY <1>0
  <2>1. CASE inward = TRUE
    <3>1. tree = {<<id, par[id]>> : id \in rest}
      BY <1>4, <2>1
    <3>2. {<<e[2], e[1]>> : e \in tree} = down
      <4>1. \A id \in rest : <<id, par[id]>> \in tree
        BY <3>1
      <4>2. \A e \in tree : \E id \in rest : e = <<id, par[id]>>
        BY <3>1
      <4> HIDE DEF rest
      <4>3. \A e \in tree : <<e[2], e[1]>> \in down
        BY <4>2
      <4>4. \A d \in down : \E e \in tree : d = <<e[2], e[1]>>
        <5> TAKE d \in down
        <5>1. PICK id \in rest : d = <<par[id], id>>
          OBVIOUS
        <5>2. <<id, par[id]>> \in tree
          BY <4>1
        <5>3. d = <<(<<id, par[id]>>)[2], (<<id, par[id]>>)[1]>>
          BY <5>1
        <5> QED  BY <5>2, <5>3
      <4> HIDE DEF down
      <4> QED  BY <4>3, <4>4
    <3> QED  BY <2>1, <3>2
  <2>2. CASE inward = FALSE
    BY <1>4, <2>2
  <2> QED  BY <2>0, <2>1, <2>2
<1>7. \A e \in tree : /\ e[1] \in component /\ e[2] \in component
                      /\ LocalEdgePred(state, e[1], e[2])
  <2> SUFFICES ASSUME NEW id \in rest
               PROVE  LET e == IF inward THEN <<id, par[id]>> ELSE <<par[id], id>>
                      IN  /\ e[1] \in component /\ e[2] \in component
                          /\ LocalEdgePred(state, e[1], e[2])
    BY <1>4
  <2>1. par[id] \in component /\ <<par[id], id>> \in adjacency
    BY <1>1, <1>5
  <2>2. IF inward THEN LocalEdgePred(state, id, par[id]) ELSE LocalEdgePred(state, par[id], id)
    BY <1>0, <2>1 DEF Follows
  <2> QED  BY <2>1, <2>2
<1>8. \A id \in component :
        Cardinality({e \in down : e[2] = id}) = IF id = root THEN 0 ELSE 1
  <2> TAKE id \in component
  <2>1. CASE id = root
    <3>1. {e \in down : e[2] = id} = {}
      BY <2>1
    <3> HIDE DEF down
    <3> QED  BY <2>1, <3>1, FS_EmptySet
  <2>2. CASE id # root
    <3>1. {e \in down : e[2] = id} = {<<par[id], id>>}
      BY <2>2
    <3> HIDE DEF down
    <3> QED  BY <2>2, <3>1, FS_Singleton
  <2> QED  BY <2>1, <2>2
<1>9. Ids(Bfs({root}, down)) = component
  <2>1. Leads(down)
    BY <1>0 DEF Leads
  <2>2. \A id \in Ids(queue) \ {root} :
            \E p \in Ids(queue) : <<p, id>> \in down /\ PosIn(queue, p) < PosIn(queue, id)
    BY <1>2, <1>5
  <2>3. \A e \in down : e[1] \in component => e[2] \in component
    OBVIOUS
  <2> HIDE DEF down
  <2>4. component \subseteq Ids(Bfs({root}, down))
    BY <1>1, <1>2, <1>3, <2>1, <2>2, ParentsReach
  <2>5. Ids(Bfs({root}, down)) \subseteq component
    <3>1. Searched({root}, down, Bfs({root}, down), Cardinality(Txs))
      BY <1>1, <2>1, SearchFindsReachable
    <3>2. {root} \subseteq component
      BY <1>0
    <3> QED  BY <2>3, <3>1, <3>2, Zenon DEF Searched
  <2> QED  BY <2>4, <2>5
<1>10. Cardinality(tree) = Cardinality(component) - 1
  <2> DEFINE f == [id \in rest |-> IF inward THEN <<id, par[id]>> ELSE <<par[id], id>>]
  <2>1. \A a, b \in rest : f[a] = f[b] => a = b
    BY <1>4
  <2>2. f \in [rest -> tree] /\ \A t \in tree : \E id \in rest : f[id] = t
    BY <1>4
  <2> HIDE DEF f
  <2>3. ExistsBijection(rest, tree)
    <3>1. f \in Bijection(rest, tree)
      BY <2>1, <2>2 DEF Bijection, Injection, Surjection, IsInjective
    <3> QED  BY <3>1 DEF ExistsBijection
  <2>4. IsFiniteSet(component) /\ IsFiniteSet(rest) /\ Cardinality(rest) = Cardinality(component) - 1
    <3>1. IsFiniteSet(component)
      BY <1>0, TxAssumption, FS_Subset
    <3> QED  BY <1>0, <3>1, FS_RemoveElement
  <2> QED  BY <2>3, <2>4, FS_Bijection
<1> HIDE DEF down
<1>11. VerifyTree(state, root, component, tree, inward)
  BY <1>6, <1>7, <1>8, <1>9, Zenon DEF VerifyTree
<1> QED  BY <1>10, <1>11 DEF TreePasses

(* The edges the other way round, which the manager keeps as its inverse. *)
Converse(edges) == {<<e[2], e[1]>> : e \in edges}

(* Paths of the converse are the paths backwards. *)
LEMMA ReachabilityConverse ==
    ASSUME NEW edges \in SUBSET (Txs \X Txs), NEW a \in Txs, NEW b \in Txs,
           <<a, b>> \in Reachability(edges)
    PROVE  <<b, a>> \in Reachability(Converse(edges))
<1> DEFINE back == Reachability(Converse(edges))
           Q == {e \in Txs \X Txs : <<e[2], e[1]>> \in back}
<1>1. Converse(edges) \in SUBSET (Txs \X Txs)
  BY DEF Converse
<1>2. /\ Converse(edges) \subseteq back /\ Transitive(back)
      /\ \A id \in Txs : <<id, id>> \in back
  BY <1>1, ReachabilityLeast
<1>3. \A e \in edges : <<e[2], e[1]>> \in back
  BY <1>2 DEF Converse
<1> HIDE DEF back
<1>4. edges \subseteq Q /\ \A id \in Txs : <<id, id>> \in Q
  BY <1>2, <1>3
<1>5. Transitive(Q)
  BY <1>2 DEF Transitive
<1>6. \A x, y \in Txs : <<x, y>> \in Q => <<y, x>> \in back
  OBVIOUS
<1> HIDE DEF Q
<1>7. Reachability(edges) \subseteq Q
  BY <1>4, <1>5, ReachabilityLeast
<1> QED  BY <1>6, <1>7 DEF back

(* A search within a component finds it all. *)
LEMMA ComponentSpans ==
    ASSUME NEW adjacency \in SUBSET (Txs \X Txs), NEW component \in SUBSET Txs,
           NEW root \in component,
           \A v \in component : /\ <<root, v>> \in Reachability(adjacency)
                                /\ <<v, root>> \in Reachability(adjacency),
           \A e \in adjacency :
                e[1] \in component /\ <<e[2], root>> \in Reachability(adjacency) => e[2] \in component
    PROVE  Spans(root, component, adjacency)
<1> DEFINE reach == Reachability(adjacency)
           edges == InnerEdges(adjacency, component)
           found == Ids(Bfs({root}, edges))
           Q == {e \in reach : e[1] \in found /\ <<e[2], root>> \in reach => e[2] \in found}
<1>1. \A e \in edges : e[1] \in component /\ e[2] \in component
  BY DEF InnerEdges
<1>2. Leads(edges) /\ {root} \in SUBSET Txs
  BY <1>1 DEF Leads
<1>3. /\ Searched({root}, edges, Bfs({root}, edges), Cardinality(Txs))
      /\ \A e \in edges : e[1] \in found => e[2] \in found
  <2> HIDE DEF edges
  <2> QED  BY <1>2, SearchFindsReachable
<1>4. root \in found
  BY <1>3 DEF Searched
<1>5. found \subseteq component
  <2>1. {root} \subseteq component /\ \A e \in edges : e[1] \in component => e[2] \in component
    BY <1>1
  <2> HIDE DEF edges
  <2> QED  BY <1>3, <2>1, Zenon DEF Searched
<1>6. /\ reach \in SUBSET (Txs \X Txs) /\ adjacency \subseteq reach /\ Transitive(reach)
      /\ \A id \in Txs : <<id, id>> \in reach
      /\ \A R : adjacency \subseteq R /\ (\A id \in Txs : <<id, id>> \in R) /\ Transitive(R)
                    => reach \subseteq R
  BY ReachabilityLeast
<1>7. /\ \A v \in component : <<root, v>> \in reach /\ <<v, root>> \in reach
      /\ \A e \in adjacency : e[1] \in component /\ <<e[2], root>> \in reach => e[2] \in component
  OBVIOUS
<1>8. \A e \in adjacency : e[1] \in component /\ e[2] \in component => e \in edges
  BY DEF InnerEdges
<1> HIDE DEF reach, edges, found
<1>9. adjacency \subseteq Q
  <2> SUFFICES ASSUME NEW e \in adjacency, e[1] \in found, <<e[2], root>> \in reach
               PROVE  e[2] \in found
    BY <1>6
  <2>1. e[1] \in component /\ e[2] \in component
    BY <1>5, <1>7
  <2> QED  BY <1>3, <1>8, <2>1
<1>10. \A id \in Txs : <<id, id>> \in Q
  BY <1>6
<1>11. Transitive(Q)
  <2> SUFFICES ASSUME NEW x \in Txs, NEW y \in Txs, NEW z \in Txs,
                      <<x, y>> \in Q, <<y, z>> \in Q
               PROVE  <<x, z>> \in Q
    BY DEF Transitive
  <2>1. <<x, y>> \in reach /\ <<y, z>> \in reach /\ <<x, z>> \in reach
    BY <1>6 DEF Transitive
  <2>2. <<z, root>> \in reach => <<y, root>> \in reach
    BY <1>6, <2>1 DEF Transitive
  <2>3. x \in found /\ <<y, root>> \in reach => y \in found
    OBVIOUS
  <2>4. y \in found /\ <<z, root>> \in reach => z \in found
    OBVIOUS
  <2> QED  BY <2>1, <2>2, <2>3, <2>4
<1>12. \A v : <<root, v>> \in Q /\ <<v, root>> \in reach => v \in found
  BY <1>4
<1> HIDE DEF Q
<1>13. reach \subseteq Q
  BY <1>6, <1>9, <1>10, <1>11
<1>14. component \subseteq found
  BY <1>7, <1>12, <1>13
<1> QED  BY <1>5, <1>14 DEF Spans, found, edges

(* Both ways a component of the graph is spanned from each of its vertices.  *)
LEMMA GraphComponentSpans ==
    ASSUME NEW graph, IsGraph(graph), NEW component \in GraphComponents(graph),
           NEW root \in component
    PROVE  Spans(root, component, graph.edges) /\ Spans(root, component, Converse(graph.edges))
<1> DEFINE reach == Reachability(graph.edges)
           back == Reachability(Converse(graph.edges))
<1>1. /\ component \in SUBSET graph.nodes /\ component \in SUBSET Txs
      /\ \A u \in component, v \in graph.nodes :
            v \in component <=> <<u, v>> \in reach /\ <<v, u>> \in reach
  BY ComponentFacts
<1>2. /\ graph.edges \in SUBSET (Txs \X Txs) /\ graph.nodes \in SUBSET Txs
      /\ \A e \in graph.edges : e[1] \in graph.nodes /\ e[2] \in graph.nodes
      /\ \A e \in graph.edges : e = <<e[1], e[2]>>
  BY DEF IsGraph
<1>3. Converse(graph.edges) \in SUBSET (Txs \X Txs)
  BY <1>2 DEF Converse
<1>4. graph.edges \subseteq reach /\ Transitive(reach)
  BY <1>2, ReachabilityLeast
<1>5. Converse(Converse(graph.edges)) = graph.edges
  <2>1. \A e \in graph.edges : e \in Converse(Converse(graph.edges))
    <3> TAKE e \in graph.edges
    <3>1. <<e[2], e[1]>> \in Converse(graph.edges)
      BY DEF Converse
    <3>2. <<(<<e[2], e[1]>>)[2], (<<e[2], e[1]>>)[1]>> \in Converse(Converse(graph.edges))
      BY <3>1, Zenon DEF Converse
    <3> QED  BY <1>2, <3>2
  <2>2. \A d \in Converse(graph.edges) : <<d[2], d[1]>> \in graph.edges
    BY <1>2 DEF Converse
  <2>3. Converse(Converse(graph.edges)) \subseteq graph.edges
    BY <2>2, Zenon DEF Converse
  <2> QED  BY <2>1, <2>3
<1>6. \A a, b \in Txs : <<a, b>> \in reach <=> <<b, a>> \in back
  <2>1. \A a, b \in Txs : <<a, b>> \in reach => <<b, a>> \in back
    BY <1>2, ReachabilityConverse
  <2>2. \A a, b \in Txs : <<b, a>> \in back => <<a, b>> \in Reachability(Converse(Converse(graph.edges)))
    BY <1>3, ReachabilityConverse
  <2> QED  BY <1>5, <2>1, <2>2
<1>7. \A v \in component : <<root, v>> \in reach /\ <<v, root>> \in reach
  BY <1>1
<1>8. ASSUME NEW e \in graph.edges, e[1] \in component, <<e[2], root>> \in reach
      PROVE  e[2] \in component
  <2>1. <<root, e[1]>> \in reach /\ <<e[1], e[2]>> \in reach
    BY <1>2, <1>4, <1>7, <1>8
  <2>2. <<root, e[2]>> \in reach
    BY <1>1, <1>2, <1>4, <2>1 DEF Transitive
  <2> QED  BY <1>1, <1>2, <1>8, <2>2
<1>9. Spans(root, component, graph.edges)
  BY <1>1, <1>2, <1>7, <1>8, ComponentSpans
<1>10. \A v \in component : <<root, v>> \in back /\ <<v, root>> \in back
  BY <1>1, <1>6, <1>7
<1>11. ASSUME NEW e \in Converse(graph.edges), e[1] \in component, <<e[2], root>> \in back
       PROVE  e[2] \in component
  <2>1. PICK d \in graph.edges : e = <<d[2], d[1]>>
    BY DEF Converse
  <2>2. d[2] \in component /\ d[1] \in graph.nodes /\ d[1] \in Txs /\ root \in Txs /\ d[2] \in Txs
    BY <1>1, <1>2, <1>11, <2>1
  <2>3. <<root, d[1]>> \in reach
    BY <1>6, <1>11, <2>1, <2>2
  <2>4. <<d[1], d[2]>> \in reach /\ <<d[2], root>> \in reach
    BY <1>2, <1>4, <1>7, <2>2
  <2>5. <<d[1], root>> \in reach
    BY <1>4, <2>2, <2>4 DEF Transitive
  <2> QED  BY <1>1, <2>1, <2>2, <2>3, <2>5
<1>12. Spans(root, component, Converse(graph.edges))
  <2> HIDE DEF reach
  <2> QED  BY <1>1, <1>3, <1>10, <1>11, ComponentSpans
<1> QED  BY <1>9, <1>12

-----------------------------------------------------------------------------
(* The certificate of a proposal. *)

(* The evidence and the graph a proposal is built from. *)
Prepared(graph, state) == state \in States /\ ExactCaches(state) /\ Exact(graph, state)

(* The order of a proposal and the claim of each of its components.          *)
ProposalOrder(graph, state) == TopoSort(Selected(graph, state), GraphCondensation(graph))
ClaimOf(graph, c, rank) ==
    [txs |-> Sorted(c), rank |-> rank,
     inTree |-> SpanningTree(Least(c), c, graph.inverse, TRUE),
     outTree |-> SpanningTree(Least(c), c, graph.edges, FALSE)]

Proposed(graph, state, ordered) ==
    /\ BuildProposal(graph, state).finalOrder =
            [i \in DOMAIN ordered |-> Batch(state.batchCounter + i, Sorted(ordered[i]))]
    /\ BuildProposal(graph, state).certificate.part =
            [i \in DOMAIN ordered |-> ClaimOf(graph, ordered[i], i - 1)]
    /\ BuildProposal(graph, state).certificate.blockForest =
            BlockForest(graph, state, UNION Selected(graph, state))

(* The parts BuildProposal puts together. *)
LEMMA ProposalParts ==
    ASSUME NEW graph, NEW state
    PROVE  Proposed(graph, state, ProposalOrder(graph, state))
BY DEF Proposed, BuildProposal, ProposalOrder, ClaimOf, Selected, Held, Unready,
       GraphCondensation, GraphComponents

(* The first of a sorted set is its least element. *)
LEMMA FirstOfSorted ==
    ASSUME NEW ids \in SUBSET Txs, ids # {}
    PROVE  Sorted(ids)[1] = Least(ids) /\ Least(ids) \in ids
<1>1. ids \in SUBSET Nat /\ IsFiniteSet(ids)
  BY TxAssumption, FS_Subset
<1>2. /\ Ids(Sorted(ids)) = ids /\ Increasing(Sorted(ids)) /\ Sorted(ids) \in Seq(ids)
  BY <1>1, SortedProperties
<1>3. DOMAIN Sorted(ids) = 1 .. Len(Sorted(ids)) /\ Len(Sorted(ids)) \in Nat
  BY <1>2, SeqElements
<1>4. Least(ids) \in ids /\ \A y \in ids : Least(ids) <= y
  BY <1>1, LeastElement
<1>5. PICK i \in DOMAIN Sorted(ids) : Sorted(ids)[i] = Least(ids)
  BY <1>2, <1>4 DEF Ids
<1>6. 1 \in DOMAIN Sorted(ids) /\ Sorted(ids)[1] \in ids
  BY <1>2, <1>3, <1>5 DEF Ids
<1>7. ~(1 < i)
  <2> SUFFICES ASSUME 1 < i  PROVE FALSE
    OBVIOUS
  <2>1. Sorted(ids)[1] < Least(ids)
    BY <1>2, <1>5, <1>6 DEF Increasing
  <2>2. Sorted(ids)[1] \in Nat /\ Least(ids) \in Nat /\ Least(ids) <= Sorted(ids)[1]
    BY <1>1, <1>4, <1>6
  <2> QED  BY <2>1, <2>2
<1>8. i = 1
  BY <1>3, <1>7
<1> QED  BY <1>4, <1>5, <1>8

(* The batches of a proposal: the selected components, each once, in an      *)
(* order their edges follow.                                                 *)
InOrder(graph, state, ordered) ==
    /\ IsGraph(graph) /\ DOMAIN ordered = 1 .. Len(ordered) /\ Len(ordered) \in Nat
    /\ Ids(ordered) = Selected(graph, state)
    /\ \A i \in DOMAIN ordered :
        /\ ordered[i] \in Selected(graph, state) /\ ordered[i] \in GraphComponents(graph)
        /\ ordered[i] # {} /\ ordered[i] \in SUBSET graph.nodes /\ ordered[i] \in SUBSET Txs
        /\ \A id \in ordered[i] : state.states[id] = "solid"
    /\ \A i, j \in DOMAIN ordered : ordered[i] \cap ordered[j] # {} => i = j
    /\ \A i, j \in DOMAIN ordered :
        (\E e \in graph.edges : e[1] \in ordered[i] /\ e[2] \in ordered[j]) => i <= j

(* Selected components are disjoint sets of solid transactions in Kahn order. *)
LEMMA ProposalInOrder ==
    ASSUME NEW graph, NEW state, Prepared(graph, state),
           NEW ordered, ordered = ProposalOrder(graph, state)
    PROVE  InOrder(graph, state, ordered)
<1> DEFINE sel == Selected(graph, state)
           C == GraphComponents(graph)
           K == GraphCondensation(graph)
<1>1. IsGraph(graph)
  BY ExactGraph DEF Prepared
<1>2. /\ \A c \in sel : \A id \in c : state.states[id] = "solid"
      /\ ordered \in Ordered(sel, K) /\ Ids(ordered) = sel
  BY <1>1, SelectedClosed DEF ProposalOrder
<1>3. /\ C \subseteq SUBSET graph.nodes /\ C \subseteq SUBSET Txs /\ \A c \in C : c # {}
      /\ \A c, d \in C : \A u : u \in c /\ u \in d => c = d
      /\ \A c, d \in C : \A u \in c, v \in d : <<u, v>> \in graph.edges /\ c # d => <<c, d>> \in K
  BY <1>1, ComponentFacts
<1>4. sel \subseteq C
  BY DEF Selected
<1>5. \A e \in graph.edges : e = <<e[1], e[2]>>
  BY <1>1 DEF IsGraph
<1> HIDE DEF sel, C, K
<1>6. /\ ordered \in Seq(sel)
      /\ \A i, j \in DOMAIN ordered : ordered[i] = ordered[j] => i = j
      /\ \A j \in DOMAIN ordered, d \in sel :
            <<d, ordered[j]>> \in K => \E i \in 1 .. j - 1 : ordered[i] = d
  BY <1>2 DEF Ordered
<1>7. /\ DOMAIN ordered = 1 .. Len(ordered) /\ Len(ordered) \in Nat
      /\ \A i \in DOMAIN ordered : ordered[i] \in sel
  BY <1>6, SeqElements
<1>8. \A i \in DOMAIN ordered :
        /\ ordered[i] \in sel /\ ordered[i] \in C
        /\ ordered[i] # {} /\ ordered[i] \in SUBSET graph.nodes /\ ordered[i] \in SUBSET Txs
        /\ \A id \in ordered[i] : state.states[id] = "solid"
  BY <1>2, <1>3, <1>4, <1>7
<1>9. \A i, j \in DOMAIN ordered : ordered[i] \cap ordered[j] # {} => i = j
  BY <1>3, <1>6, <1>8
<1>10. ASSUME NEW i \in DOMAIN ordered, NEW j \in DOMAIN ordered, NEW e \in graph.edges,
              e[1] \in ordered[i], e[2] \in ordered[j]
       PROVE  i <= j
  <2>1. CASE ordered[i] = ordered[j]
    <3>1. i = j
      BY <1>6, <2>1
    <3> QED  BY <1>7, <3>1
  <2>2. CASE ordered[i] # ordered[j]
    <3>1. <<e[1], e[2]>> \in graph.edges
      BY <1>5
    <3>2. <<ordered[i], ordered[j]>> \in K
      BY <1>3, <1>8, <1>10, <2>2, <3>1
    <3>3. PICK k \in 1 .. j - 1 : ordered[k] = ordered[i]
      BY <1>6, <1>8, <3>2
    <3>4. k \in DOMAIN ordered
      BY <1>7
    <3>5. k = i
      BY <1>6, <3>3, <3>4
    <3> QED  BY <1>7, <3>3, <3>5
  <2> QED  BY <2>1, <2>2
<1> QED  BY <1>1, <1>2, <1>7, <1>8, <1>9, <1>10 DEF InOrder, sel, C

(* The batches pass the check a follower starts with. *)
LEMMA ProposalBatches ==
    ASSUME NEW graph, NEW state, Prepared(graph, state)
    PROVE  VerifyBatches(state, BuildProposal(graph, state).finalOrder)
<1> DEFINE ordered == ProposalOrder(graph, state)
           finalOrder == BuildProposal(graph, state).finalOrder
<1>1. InOrder(graph, state, ordered)
  BY ProposalInOrder
<1>2. finalOrder = [i \in DOMAIN ordered |-> Batch(state.batchCounter + i, Sorted(ordered[i]))]
  <2>1. Proposed(graph, state, ordered)
    BY ProposalParts
  <2> HIDE DEF ordered
  <2> QED  BY <2>1 DEF Proposed
<1> HIDE DEF ordered, finalOrder
<1>3. DOMAIN finalOrder = DOMAIN ordered /\ \A i \in DOMAIN ordered :
            finalOrder[i].index = state.batchCounter + i /\ finalOrder[i].txs = Sorted(ordered[i])
  BY <1>2 DEF Batch
<1>4. \A i \in DOMAIN ordered :
        /\ Ids(finalOrder[i].txs) = ordered[i]
        /\ \A k \in 1 .. Len(finalOrder[i].txs) - 1 : finalOrder[i].txs[k] < finalOrder[i].txs[k + 1]
  <2> TAKE i \in DOMAIN ordered
  <2>1. ordered[i] \in SUBSET Nat /\ IsFiniteSet(ordered[i])
    BY <1>1, TxAssumption, FS_Subset DEF InOrder
  <2>2. /\ Ids(Sorted(ordered[i])) = ordered[i] /\ Increasing(Sorted(ordered[i]))
        /\ Sorted(ordered[i]) \in Seq(ordered[i])
    BY <2>1, SortedProperties
  <2>3. DOMAIN Sorted(ordered[i]) = 1 .. Len(Sorted(ordered[i])) /\ Len(Sorted(ordered[i])) \in Nat
    BY <2>2, SeqElements
  <2>4. \A k \in 1 .. Len(Sorted(ordered[i])) - 1 : Sorted(ordered[i])[k] < Sorted(ordered[i])[k + 1]
    BY <2>2, <2>3 DEF Increasing
  <2> QED  BY <1>3, <2>2, <2>4
<1>5. \A i \in DOMAIN ordered : \A id \in ordered[i] :
        id \in Active(state) \ Done(state) /\ state.states[id] = "solid"
  <2>1. Active(state) = graph.nodes /\ graph.nodes \cap Done(state) = {}
    BY LocalGraph, ExactGraph DEF Prepared
  <2> QED  BY <1>1, <2>1 DEF InOrder
<1>6. \A i, j \in DOMAIN ordered : \A id : id \in ordered[i] /\ id \in ordered[j] => i = j
  BY <1>1 DEF InOrder
<1>7. ASSUME NEW i \in DOMAIN finalOrder
      PROVE  /\ finalOrder[i].index = state.batchCounter + i
             /\ \A k \in 1 .. Len(finalOrder[i].txs) - 1 :
                    finalOrder[i].txs[k] < finalOrder[i].txs[k + 1]
             /\ \A id \in Ids(finalOrder[i].txs) :
                    /\ id \in Active(state) \ Done(state) /\ state.states[id] = "solid"
                    /\ \A j \in DOMAIN finalOrder : id \in Ids(finalOrder[j].txs) => i = j
  BY <1>3, <1>4, <1>5, <1>6
<1>8. VerifyBatches(state, finalOrder)
  BY <1>7, Zenon DEF VerifyBatches
<1> QED  BY <1>8 DEF finalOrder

(* The claims of a proposal pass verifyClaimedTrees.                         *)
LEMMA ProposalClaim ==
    ASSUME NEW graph, NEW state, Prepared(graph, state),
           NEW c \in Selected(graph, state), NEW rank
    PROVE  VerifyClaim(state, ClaimOf(graph, c, rank))
<1> DEFINE claim == ClaimOf(graph, c, rank)
           root == Least(c)
<1>1. IsGraph(graph) /\ graph.edges = EdgesOf(state) /\ graph.inverse = Converse(graph.edges)
  BY ExactGraph DEF Prepared, Exact, Converse
<1>2. c \in GraphComponents(graph)
  BY DEF Selected
<1>3. c \in SUBSET Txs /\ c # {}
  BY <1>1, <1>2, ComponentFacts
<1>4. Sorted(c)[1] = root /\ root \in c /\ Ids(Sorted(c)) = c /\ Len(Sorted(c)) = Cardinality(c)
  BY <1>3, FirstOfSorted, SortedLog
<1>5. /\ claim.txs = Sorted(c) /\ claim.inTree = SpanningTree(root, c, graph.inverse, TRUE)
      /\ claim.outTree = SpanningTree(root, c, graph.edges, FALSE)
  BY DEF ClaimOf
<1> HIDE DEF claim, root
<1>6. /\ graph.edges \in SUBSET (Txs \X Txs)
      /\ \A e \in graph.edges : e = <<e[1], e[2]>> /\ LocalEdgePred(state, e[1], e[2])
  <2>1. graph.edges \in SUBSET (Txs \X Txs)
    BY <1>1, ExactGraph DEF Prepared
  <2>2. \A u, v \in Txs : LocalEdgePred(state, u, v) <=> <<u, v>> \in graph.edges
    <3>1. state \in States /\ ExactCaches(state)
      BY DEF Prepared
    <3>2. \A u, v \in Txs : LocalEdgePred(state, u, v) <=> <<u, v>> \in EdgesOf(state)
      BY <3>1, LocalGraph
    <3> QED  BY <1>1, <3>2
  <2> QED  BY <2>1, <2>2
<1>7. graph.inverse \in SUBSET (Txs \X Txs)
  BY <1>1, <1>6 DEF Converse
<1>8. Follows(state, graph.edges, FALSE) /\ Follows(state, graph.inverse, TRUE)
  BY <1>1, <1>6 DEF Follows, Converse
<1>9. Spans(root, c, graph.edges) /\ Spans(root, c, graph.inverse)
  BY <1>1, <1>2, <1>4, GraphComponentSpans
<1>10. /\ VerifyTree(state, root, c, claim.outTree, FALSE)
       /\ Cardinality(claim.outTree) = Cardinality(c) - 1
  <2>1. root \in c /\ graph.edges \in SUBSET (Txs \X Txs) /\ FALSE \in BOOLEAN
    BY <1>4, <1>6
  <2>2. Searchable(state, root, c, graph.edges, FALSE)
    BY <1>3, <1>7, <1>8, <1>9, <2>1 DEF Searchable
  <2>3. TreePasses(state, root, c, SpanningTree(root, c, graph.edges, FALSE), FALSE)
    BY <2>1, <2>2, BuiltTree, Zenon
  <2> QED  BY <1>5, <2>3, Zenon DEF TreePasses
<1>11. /\ VerifyTree(state, root, c, claim.inTree, TRUE)
       /\ Cardinality(claim.inTree) = Cardinality(c) - 1
  <2>1. root \in c /\ TRUE \in BOOLEAN
    BY <1>4
  <2>2. Searchable(state, root, c, graph.inverse, TRUE)
    BY <1>3, <1>7, <1>8, <1>9, <2>1 DEF Searchable
  <2>3. TreePasses(state, root, c, SpanningTree(root, c, graph.inverse, TRUE), TRUE)
    BY <2>1, <2>2, BuiltTree, Zenon
  <2> QED  BY <1>5, <2>3, Zenon DEF TreePasses
<1>12. VerifyClaim(state, claim)
  BY <1>3, <1>4, <1>5, <1>10, <1>11, Zenon DEF VerifyClaim
<1> QED  BY <1>12 DEF claim

(* The claims are in the order Kahn's algorithm gives (verifyRanks).         *)
LEMMA ProposalRanks ==
    ASSUME NEW graph, NEW state, Prepared(graph, state)
    PROVE  VerifyRanks(state, BuildProposal(graph, state).certificate.part)
<1> DEFINE ordered == ProposalOrder(graph, state)
           part == BuildProposal(graph, state).certificate.part
           sel == Selected(graph, state)
           K == GraphCondensation(graph)
           inner == LocalEdges(state, UNION sel)
<1>1. InOrder(graph, state, ordered)
  BY ProposalInOrder
<1>2. /\ part = [i \in DOMAIN ordered |-> ClaimOf(graph, ordered[i], i - 1)]
      /\ ordered = TopoSort(sel, K)
  <2>1. Proposed(graph, state, ordered)
    BY ProposalParts
  <2>2. ordered = TopoSort(sel, K)
    BY DEF ProposalOrder
  <2> HIDE DEF ordered
  <2> QED  BY <2>1, <2>2 DEF Proposed
<1> HIDE DEF ordered, part
<1>3. /\ DOMAIN part = DOMAIN ordered /\ DOMAIN ordered = 1 .. Len(ordered)
      /\ \A i \in DOMAIN ordered : Ids(part[i].txs) = ordered[i]
  <2>1. DOMAIN part = DOMAIN ordered /\ \A i \in DOMAIN ordered : part[i].txs = Sorted(ordered[i])
    BY <1>2 DEF ClaimOf
  <2>2. \A i \in DOMAIN ordered : ordered[i] \in SUBSET Txs
    BY <1>1 DEF InOrder
  <2>3. \A i \in DOMAIN ordered : Ids(Sorted(ordered[i])) = ordered[i]
    BY <2>2, SortedLog
  <2> QED  BY <1>1, <2>1, <2>3 DEF InOrder
<1>4. {Ids(part[i].txs) : i \in DOMAIN part} = sel
  <2>1. {Ids(part[i].txs) : i \in DOMAIN part} = Ids(ordered)
    <3>1. Ids(ordered) = {ordered[i] : i \in DOMAIN ordered}
      BY DEF Ids
    <3>2. {Ids(part[i].txs) : i \in DOMAIN part} = {ordered[i] : i \in DOMAIN ordered}
      <4> DEFINE x(i) == Ids(part[i].txs)
      <4>1. \A i \in DOMAIN ordered : x(i) = ordered[i]
        BY <1>3
      <4> HIDE DEF x
      <4>2. {x(i) : i \in DOMAIN ordered} = {ordered[i] : i \in DOMAIN ordered}
        BY <4>1
      <4> QED  BY <1>3, <4>2 DEF x
    <3> QED  BY <3>1, <3>2
  <2> QED  BY <1>1, <2>1 DEF InOrder
<1>5. /\ IsGraph(graph) /\ graph.nodes \in SUBSET Txs
      /\ graph.edges \in SUBSET (Txs \X Txs)
      /\ \A ids \in SUBSET Txs : LocalEdges(state, ids) =
            {e \in graph.edges : e[1] \in ids /\ e[2] \in ids}
  <2>1. state \in States /\ ExactCaches(state) /\ Exact(graph, state)
    BY DEF Prepared
  <2>2. /\ IsGraph(graph) /\ graph.nodes \in SUBSET Txs
        /\ graph.edges \in SUBSET (Txs \X Txs) /\ graph.edges = EdgesOf(state)
    BY <2>1, ExactGraph
  <2>3. \A ids \in SUBSET Txs : LocalEdges(state, ids) =
            {e \in EdgesOf(state) : e[1] \in ids /\ e[2] \in ids}
    BY <2>1, LocalGraph
  <2> QED  BY <2>2, <2>3
<1>6. /\ IsFiniteSet(sel) /\ \A c \in sel : c \in SUBSET Txs /\ c \in SUBSET Nat /\ c # {}
      /\ sel \subseteq GraphComponents(graph)
  <2>1. /\ IsFiniteSet(GraphComponents(graph)) /\ GraphComponents(graph) \subseteq SUBSET Txs
        /\ \A c \in GraphComponents(graph) : c # {}
    BY <1>5, ComponentFacts
  <2>2. sel \subseteq GraphComponents(graph)
    BY DEF Selected
  <2> QED  BY <2>1, <2>2, TxAssumption, FS_Subset
<1>7. inner = {e \in graph.edges : e[1] \in UNION sel /\ e[2] \in UNION sel}
  BY <1>5, <1>6
<1>8. \A i, j \in DOMAIN part :
        (\E e \in inner : e[1] \in Ids(part[i].txs) /\ e[2] \in Ids(part[j].txs)) => i <= j
  <2>1. \A i, j \in DOMAIN ordered :
            (\E e \in graph.edges : e[1] \in ordered[i] /\ e[2] \in ordered[j]) => i <= j
    BY <1>1 DEF InOrder
  <2> HIDE DEF inner
  <2> QED  BY <1>3, <1>7, <2>1
<1>9. TopoSort(sel, Condensation(sel, inner)) = ordered
  <2>1. \A c, d \in sel : <<c, d>> \in Condensation(sel, inner) <=> <<c, d>> \in K
    <3> TAKE c, d \in sel
    <3>1. <<c, d>> \in K <=> c # d /\ \E e \in graph.edges : e[1] \in c /\ e[2] \in d
      BY <1>6 DEF GraphCondensation, Condensation
    <3>2. <<c, d>> \in Condensation(sel, inner) <=> c # d /\ \E e \in inner : e[1] \in c /\ e[2] \in d
      <4> HIDE DEF inner, sel
      <4> QED  BY DEF Condensation
    <3>3. \A e \in graph.edges : e[1] \in c /\ e[2] \in d => e \in inner
      BY <1>7
    <3>4. inner \subseteq graph.edges
      BY <1>7
    <3> HIDE DEF inner
    <3> QED  BY <3>1, <3>2, <3>3, <3>4
  <2> HIDE DEF sel, inner, K
  <2> QED  BY <1>2, <1>6, <2>1, TopoSortRestricted
<1>10. ordered = [i \in DOMAIN part |-> Ids(part[i].txs)]
  <2>1. ordered \in Ordered(sel, K)
    BY <1>2, <1>5, SelectedClosed
  <2>2. ordered = [i \in 1 .. Len(ordered) |-> ordered[i]]
    BY <2>1 DEF Ordered
  <2> QED  BY <1>3, <2>2
<1>11. VerifyRanks(state, part)
  <2> HIDE DEF sel
  <2>1. TopoSort(sel, Condensation(sel, inner)) = [i \in DOMAIN part |-> Ids(part[i].txs)]
    BY <1>9, <1>10
  <2> QED  BY <1>4, <1>8, <2>1, Zenon DEF VerifyRanks
<1> QED  BY <1>11 DEF part

(* No edge of the graph leads into the output from outside it.               *)
LEMMA ProposalFrontier ==
    ASSUME NEW graph, NEW state, Prepared(graph, state),
           NEW outside \in Active(state) \ UNION Selected(graph, state),
           NEW inside \in UNION Selected(graph, state)
    PROVE  ~LocalEdgePred(state, outside, inside)
<1>1. /\ IsGraph(graph) /\ graph.nodes \in SUBSET Txs /\ graph.edges \in SUBSET (Txs \X Txs)
      /\ graph.nodes = NodesOf(state) /\ graph.edges = EdgesOf(state)
  BY ExactGraph DEF Prepared
<1>2. /\ Active(state) = NodesOf(state)
      /\ \A u, v \in Txs : LocalEdgePred(state, u, v) <=> <<u, v>> \in EdgesOf(state)
  BY LocalGraph DEF Prepared
<1>3. inside \in Txs
  <2>1. GraphComponents(graph) \subseteq SUBSET Txs
    BY <1>1, ComponentFacts, Zenon
  <2> QED  BY <2>1 DEF Selected
<1>4. graph.edges \subseteq Reachability(graph.edges)
  BY <1>1, ReachabilityLeast
<1>5. outside \in graph.nodes /\ outside \in Txs
  BY <1>1, <1>2
<1>6. <<outside, inside>> \in Reachability(graph.edges) => outside \in UNION Selected(graph, state)
  BY <1>1, <1>5, SelectedBackward
<1>7. <<outside, inside>> \notin graph.edges
  BY <1>4, <1>6
<1> QED  BY <1>1, <1>2, <1>3, <1>5, <1>7

-----------------------------------------------------------------------------
(* Sets that are computed step by step. *)

(* The sets f[0], ..., f[n], each made of the one before.                    *)
Chain(f, n, S, base, step) ==
    /\ f \in [0 .. n -> SUBSET S] /\ f[0] = base
    /\ \A k \in 1 .. n : f[k] = step[f[k - 1]]

(* A chain exists from any first set. *)
LEMMA ChainExists ==
    ASSUME NEW n \in Nat, NEW S, NEW base \in SUBSET S, NEW step \in [SUBSET S -> SUBSET S]
    PROVE  \E f : Chain(f, n, S, base, step)
<1> DEFINE T == SUBSET S
           iterate == [p \in (1 .. n) \X T |-> step[p[2]]]
<1>1. base \in T /\ iterate \in [(1 .. n) \X T -> T]
  BY Zenon
<1> HIDE DEF T, iterate
<1>2. PICK f : Iterates(f, n, T, base, iterate)
  BY <1>1, IteratesExist
<1>3. f \in [0 .. n -> T] /\ f[0] = base /\ \A k \in 1 .. n : f[k] = iterate[<<k, f[k - 1]>>]
  BY <1>2, Zenon DEF Iterates
<1>4. ASSUME NEW k \in 1 .. n  PROVE f[k] = step[f[k - 1]]
  <2>1. k - 1 \in 0 .. n
    OBVIOUS
  <2>2. f[k - 1] \in T
    BY <1>3, <2>1
  <2>3. <<k, f[k - 1]>> \in (1 .. n) \X T
    BY <2>2
  <2>4. iterate[<<k, f[k - 1]>>] = step[f[k - 1]]
    BY <2>3 DEF iterate
  <2> QED  BY <1>3, <2>4
<1> QED  BY <1>3, <1>4 DEF Chain, T

(* A chain that only grows has, after as many steps as there are elements,   *)
(* nothing left to add.                                                      *)
LEMMA ChainStops ==
    ASSUME NEW n \in Nat, NEW S, IsFiniteSet(S), Cardinality(S) <= n,
           NEW base \in SUBSET S, NEW step \in [SUBSET S -> SUBSET S],
           \A ids \in SUBSET S : ids \subseteq step[ids],
           NEW f, Chain(f, n, S, base, step)
    PROVE  step[f[n]] = f[n] /\ f[n] \in SUBSET S
<1>1. /\ f \in [0 .. n -> SUBSET S] /\ f[0] = base
      /\ \A k \in 1 .. n : f[k] = step[f[k - 1]]
  BY DEF Chain
<1>2. \A ids \in SUBSET S : IsFiniteSet(ids) /\ Cardinality(ids) \in Nat
  BY FS_Subset, FS_CardinalityType
<1> DEFINE A == {k \in 0 .. n : step[f[k]] = f[k] \/ k <= Cardinality(f[k])}
<1>3. 0 \in A
  <2>1. f[0] \in SUBSET S
    BY <1>1
  <2>2. 0 <= Cardinality(f[0])
    BY <1>2, <2>1
  <2> QED  BY <2>2
<1>4. ASSUME NEW k \in 1 .. n, k - 1 \in A  PROVE k \in A
  <2>1. k - 1 \in 0 .. n /\ k \in 0 .. n
    OBVIOUS
  <2>2. f[k - 1] \in SUBSET S /\ f[k] \in SUBSET S /\ f[k] = step[f[k - 1]]
    BY <1>1, <2>1
  <2>3. CASE f[k] = f[k - 1]
    BY <2>1, <2>2, <2>3
  <2>4. CASE f[k] # f[k - 1]
    <3>1. f[k - 1] \subseteq f[k] /\ f[k - 1] # f[k]
      BY <2>2, <2>4
    <3>2. Cardinality(f[k - 1]) < Cardinality(f[k])
      BY <1>2, <2>2, <3>1, FS_Subset
    <3>3. k - 1 <= Cardinality(f[k - 1])
      BY <1>4, <2>2, <2>4
    <3>4. k <= Cardinality(f[k])
      BY <1>2, <2>2, <3>2, <3>3
    <3> QED  BY <2>1, <3>4
  <2> QED  BY <2>3, <2>4
<1>5. 0 .. n \subseteq A
  <2> HIDE DEF A
  <2> QED  BY <1>3, <1>4, UpTo
<1>6. n \in 0 .. n
  OBVIOUS
<1>7. f[n] \in SUBSET S /\ step[f[n]] \in SUBSET S
  BY <1>1, <1>6
<1>8. step[f[n]] = f[n] \/ n <= Cardinality(f[n])
  BY <1>5, <1>6
<1>9. CASE n <= Cardinality(f[n])
  <2>1. f[n] = S
    BY <1>2, <1>7, <1>9, FS_Subset, FS_CardinalityType
  <2>2. f[n] \subseteq step[f[n]]
    BY <1>7
  <2> QED  BY <1>7, <2>1, <2>2
<1> QED  BY <1>7, <1>8, <1>9

(* A step does not leave the set. *)
Keeps(Q, S, step) == \A ids \in SUBSET S : ids \subseteq Q => step[ids] \subseteq Q

(* What a chain adds stays within every set that a step does not leave.      *)
LEMMA ChainWithin ==
    ASSUME NEW n \in Nat, NEW S, NEW base, NEW step, NEW f, Chain(f, n, S, base, step),
           NEW Q, base \subseteq Q, Keeps(Q, S, step)
    PROVE  \A k \in 0 .. n : f[k] \subseteq Q
<1>1. /\ f \in [0 .. n -> SUBSET S] /\ f[0] = base
      /\ \A k \in 1 .. n : f[k] = step[f[k - 1]]
  BY DEF Chain
<1> DEFINE A == {k \in 0 .. n : f[k] \subseteq Q}
<1>2. 0 \in A
  BY <1>1
<1>3. ASSUME NEW k \in 1 .. n, k - 1 \in A  PROVE k \in A
  <2>1. k - 1 \in 0 .. n /\ k \in 0 .. n
    OBVIOUS
  <2>2. f[k - 1] \in SUBSET S
    BY <1>1, <2>1
  <2> QED  BY <1>1, <1>3, <2>1, <2>2 DEF Keeps
<1>4. 0 .. n \subseteq A
  <2> HIDE DEF A
  <2> QED  BY <1>2, <1>3, UpTo
<1> QED  BY <1>4

(* A chain that only grows keeps its first set. *)
LEMMA ChainGrows ==
    ASSUME NEW n \in Nat, NEW S, NEW base, NEW step, NEW f, Chain(f, n, S, base, step),
           \A ids \in SUBSET S : ids \subseteq step[ids]
    PROVE  base \subseteq f[n]
<1>1. /\ f \in [0 .. n -> SUBSET S] /\ f[0] = base
      /\ \A k \in 1 .. n : f[k] = step[f[k - 1]]
  BY DEF Chain
<1> DEFINE A == {k \in 0 .. n : base \subseteq f[k]}
<1>2. 0 \in A
  BY <1>1
<1>3. ASSUME NEW k \in 1 .. n, k - 1 \in A  PROVE k \in A
  <2>1. k - 1 \in 0 .. n /\ k \in 0 .. n
    OBVIOUS
  <2>2. f[k - 1] \in SUBSET S
    BY <1>1, <2>1
  <2> QED  BY <1>1, <1>3, <2>1, <2>2
<1>4. 0 .. n \subseteq A
  <2> HIDE DEF A
  <2> QED  BY <1>2, <1>3, UpTo
<1> QED  BY <1>4

-----------------------------------------------------------------------------
(* The block forest of a proposal. *)

(* The vertices one step further from the roots, and a set with the parents  *)
(* of its members.                                                           *)
NextLayer(parent) == [ids \in SUBSET Txs |-> {id \in DOMAIN parent : parent[id] \in ids}]
WithParents(S, parent) == [ids \in SUBSET S |-> ids \cup {parent[id] : id \in ids \cap DOMAIN parent}]

(* The record of a vertex. *)
DepthIn(queue, depth, id) ==
    IF id \notin Ids(queue) THEN 0 ELSE CHOOSE k \in DOMAIN depth : id \in depth[k]
RecordIn(queue, parent, depth, id) ==
    [vertex |-> id, depth |-> DepthIn(queue, depth, id), hasParent |-> id \in DOMAIN parent,
     parent |-> IF id \in DOMAIN parent THEN parent[id] ELSE NoParent]

(* A recursion that adds parents, as the chain of its sets. *)
LEMMA ParentChain ==
    ASSUME NEW n \in Nat, NEW S, NEW base \in SUBSET S, NEW parent,
           \A id \in S \cap DOMAIN parent : parent[id] \in S,
           NEW used, used = CHOOSE f : f = [k \in 0 .. n |->
                IF k = 0 THEN base
                ELSE f[k-1] \cup {parent[id] : id \in f[k-1] \cap DOMAIN parent}]
    PROVE  Chain(used, n, S, base, WithParents(S, parent))
<1> DEFINE step == WithParents(S, parent)
           eqn(f) == f = [k \in 0 .. n |->
                IF k = 0 THEN base
                ELSE f[k-1] \cup {parent[id] : id \in f[k-1] \cap DOMAIN parent}]
<1>1. step \in [SUBSET S -> SUBSET S]
  <2>1. \A ids \in SUBSET S : ids \cup {parent[id] : id \in ids \cap DOMAIN parent} \in SUBSET S
    OBVIOUS
  <2> QED  BY <2>1 DEF WithParents
<1>2. \A ids \in SUBSET S : step[ids] = ids \cup {parent[id] : id \in ids \cap DOMAIN parent}
  BY DEF WithParents
<1> HIDE DEF step
<1>3. PICK f : Chain(f, n, S, base, step)
  BY <1>1, ChainExists
<1>4. /\ f \in [0 .. n -> SUBSET S] /\ f[0] = base
      /\ \A k \in 1 .. n : f[k] = step[f[k - 1]]
  BY <1>3 DEF Chain
<1>5. eqn(f)
  <2>1. \A k \in 1 .. n : f[k] = f[k-1] \cup {parent[id] : id \in f[k-1] \cap DOMAIN parent}
    <3> TAKE k \in 1 .. n
    <3>1. k - 1 \in 0 .. n
      OBVIOUS
    <3>2. f[k - 1] \in SUBSET S
      BY <1>4, <3>1
    <3> QED  BY <1>2, <1>4, <3>2
  <2> DEFINE body(k) == f[k-1] \cup {parent[id] : id \in f[k-1] \cap DOMAIN parent}
  <2>2. \A k \in 1 .. n : f[k] = body(k)
    BY <2>1
  <2> HIDE DEF body
  <2>3. f = [k \in 0 .. n |-> IF k = 0 THEN base ELSE body(k)]
    BY <1>4, <2>2
  <2> QED  BY <2>3 DEF body
<1>6. eqn(used)
  <2>1. used = CHOOSE g : eqn(g)
    OBVIOUS
  <2> HIDE DEF eqn
  <2> QED  BY <1>5, <2>1, Zenon
<1> DEFINE body(k) == used[k-1] \cup {parent[id] : id \in used[k-1] \cap DOMAIN parent}
<1>7. /\ used = [k \in 0 .. n |-> IF k = 0 THEN base ELSE body(k)]
      /\ used[0] = base /\ \A k \in 1 .. n : used[k] = body(k)
  <2>1. used = [k \in 0 .. n |-> IF k = 0 THEN base ELSE body(k)]
    BY <1>6
  <2> HIDE DEF body
  <2>2. \A k \in 1 .. n : k \in 0 .. n /\ k # 0
    OBVIOUS
  <2>3. 0 \in 0 .. n
    OBVIOUS
  <2>4. used[0] = base
    BY <2>1, <2>3
  <2>5. \A k \in 1 .. n : used[k] = body(k)
    BY <2>1, <2>2
  <2> QED  BY <2>1, <2>4, <2>5
<1>8. \A k \in 0 .. n : used[k] = f[k]
  <2> DEFINE A == {k \in 0 .. n : used[k] = f[k]}
  <2>1. 0 \in A
    <3> HIDE DEF body
    <3> QED  BY <1>4, <1>7
  <2>2. ASSUME NEW k \in 1 .. n, k - 1 \in A  PROVE k \in A
    <3>1. used[k - 1] = f[k - 1] /\ k - 1 \in 0 .. n
      BY <2>2
    <3>2. f[k - 1] \in SUBSET S
      BY <1>4, <3>1
    <3>3. body(k) = f[k]
      BY <1>2, <1>4, <3>1, <3>2
    <3> HIDE DEF body
    <3> QED  BY <1>7, <3>3
  <2>3. 0 .. n \subseteq A
    <3> HIDE DEF A
    <3> QED  BY <2>1, <2>2, UpTo
  <2> QED  BY <2>3
<1>9. used = f
  <2> HIDE DEF body
  <2>1. DOMAIN used = 0 .. n /\ used = [k \in 0 .. n |-> used[k]]
    BY <1>7
  <2> QED  BY <1>4, <1>8, <2>1
<1> QED  BY <1>3, <1>9 DEF step

(* The recursion that computes the depths, likewise. *)
LEMMA LayerChain ==
    ASSUME NEW n \in Nat, NEW base \in SUBSET Txs, NEW parent, DOMAIN parent \subseteq Txs,
           NEW depth, depth = CHOOSE f : f = [k \in 0 .. n |->
                IF k = 0 THEN base ELSE {id \in DOMAIN parent : parent[id] \in f[k-1]}]
    PROVE  Chain(depth, n, Txs, base, NextLayer(parent))
<1> DEFINE step == NextLayer(parent)
           eqn(f) == f = [k \in 0 .. n |->
                IF k = 0 THEN base ELSE {id \in DOMAIN parent : parent[id] \in f[k-1]}]
<1>1. step \in [SUBSET Txs -> SUBSET Txs]
  BY DEF NextLayer
<1>2. \A ids \in SUBSET Txs : step[ids] = {id \in DOMAIN parent : parent[id] \in ids}
  BY DEF NextLayer
<1> HIDE DEF step
<1>3. PICK f : Chain(f, n, Txs, base, step)
  BY <1>1, ChainExists
<1>4. /\ f \in [0 .. n -> SUBSET Txs] /\ f[0] = base
      /\ \A k \in 1 .. n : f[k] = step[f[k - 1]]
  BY <1>3 DEF Chain
<1>5. eqn(f)
  <2> DEFINE body(k) == {id \in DOMAIN parent : parent[id] \in f[k-1]}
  <2>1. \A k \in 1 .. n : f[k] = body(k)
    <3> TAKE k \in 1 .. n
    <3>1. k - 1 \in 0 .. n
      OBVIOUS
    <3>2. f[k - 1] \in SUBSET Txs
      BY <1>4, <3>1
    <3> QED  BY <1>2, <1>4, <3>2
  <2> HIDE DEF body
  <2>2. f = [k \in 0 .. n |-> IF k = 0 THEN base ELSE body(k)]
    BY <1>4, <2>1
  <2> QED  BY <2>2 DEF body
<1>6. eqn(depth)
  <2>1. depth = CHOOSE g : eqn(g)
    OBVIOUS
  <2> HIDE DEF eqn
  <2> QED  BY <1>5, <2>1, Zenon
<1> DEFINE body(k) == {id \in DOMAIN parent : parent[id] \in depth[k-1]}
<1>7. /\ depth = [k \in 0 .. n |-> IF k = 0 THEN base ELSE body(k)]
      /\ depth[0] = base /\ \A k \in 1 .. n : depth[k] = body(k)
  <2>1. depth = [k \in 0 .. n |-> IF k = 0 THEN base ELSE body(k)]
    BY <1>6
  <2> HIDE DEF body
  <2>2. \A k \in 1 .. n : k \in 0 .. n /\ k # 0
    OBVIOUS
  <2>3. 0 \in 0 .. n
    OBVIOUS
  <2>4. depth[0] = base
    BY <2>1, <2>3
  <2>5. \A k \in 1 .. n : depth[k] = body(k)
    BY <2>1, <2>2
  <2> QED  BY <2>1, <2>4, <2>5
<1>8. \A k \in 0 .. n : depth[k] = f[k]
  <2> DEFINE A == {k \in 0 .. n : depth[k] = f[k]}
  <2>1. 0 \in A
    <3> HIDE DEF body
    <3> QED  BY <1>4, <1>7
  <2>2. ASSUME NEW k \in 1 .. n, k - 1 \in A  PROVE k \in A
    <3>1. depth[k - 1] = f[k - 1] /\ k - 1 \in 0 .. n
      BY <2>2
    <3>2. f[k - 1] \in SUBSET Txs
      BY <1>4, <3>1
    <3>3. body(k) = f[k]
      BY <1>2, <1>4, <3>1, <3>2
    <3> HIDE DEF body
    <3> QED  BY <1>7, <3>3
  <2>3. 0 .. n \subseteq A
    <3> HIDE DEF A
    <3> QED  BY <2>1, <2>2, UpTo
  <2> QED  BY <2>3
<1>9. depth = f
  <2> HIDE DEF body
  <2>1. DOMAIN depth = 0 .. n /\ depth = [k \in 0 .. n |-> depth[k]]
    BY <1>7
  <2> QED  BY <1>4, <1>8, <2>1
<1> QED  BY <1>3, <1>9 DEF step

(* How the records of a block forest come about. *)
Shaded(graph, state) == {id \in graph.nodes : state.states[id] = "shaded"}
Excluded(graph, state, selected) == {id \in graph.nodes : state.states[id] = "solid"} \ selected
Grown(graph, state, selected, queue, parent, depth, used) ==
    /\ queue = Bfs(Shaded(graph, state), graph.edges)
    /\ parent = [id \in Ids(queue) \ Shaded(graph, state) |-> BfsParent(queue, graph.edges, id)]
    /\ Chain(depth, Cardinality(Txs), Txs, Shaded(graph, state), NextLayer(parent))
    /\ Chain(used, Cardinality(Txs), Txs, Excluded(graph, state, selected), WithParents(Txs, parent))
    /\ BlockForest(graph, state, selected) =
            {RecordIn(queue, parent, depth, id) : id \in used[Cardinality(Txs)]}

(* BlockForest is a search, its layers and the closure under parents. *)
LEMMA ForestSteps ==
    ASSUME NEW graph, IsGraph(graph), NEW state, NEW selected
    PROVE  \E queue, parent, depth, used :
                Grown(graph, state, selected, queue, parent, depth, used)
<1> DEFINE n == Cardinality(Txs)
           roots == Shaded(graph, state)
           excluded == Excluded(graph, state, selected)
           queue == Bfs(roots, graph.edges)
           parent == [id \in Ids(queue) \ roots |-> BfsParent(queue, graph.edges, id)]
           depth == CHOOSE f : f = [k \in 0 .. n |->
                IF k = 0 THEN roots ELSE {id \in DOMAIN parent : parent[id] \in f[k-1]}]
           used == CHOOSE f : f = [k \in 0 .. n |->
                IF k = 0 THEN excluded
                ELSE f[k-1] \cup {parent[id] : id \in f[k-1] \cap DOMAIN parent}]
<1>1. /\ n \in Nat /\ roots \in SUBSET Txs /\ excluded \in SUBSET Txs
      /\ graph.edges \in SUBSET (Txs \X Txs)
  BY TxAssumption, FS_CardinalityType DEF IsGraph, Shaded, Excluded
<1>2. queue \in Logs
  BY <1>1, SearchFindsReachable DEF Leads
<1>3. Ids(queue) \subseteq Txs
  BY <1>2, LogLength DEF Ids
<1>4. DOMAIN parent = Ids(queue) \ roots
  OBVIOUS
<1>5. \A id \in Txs \cap DOMAIN parent : parent[id] \in Txs
  <2> TAKE id \in Txs \cap DOMAIN parent
  <2>1. id \in Ids(queue) \ roots /\ parent[id] = BfsParent(queue, graph.edges, id)
    OBVIOUS
  <2> HIDE DEF parent
  <2>2. parent[id] \in Ids(queue)
    <3> HIDE DEF roots
    <3> QED  BY <1>1, <2>1, SearchParents
  <2> QED  BY <1>3, <2>2
<1>6. BlockForest(graph, state, selected) =
        {RecordIn(queue, parent, depth, id) : id \in used[n]}
  BY DEF BlockForest, RecordIn, DepthIn, Shaded, Excluded
<1> HIDE DEF parent, queue, n, roots, excluded
<1>7. Chain(depth, n, Txs, roots, NextLayer(parent))
  <2>1. DOMAIN parent \subseteq Txs
    BY <1>3, <1>4
  <2>2. \A d : d = depth => Chain(d, n, Txs, roots, NextLayer(parent))
    BY <1>1, <2>1, LayerChain
  <2> QED  BY <2>2, Zenon
<1>8. Chain(used, n, Txs, excluded, WithParents(Txs, parent))
  <2>1. \A d : d = used => Chain(d, n, Txs, excluded, WithParents(Txs, parent))
    BY <1>1, <1>5, ParentChain
  <2> QED  BY <2>1, Zenon
<1> HIDE DEF depth, used
<1>9. Grown(graph, state, selected, queue, parent, depth, used)
  <2>1. queue = Bfs(Shaded(graph, state), graph.edges)
    BY DEF queue, roots
  <2>2. parent = [id \in Ids(queue) \ Shaded(graph, state) |-> BfsParent(queue, graph.edges, id)]
    BY DEF parent, roots
  <2> QED  BY <1>6, <1>7, <1>8, <2>1, <2>2, Zenon DEF Grown, n, roots, excluded
<1> QED  BY <1>9, Zenon

(* What the search from the shaded transactions finds: nothing of the        *)
(* output, and every solid transaction left out of it.                       *)
LEMMA ForestFinds ==
    ASSUME NEW graph, NEW state, Prepared(graph, state),
           NEW output, output = UNION Selected(graph, state),
           NEW found, found = Ids(Bfs(Shaded(graph, state), graph.edges))
    PROVE  /\ Shaded(graph, state) \subseteq found /\ found \subseteq graph.nodes \ output
           /\ Excluded(graph, state, output) \subseteq found
<1> DEFINE roots == Shaded(graph, state)
           reach == Reachability(graph.edges)
<1>1. /\ IsGraph(graph) /\ graph.nodes = NodesOf(state)
      /\ graph.nodes \in SUBSET Txs /\ graph.edges \in SUBSET (Txs \X Txs)
      /\ \A e \in graph.edges : e = <<e[1], e[2]>> /\ e[1] \in graph.nodes /\ e[2] \in graph.nodes
  <2>1. IsGraph(graph) /\ graph.nodes = NodesOf(state)
    BY ExactGraph DEF Prepared
  <2> QED  BY <2>1 DEF IsGraph
<1>2. graph.edges \subseteq reach
  BY <1>1, ReachabilityLeast
<1>3. \A id \in output : state.states[id] = "solid"
  BY <1>1, SelectedClosed
<1>4. \A u \in graph.nodes, v \in output : <<u, v>> \in reach => u \in output
  BY <1>1, SelectedBackward
<1>5. roots \in SUBSET Txs /\ roots \subseteq graph.nodes \ output
  BY <1>1, <1>3 DEF Shaded
<1>6. \A e \in graph.edges : e[1] \in graph.nodes \ output => e[2] \in graph.nodes \ output
  BY <1>1, <1>2, <1>4
<1> HIDE DEF roots, reach
<1>7. /\ Searched(roots, graph.edges, Bfs(roots, graph.edges), Cardinality(Txs))
      /\ \A e \in graph.edges : e[1] \in found => e[2] \in found
  <2>1. Leads(graph.edges)
    BY <1>1 DEF Leads
  <2> QED  BY <1>5, <2>1, SearchFindsReachable DEF roots
<1>8. roots \subseteq found /\ found \subseteq graph.nodes \ output
  <2>1. roots \subseteq found
    BY <1>7 DEF Searched, roots
  <2>2. Ids(Bfs(roots, graph.edges)) \subseteq graph.nodes \ output
    <3> DEFINE Q == graph.nodes \ output
    <3>1. roots \subseteq Q /\ \A e \in graph.edges : e[1] \in Q => e[2] \in Q
      BY <1>5, <1>6
    <3> HIDE DEF Q
    <3>2. Ids(Bfs(roots, graph.edges)) \subseteq Q
      BY <1>7, <3>1, Zenon DEF Searched
    <3> QED  BY <3>2 DEF Q
  <2> QED  BY <2>1, <2>2 DEF roots
<1>9. ASSUME NEW v \in Excluded(graph, state, output)  PROVE v \in found
  <2> DEFINE rest == {e \in graph.edges : e[1] \notin output /\ e[2] \notin output}
             Q == {e \in Txs \X Txs : e[1] \in found => e[2] \in found}
  <2>1. LeavesOut(graph, state, output, rest)
    <3>1. state.batchCounter \in Nat
      BY DEF Prepared, States
    <3>2. Output(BuildProposal(graph, state).finalOrder) = output
      BY <1>1, <3>1, ProposalOutput
    <3> QED  BY <1>1, <3>1, <3>2 DEF LeavesOut
  <2>2. v \in graph.nodes \ output
    BY DEF Excluded
  <2>3. rest \in SUBSET (Txs \X Txs) /\ rest \subseteq Q
    BY <1>1, <1>7
  <2> HIDE DEF rest
  <2>4. PICK u \in graph.nodes \ output :
            state.states[u] # "solid" /\ <<u, v>> \in Reachability(rest)
    BY <2>1, <2>2, LeftOutFollows
  <2>5. u \in roots
    <3>1. state.states = StatesOf(state) /\ state.states \in [Txs -> {"blank", "shaded", "solid"}]
      BY DEF Prepared, ExactCaches, States
    <3>2. state.states[u] # "blank" /\ u \in Txs
      BY <1>1, <3>1 DEF NodesOf
    <3> QED  BY <2>4, <3>1, <3>2 DEF roots, Shaded
  <2>6. (\A id \in Txs : <<id, id>> \in Q) /\ Transitive(Q)
    BY DEF Transitive
  <2>7. \A a, b : <<a, b>> \in Q => (a \in found => b \in found)
    OBVIOUS
  <2> HIDE DEF Q
  <2>8. Reachability(rest) \subseteq Q
    BY <2>3, <2>6, ReachabilityLeast
  <2> QED  BY <1>8, <2>4, <2>5, <2>7, <2>8
<1> QED  BY <1>8, <1>9 DEF roots

(* The layers of a search and the depths they stand for: every vertex found  *)
(* is in exactly one layer, the roots in the first, the others in the one    *)
(* after their parent's.                                                     *)
Layers(roots, edges, queue, parent, depth) ==
    /\ roots \in SUBSET Txs /\ edges \in SUBSET (Txs \X Txs) /\ queue = Bfs(roots, edges)
    /\ parent = [id \in Ids(queue) \ roots |-> BfsParent(queue, edges, id)]
    /\ Chain(depth, Cardinality(Txs), Txs, roots, NextLayer(parent))
Depths(roots, queue, parent, depth) ==
    /\ \A id \in roots : DepthIn(queue, depth, id) = 0
    /\ \A id \in Ids(queue) \ roots :
            DepthIn(queue, depth, id) = DepthIn(queue, depth, parent[id]) + 1

(* Who is found after its parent is one layer below it. *)
LEMMA LayersExact ==
    ASSUME NEW roots, NEW edges, NEW queue, NEW parent, NEW depth,
           Layers(roots, edges, queue, parent, depth)
    PROVE  Depths(roots, queue, parent, depth)
<1>0. /\ roots \in SUBSET Txs /\ edges \in SUBSET (Txs \X Txs) /\ queue = Bfs(roots, edges)
      /\ parent = [id \in Ids(queue) \ roots |-> BfsParent(queue, edges, id)]
      /\ Chain(depth, Cardinality(Txs), Txs, roots, NextLayer(parent))
  BY DEF Layers
<1> DEFINE n == Cardinality(Txs)
           found == Ids(queue)
<1>1. n \in Nat
  BY TxAssumption, FS_CardinalityType
<1>2. queue \in Logs /\ roots \subseteq found
  <2>1. Leads(edges)
    BY <1>0 DEF Leads
  <2>2. queue \in Logs /\ Searched(roots, edges, queue, Cardinality(Txs))
    BY <1>0, <2>1, SearchFindsReachable
  <2> QED  BY <2>2 DEF Searched
<1>3. \A id : PosIn(queue, id) \in Nat /\ PosIn(queue, id) <= n
  <2>1. \A id : PosIn(queue, id) \in Nat /\ PosIn(queue, id) <= Len(queue)
    BY <1>2, PosInLog DEF Logs
  <2> QED  BY <1>1, <1>2, <2>1, LogLength
<1>4. \A id \in found \ roots :
        parent[id] \in found /\ PosIn(queue, parent[id]) < PosIn(queue, id)
  <2> TAKE id \in found \ roots
  <2>1. parent[id] = BfsParent(queue, edges, id)
    BY <1>0
  <2> QED  BY <1>0, <2>1, SearchParents
<1>5. DOMAIN parent = found \ roots
  BY <1>0
<1>6. found \subseteq Txs
  BY <1>2, LogLength DEF Ids
<1> HIDE DEF n, found
<1>7. /\ DOMAIN depth = 0 .. n /\ \A k \in 0 .. n : depth[k] \in SUBSET Txs
      /\ depth[0] = roots /\ \A k \in 1 .. n : depth[k] = NextLayer(parent)[depth[k - 1]]
  BY <1>0 DEF Chain, n
<1>8. \A k \in 1 .. n : depth[k] = {id \in found \ roots : parent[id] \in depth[k - 1]}
  <2> TAKE k \in 1 .. n
  <2>1. k - 1 \in 0 .. n
    BY <1>1
  <2>2. depth[k - 1] \in SUBSET Txs
    BY <1>7, <2>1
  <2> QED  BY <1>5, <1>7, <2>2 DEF NextLayer
<1>9. ASSUME NEW id \in found  PROVE \E k \in 0 .. n : k < PosIn(queue, id) /\ id \in depth[k]
  <2> DEFINE lost == {x \in found : ~\E k \in 0 .. n : k < PosIn(queue, x) /\ x \in depth[k]}
             places == {PosIn(queue, x) : x \in lost}
  <2> SUFFICES ASSUME lost # {}  PROVE FALSE
    OBVIOUS
  <2>1. places \in SUBSET Nat /\ places # {}
    BY <1>3
  <2>2. PICK m \in places : \A k \in places : m <= k
    <3> HIDE DEF places
    <3> QED  BY <2>1, LeastNumber
  <2>3. PICK x \in lost : m = PosIn(queue, x)
    OBVIOUS
  <2>4. x \in found /\ ~\E k \in 0 .. n : k < PosIn(queue, x) /\ x \in depth[k]
    OBVIOUS
  <2>5. PosIn(queue, x) > 0
    <3>1. PosIn(queue, x) \in 1 .. Len(queue)
      BY <1>2, <2>4, PosInLog DEF Logs, found
    <3> QED  BY <3>1
  <2>6. x \notin roots
    BY <1>1, <1>7, <2>4, <2>5
  <2>7. parent[x] \in found /\ PosIn(queue, parent[x]) < PosIn(queue, x)
    BY <1>4, <2>4, <2>6
  <2>8. parent[x] \notin lost
    <3> SUFFICES ASSUME parent[x] \in lost  PROVE FALSE
      OBVIOUS
    <3>1. PosIn(queue, parent[x]) \in places
      OBVIOUS
    <3>2. m <= PosIn(queue, parent[x])
      BY <2>2, <3>1
    <3> QED  BY <1>3, <2>3, <2>7, <3>2
  <2>9. PICK k \in 0 .. n : k < PosIn(queue, parent[x]) /\ parent[x] \in depth[k]
    BY <2>7, <2>8
  <2>10. k + 1 \in 1 .. n /\ k + 1 < PosIn(queue, x) /\ (k + 1) - 1 = k
    BY <1>1, <1>3, <2>7, <2>9
  <2>11. x \in depth[k + 1]
    <3> HIDE DEF lost
    <3>1. depth[k + 1] = {y \in found \ roots : parent[y] \in depth[(k + 1) - 1]}
      BY <1>8, <2>10
    <3>2. parent[x] \in depth[(k + 1) - 1] /\ x \in found \ roots
      BY <2>4, <2>6, <2>9, <2>10
    <3> QED  BY <3>1, <3>2
  <2> HIDE DEF lost
  <2> QED  BY <1>1, <2>4, <2>10, <2>11
<1>10. \A k \in 0 .. n : \A l \in 0 .. n : \A id : id \in depth[k] /\ id \in depth[l] => k = l
  <2> DEFINE A == {k \in 0 .. n : \A l \in 0 .. n : \A id :
                        id \in depth[k] /\ id \in depth[l] => k = l}
  <2>1. 0 \in A
    <3> SUFFICES ASSUME NEW l \in 0 .. n, NEW id, id \in depth[0], id \in depth[l], l # 0
                 PROVE  FALSE
      BY <1>1
    <3>1. l \in 1 .. n
      BY <1>1
    <3> QED  BY <1>7, <1>8, <3>1
  <2>2. ASSUME NEW k \in 1 .. n, k - 1 \in A  PROVE k \in A
    <3> SUFFICES ASSUME NEW l \in 0 .. n, NEW id, id \in depth[k], id \in depth[l]  PROVE k = l
      BY <1>1
    <3>1. id \in found \ roots /\ parent[id] \in depth[k - 1]
      BY <1>8
    <3>2. l \in 1 .. n /\ l - 1 \in 0 .. n
      BY <1>1, <1>7, <3>1
    <3>3. parent[id] \in depth[l - 1]
      BY <1>8, <3>2
    <3>4. k - 1 = l - 1
      BY <2>2, <3>1, <3>2, <3>3
    <3> QED  BY <1>1, <3>2, <3>4
  <2>3. 0 .. n \subseteq A
    <3> HIDE DEF A
    <3> QED  BY <1>1, <2>1, <2>2, UpTo
  <2> QED  BY <2>3
<1>11. \A id \in found, k \in 0 .. n : id \in depth[k] => DepthIn(queue, depth, id) = k
  <2> TAKE id \in found, k \in 0 .. n
  <2>1. ASSUME id \in depth[k]  PROVE DepthIn(queue, depth, id) = k
    <3>1. DepthIn(queue, depth, id) = CHOOSE l \in 0 .. n : id \in depth[l]
      BY <1>7 DEF DepthIn, found
    <3> QED  BY <1>10, <2>1, <3>1
  <2> QED  BY <2>1
<1>12. \A id \in roots : DepthIn(queue, depth, id) = 0
  <2>1. 0 \in 0 .. n
    BY <1>1
  <2> QED  BY <1>2, <1>7, <1>11, <2>1 DEF found
<1>13. ASSUME NEW id \in found \ roots
       PROVE  DepthIn(queue, depth, id) = DepthIn(queue, depth, parent[id]) + 1
  <2>1. PICK k \in 0 .. n : id \in depth[k]
    BY <1>9
  <2>2. k \in 1 .. n /\ k - 1 \in 0 .. n
    BY <1>1, <1>7, <2>1
  <2>3. parent[id] \in depth[k - 1] /\ parent[id] \in found
    BY <1>4, <1>8, <2>1, <2>2
  <2>4. DepthIn(queue, depth, id) = k /\ DepthIn(queue, depth, parent[id]) = k - 1
    BY <1>11, <2>1, <2>2, <2>3
  <2> QED  BY <1>1, <2>4
<1> QED  BY <1>12, <1>13 DEF found, Depths

(* What the records of a proposal's forest come from: the vertices are those *)
(* whose blocking has to be explained, all found by the search, closed under *)
(* parents, and nothing more.                                                *)
ForestShape(graph, state, output, queue, parent, depth, marked) ==
    LET found == Ids(queue)
        roots == Shaded(graph, state)
    IN  /\ marked \in SUBSET (graph.nodes \ output) /\ marked \subseteq found
        /\ Excluded(graph, state, output) \subseteq marked
        /\ DOMAIN parent = found \ roots
        /\ \A id \in marked \ roots :
            /\ parent[id] \in marked /\ <<parent[id], id>> \in graph.edges
            /\ DepthIn(queue, depth, id) = DepthIn(queue, depth, parent[id]) + 1
        /\ \A id \in roots : DepthIn(queue, depth, id) = 0
        /\ \A Q : Excluded(graph, state, output) \subseteq Q
                    /\ (\A id \in marked \ roots : id \in Q => parent[id] \in Q)
                    => marked \subseteq Q

(* The forest of a proposal has that shape. *)
LEMMA ForestShaped ==
    ASSUME NEW graph, NEW state, Prepared(graph, state),
           NEW output, output = UNION Selected(graph, state),
           NEW queue, NEW parent, NEW depth, NEW used,
           Grown(graph, state, output, queue, parent, depth, used)
    PROVE  ForestShape(graph, state, output, queue, parent, depth, used[Cardinality(Txs)])
<1> DEFINE n == Cardinality(Txs)
           roots == Shaded(graph, state)
           excluded == Excluded(graph, state, output)
           found == Ids(queue)
           marked == used[n]
           step == WithParents(Txs, parent)
<1>1. /\ queue = Bfs(roots, graph.edges)
      /\ parent = [id \in found \ roots |-> BfsParent(queue, graph.edges, id)]
      /\ Chain(depth, n, Txs, roots, NextLayer(parent))
      /\ Chain(used, n, Txs, excluded, step)
  BY DEF Grown
<1>2. n \in Nat /\ IsFiniteSet(Txs)
  BY TxAssumption, FS_CardinalityType
<1>3. IsGraph(graph) /\ graph.nodes \in SUBSET Txs /\ graph.edges \in SUBSET (Txs \X Txs)
  <2>1. IsGraph(graph)
    BY ExactGraph DEF Prepared
  <2> QED  BY <2>1 DEF IsGraph
<1>4. roots \in SUBSET Txs /\ excluded \in SUBSET Txs
  BY <1>3 DEF Shaded, Excluded
<1>5. /\ roots \subseteq found /\ found \subseteq graph.nodes \ output
      /\ excluded \subseteq found
  BY <1>1, ForestFinds
<1>6. \A id \in found \ roots : parent[id] \in found /\ <<parent[id], id>> \in graph.edges
  <2> TAKE id \in found \ roots
  <2>1. parent[id] = BfsParent(queue, graph.edges, id)
    BY <1>1
  <2> QED  BY <1>1, <1>3, <1>4, <2>1, SearchParents
<1>7. DOMAIN parent = found \ roots
  BY <1>1
<1>8. /\ \A id \in roots : DepthIn(queue, depth, id) = 0
      /\ \A id \in found \ roots :
            DepthIn(queue, depth, id) = DepthIn(queue, depth, parent[id]) + 1
  <2>1. Layers(roots, graph.edges, queue, parent, depth)
    BY <1>1, <1>3, <1>4 DEF Layers
  <2>2. Depths(roots, queue, parent, depth)
    BY <2>1, LayersExact
  <2> QED  BY <2>2 DEF Depths
<1> HIDE DEF n, roots, excluded, found
<1>9. \A ids \in SUBSET Txs : step[ids] = ids \cup {parent[id] : id \in ids \cap DOMAIN parent}
  BY DEF WithParents
<1>10. step \in [SUBSET Txs -> SUBSET Txs]
  <2>1. found \subseteq Txs
    BY <1>3, <1>5
  <2>2. \A ids \in SUBSET Txs : ids \cup {parent[id] : id \in ids \cap DOMAIN parent} \in SUBSET Txs
    BY <1>6, <1>7, <2>1
  <2> QED  BY <2>2 DEF WithParents
<1> HIDE DEF step
<1>11. step[marked] = marked /\ marked \in SUBSET Txs
  <2>1. Cardinality(Txs) <= n
    BY <1>2 DEF n
  <2>2. \A ids \in SUBSET Txs : ids \subseteq step[ids]
    BY <1>9
  <2> QED  BY <1>1, <1>2, <1>4, <1>10, <2>1, <2>2, ChainStops
<1>12. \A Q : excluded \subseteq Q
                /\ (\A id \in found \ roots : id \in Q => parent[id] \in Q) => marked \subseteq Q
  <2> SUFFICES ASSUME NEW Q, excluded \subseteq Q,
                      \A id \in found \ roots : id \in Q => parent[id] \in Q
               PROVE  marked \subseteq Q
    OBVIOUS
  <2>1. \A ids \in SUBSET Txs : ids \subseteq Q => step[ids] \subseteq Q
    BY <1>7, <1>9
  <2>2. \A k \in 0 .. n : used[k] \subseteq Q
    <3>1. Keeps(Q, Txs, step)
      BY <2>1 DEF Keeps
    <3> QED  BY <1>1, <1>2, <3>1, ChainWithin
  <2> QED  BY <1>2, <2>2
<1>13. excluded \subseteq marked
  <2>1. \A ids \in SUBSET Txs : ids \subseteq step[ids]
    BY <1>9
  <2> QED  BY <1>1, <1>2, <2>1, ChainGrows
<1> HIDE DEF marked
<1>14. marked \subseteq found
  BY <1>5, <1>6, <1>12
<1>15. \A id \in marked \ roots : parent[id] \in marked
  BY <1>7, <1>9, <1>11, <1>14
<1>16. \A id \in marked \ roots : id \in found \ roots
  BY <1>14
<1>17. \A Q : excluded \subseteq Q
                /\ (\A id \in marked \ roots : id \in Q => parent[id] \in Q) => marked \subseteq Q
  <2> SUFFICES ASSUME NEW Q, excluded \subseteq Q,
                      \A id \in marked \ roots : id \in Q => parent[id] \in Q
               PROVE  marked \subseteq Q
    OBVIOUS
  <2> DEFINE P == marked \cap Q
  <2>1. excluded \subseteq P
    BY <1>13
  <2>2. \A id \in found \ roots : id \in P => parent[id] \in P
    BY <1>15
  <2> HIDE DEF P
  <2>3. marked \subseteq P
    BY <1>12, <2>1, <2>2
  <2> QED  BY <2>3 DEF P
<1>18. marked \in SUBSET (graph.nodes \ output)
  BY <1>5, <1>14
<1> QED  BY <1>6, <1>7, <1>8, <1>13, <1>14, <1>15, <1>16, <1>17, <1>18
         DEF ForestShape, marked, n, roots, excluded, found

(* The records of such a forest pass the follower's check.                   *)
LEMMA ForestAccepted ==
    ASSUME NEW graph, NEW state, Prepared(graph, state), NEW output,
           NEW queue, NEW parent, NEW depth, NEW marked,
           ForestShape(graph, state, output, queue, parent, depth, marked),
           NEW records, records = {RecordIn(queue, parent, depth, id) : id \in marked}
    PROVE  VerifyBlockForest(state, output, records)
<1> DEFINE rec(id) == RecordIn(queue, parent, depth, id)
           recordOf(id) == CHOOSE record \in records : record.vertex = id
           vertices == {record.vertex : record \in records}
           excluded == {id \in Active(state) \ output : state.states[id] = "solid"}
           roots == Shaded(graph, state)
           m == Cardinality(records)
           eqn(f) == f = [k \in 0 .. m |->
                IF k = 0 THEN excluded
                ELSE f[k-1] \cup {recordOf(id).parent : id \in {v \in f[k-1] : recordOf(v).hasParent}}]
           used == CHOOSE f : eqn(f)
<1>1. /\ marked \in SUBSET (graph.nodes \ output) /\ marked \subseteq Ids(queue)
      /\ Excluded(graph, state, output) \subseteq marked
      /\ DOMAIN parent = Ids(queue) \ roots
      /\ \A id \in marked \ roots :
            /\ parent[id] \in marked /\ <<parent[id], id>> \in graph.edges
            /\ DepthIn(queue, depth, id) = DepthIn(queue, depth, parent[id]) + 1
      /\ \A id \in roots : DepthIn(queue, depth, id) = 0
      /\ \A Q : Excluded(graph, state, output) \subseteq Q
                    /\ (\A id \in marked \ roots : id \in Q => parent[id] \in Q)
                    => marked \subseteq Q
  BY Zenon DEF ForestShape
<1>2. /\ graph.nodes \in SUBSET Txs /\ graph.nodes = Active(state)
      /\ \A u, v \in Txs : LocalEdgePred(state, u, v) <=> <<u, v>> \in graph.edges
  <2>1. state \in States /\ ExactCaches(state) /\ Exact(graph, state)
    BY DEF Prepared
  <2>2. graph.nodes = NodesOf(state) /\ graph.edges = EdgesOf(state)
    BY <2>1, ExactGraph
  <2>3. /\ Active(state) = NodesOf(state) /\ NodesOf(state) \in SUBSET Txs
        /\ \A u, v \in Txs : LocalEdgePred(state, u, v) <=> <<u, v>> \in EdgesOf(state)
    BY <2>1, LocalGraph
  <2> QED  BY <2>2, <2>3
<1>3. excluded = Excluded(graph, state, output)
  BY <1>2 DEF Excluded
<1>4. \A id : /\ rec(id).vertex = id /\ rec(id).depth = DepthIn(queue, depth, id)
              /\ rec(id).hasParent <=> id \in DOMAIN parent
              /\ id \in DOMAIN parent => rec(id).parent = parent[id]
  BY DEF RecordIn
<1>5. records = {rec(id) : id \in marked}
  OBVIOUS
<1> HIDE DEF rec, excluded, roots
<1>6. vertices = marked
  BY <1>4, <1>5
<1>7. \A id \in marked : recordOf(id) = rec(id)
  BY <1>4, <1>5
<1>8. IsFiniteSet(marked) /\ Cardinality(records) = Cardinality(marked)
  <2>1. IsFiniteSet(marked)
    BY <1>1, <1>2, TxAssumption, FS_Subset
  <2> DEFINE f == [id \in marked |-> rec(id)]
  <2>2. /\ f \in [marked -> records] /\ \A a, b \in marked : f[a] = f[b] => a = b
        /\ \A r \in records : \E id \in marked : f[id] = r
    <3>1. \A id \in marked : f[id] = rec(id) /\ rec(id) \in records
      BY <1>5
    <3>2. \A a, b \in marked : f[a] = f[b] => a = b
      <4> SUFFICES ASSUME NEW a \in marked, NEW b \in marked, f[a] = f[b]  PROVE a = b
        OBVIOUS
      <4>1. rec(a) = rec(b)
        BY <3>1
      <4>2. rec(a).vertex = a /\ rec(b).vertex = b
        BY <1>4
      <4> QED  BY <4>1, <4>2
    <3>3. \A r \in records : \E id \in marked : r = rec(id)
      BY <1>5
    <3>4. DOMAIN f = marked /\ f = [id \in marked |-> f[id]]
      OBVIOUS
    <3> HIDE DEF f
    <3>5. f \in [marked -> records]
      BY <3>1, <3>4
    <3>6. \A r \in records : \E id \in marked : f[id] = r
      BY <3>1, <3>3
    <3> QED  BY <3>2, <3>5, <3>6
  <2>3. ExistsBijection(marked, records)
    <3> HIDE DEF f
    <3>1. f \in Bijection(marked, records)
      BY <2>2 DEF Bijection, Injection, Surjection, IsInjective
    <3> QED  BY <3>1 DEF ExistsBijection
  <2> QED  BY <2>1, <2>3, FS_Bijection
<1>9. m \in Nat
  BY <1>8, FS_CardinalityType
<1> HIDE DEF recordOf, vertices, m
<1>10. \A id \in marked : /\ recordOf(id).hasParent <=> id \in marked \ roots
                          /\ id \in marked \ roots => recordOf(id).parent = parent[id]
  BY <1>1, <1>4, <1>7
<1> DEFINE step == WithParents(marked, parent)
<1>11. /\ step \in [SUBSET marked -> SUBSET marked]
       /\ \A ids \in SUBSET marked : step[ids] = ids \cup {parent[id] : id \in ids \cap DOMAIN parent}
  <2>1. \A id \in marked \cap DOMAIN parent : parent[id] \in marked
    BY <1>1
  <2>2. \A ids \in SUBSET marked : ids \cup {parent[id] : id \in ids \cap DOMAIN parent} \in SUBSET marked
    BY <2>1
  <2> QED  BY <2>2 DEF WithParents
<1> HIDE DEF step
<1>12. \A ids \in SUBSET marked :
        step[ids] = ids \cup {recordOf(id).parent : id \in {v \in ids : recordOf(v).hasParent}}
  <2> TAKE ids \in SUBSET marked
  <2>1. \A v \in ids : recordOf(v).hasParent <=> v \in ids \cap DOMAIN parent
    BY <1>1, <1>10
  <2>2. \A v \in ids \cap DOMAIN parent : recordOf(v).parent = parent[v]
    BY <1>1, <1>10
  <2>3. {v \in ids : recordOf(v).hasParent} = ids \cap DOMAIN parent
    BY <2>1
  <2>4. {recordOf(id).parent : id \in ids \cap DOMAIN parent} = {parent[id] : id \in ids \cap DOMAIN parent}
    BY <2>2
  <2> QED  BY <1>11, <2>3, <2>4
<1>13. excluded \in SUBSET marked
  BY <1>1, <1>3
<1>14. PICK f : Chain(f, m, marked, excluded, step)
  BY <1>9, <1>11, <1>13, ChainExists
<1>15. /\ f \in [0 .. m -> SUBSET marked] /\ f[0] = excluded
       /\ \A k \in 1 .. m : f[k] = step[f[k - 1]]
  BY <1>14 DEF Chain
<1>16. eqn(f)
  <2> DEFINE body(k) == f[k-1] \cup {recordOf(id).parent : id \in {v \in f[k-1] : recordOf(v).hasParent}}
  <2>1. \A k \in 1 .. m : f[k] = body(k)
    <3> TAKE k \in 1 .. m
    <3>1. k - 1 \in 0 .. m
      BY <1>9
    <3>2. f[k - 1] \in SUBSET marked
      BY <1>15, <3>1
    <3> QED  BY <1>12, <1>15, <3>2
  <2> HIDE DEF body
  <2>2. f = [k \in 0 .. m |-> IF k = 0 THEN excluded ELSE body(k)]
    BY <1>9, <1>15, <2>1
  <2> QED  BY <2>2 DEF body
<1>17. eqn(used)
  <2> HIDE DEF eqn
  <2> QED  BY <1>16, Zenon
<1> HIDE DEF used
<1> DEFINE body(k) == used[k-1] \cup {recordOf(id).parent : id \in {v \in used[k-1] : recordOf(v).hasParent}}
<1>18. used[0] = excluded /\ \A k \in 1 .. m : used[k] = body(k)
  <2>1. used = [k \in 0 .. m |-> IF k = 0 THEN excluded ELSE body(k)]
    BY <1>17
  <2> HIDE DEF body
  <2>2. 0 \in 0 .. m /\ \A k \in 1 .. m : k \in 0 .. m /\ k # 0
    BY <1>9
  <2>3. used[0] = excluded
    BY <2>1, <2>2
  <2>4. \A k \in 1 .. m : used[k] = body(k)
    BY <2>1, <2>2
  <2> QED  BY <2>3, <2>4
<1>19. used[m] = f[m]
  <2> DEFINE A == {k \in 0 .. m : used[k] = f[k]}
  <2>1. 0 \in A
    BY <1>9, <1>15, <1>18
  <2>2. ASSUME NEW k \in 1 .. m, k - 1 \in A  PROVE k \in A
    <3>1. used[k - 1] = f[k - 1] /\ k - 1 \in 0 .. m /\ k \in 0 .. m
      BY <1>9, <2>2
    <3>2. f[k - 1] \in SUBSET marked
      BY <1>15, <3>1
    <3>3. body(k) = f[k]
      BY <1>12, <1>15, <3>1, <3>2
    <3> HIDE DEF body
    <3> QED  BY <1>18, <3>1, <3>3
  <2>3. 0 .. m \subseteq A
    <3> HIDE DEF A
    <3> QED  BY <1>9, <2>1, <2>2, UpTo
  <2> QED  BY <1>9, <2>3
<1>20. used[m] = marked
  <2>1. \A ids \in SUBSET marked : ids \subseteq step[ids]
    BY <1>11
  <2>2. Cardinality(marked) <= m
    BY <1>8, <1>9 DEF m
  <2>3. step[f[m]] = f[m] /\ f[m] \in SUBSET marked
    BY <1>8, <1>9, <1>11, <1>13, <1>14, <2>1, <2>2, ChainStops
  <2>4. excluded \subseteq f[m]
    BY <1>9, <1>14, <2>1, ChainGrows
  <2>5. \A id \in marked \ roots : id \in f[m] => parent[id] \in f[m]
    BY <1>1, <1>11, <2>3
  <2>6. marked \subseteq f[m]
    BY <1>1, <1>3, <2>4, <2>5
  <2> QED  BY <1>19, <2>3, <2>6
<1>21. ASSUME NEW record \in records
       PROVE  IF record.hasParent
              THEN /\ record.parent \in vertices
                   /\ record.depth = recordOf(record.parent).depth + 1
                   /\ LocalEdgePred(state, record.parent, record.vertex)
              ELSE record.depth = 0 /\ state.states[record.vertex] = "shaded"
  <2>1. PICK id \in marked : record = rec(id)
    BY <1>5
  <2>2. /\ record.vertex = id /\ record.depth = DepthIn(queue, depth, id)
        /\ record.hasParent <=> id \in DOMAIN parent
        /\ id \in DOMAIN parent => record.parent = parent[id]
    BY <1>4, <2>1
  <2>3. CASE id \in roots
    <3>1. state.states[id] = "shaded"
      BY <2>3 DEF roots, Shaded
    <3> QED  BY <1>1, <2>2, <2>3, <3>1
  <2>4. CASE id \notin roots
    <3>1. /\ parent[id] \in marked /\ <<parent[id], id>> \in graph.edges
          /\ DepthIn(queue, depth, id) = DepthIn(queue, depth, parent[id]) + 1
          /\ id \in DOMAIN parent
      BY <1>1, <2>4
    <3>2. recordOf(parent[id]).depth = DepthIn(queue, depth, parent[id])
      BY <1>4, <1>7, <3>1
    <3>3. LocalEdgePred(state, parent[id], id)
      BY <1>1, <1>2, <3>1
    <3> QED  BY <1>6, <2>2, <3>1, <3>2, <3>3
  <2> QED  BY <2>3, <2>4
<1>22. vertices \subseteq Active(state) \ output
  BY <1>1, <1>2, <1>6
<1>23. Cardinality(vertices) = Cardinality(records)
  BY <1>6, <1>8
<1>24. excluded \subseteq vertices
  BY <1>6, <1>13
<1>25. used[m] = vertices
  BY <1>6, <1>20
<1> QED  BY <1>21, <1>22, <1>23, <1>24, <1>25, Zenon
         DEF VerifyBlockForest, used, m, excluded, vertices, recordOf

(* Completeness: what BuildProposal certifies, the follower's checks accept, *)
(* whatever the evidence (buildProposal, verifyStructuralCertificate).       *)
THEOREM ProposalAccepted ==
    ASSUME NEW graph, NEW state, Prepared(graph, state)
    PROVE  VerifyCertificate(state, BuildProposal(graph, state).finalOrder,
                             BuildProposal(graph, state).certificate)
<1> DEFINE ordered == ProposalOrder(graph, state)
           output == UNION Selected(graph, state)
           finalOrder == BuildProposal(graph, state).finalOrder
           certificate == BuildProposal(graph, state).certificate
           part == certificate.part
<1>1. InOrder(graph, state, ordered)
  BY ProposalInOrder
<1>2. Proposed(graph, state, ordered)
  BY ProposalParts
<1>3. IsGraph(graph) /\ state.batchCounter \in Nat
  BY ExactGraph DEF Prepared, States
<1>4. VerifyBatches(state, finalOrder) /\ VerifyRanks(state, part)
  BY ProposalBatches, ProposalRanks
<1>5. Output(finalOrder) = output
  BY <1>3, ProposalOutput DEF ProposalOrder
<1>6. \A outside \in Active(state) \ output : \A inside \in output :
        ~LocalEdgePred(state, outside, inside)
  BY ProposalFrontier
<1>7. VerifyBlockForest(state, output, certificate.blockForest)
  <2>1. PICK queue, parent, depth, used : Grown(graph, state, output, queue, parent, depth, used)
    BY <1>3, ForestSteps
  <2>2. ForestShape(graph, state, output, queue, parent, depth, used[Cardinality(Txs)])
    BY <2>1, ForestShaped
  <2>3. certificate.blockForest =
            {RecordIn(queue, parent, depth, id) : id \in used[Cardinality(Txs)]}
    BY <1>2, <2>1 DEF Proposed, Grown
  <2> QED  BY <2>2, <2>3, ForestAccepted
<1>8. \A c \in Selected(graph, state) : \A rank : VerifyClaim(state, ClaimOf(graph, c, rank))
  BY ProposalClaim
<1> HIDE DEF ordered, output, finalOrder, certificate
<1>9. /\ finalOrder = [i \in DOMAIN ordered |->
                            Batch(state.batchCounter + i, Sorted(ordered[i]))]
      /\ part = [i \in DOMAIN ordered |-> ClaimOf(graph, ordered[i], i - 1)]
  BY <1>2 DEF Proposed, finalOrder, certificate
<1>10. DOMAIN ordered = 1 .. Len(ordered) /\ Len(ordered) \in Nat
  BY <1>1 DEF InOrder
<1>11. Len(part) = Len(finalOrder)
  BY <1>9, <1>10
<1>12. ASSUME NEW i \in DOMAIN part
       PROVE  /\ part[i].rank = i - 1 /\ part[i].txs = finalOrder[i].txs
              /\ VerifyClaim(state, part[i])
  <2>1. i \in DOMAIN ordered /\ ordered[i] \in Selected(graph, state)
    BY <1>1, <1>9 DEF InOrder
  <2>2. part[i] = ClaimOf(graph, ordered[i], i - 1)
    BY <1>9, <2>1
  <2>3. VerifyClaim(state, part[i])
    BY <1>8, <2>1, <2>2
  <2>4. part[i].rank = i - 1 /\ part[i].txs = Sorted(ordered[i])
    BY <2>2 DEF ClaimOf
  <2>5. finalOrder[i].txs = Sorted(ordered[i])
    BY <1>9, <2>1 DEF Batch
  <2> QED  BY <2>3, <2>4, <2>5
<1>13. VerifyCertificate(state, finalOrder, certificate)
  BY <1>4, <1>5, <1>6, <1>7, <1>11, <1>12, Zenon DEF VerifyCertificate
<1> QED  BY <1>13 DEF finalOrder, certificate

(* A follower accepts what a leader with the same evidence has built         *)
(* (verifyCandidate): no candidate of a correct leader is ever refused.      *)
THEOREM CertificateAcceptedHolds == Spec => []CertificateAccepted
<1>1. EngineInv => CertificateAccepted
  <2> SUFFICES ASSUME EngineInv, pending # NoCandidate
               PROVE  VerifyCertificate(pending.preState, pending.finalOrder, pending.certificate)
    BY DEF CertificateAccepted
  <2>1. PICK batch : Extending(committed, batch) /\ pending = Candidate(batch)
    BY DEF EngineInv, CandidateBuilt
  <2>2. committed \in States /\ ExactCaches(committed) /\ Exact(manager, committed)
    BY DEF EngineInv, CommittedExact
  <2> DEFINE applied == ApplyEvidence(committed, batch)
             pre == applied.state
             refreshed == Refresh(manager, applied.state, applied.nodes, applied.pairs)
  <2>3. Prepared(refreshed, pre)
    <3>1. pre \in States /\ ExactCaches(pre)
      BY <2>1, <2>2, AppliedExact, Zenon
    <3>2. Exact(refreshed, pre)
      BY <2>1, <2>2, RefreshedExact, Zenon
    <3> QED  BY <3>1, <3>2, Zenon DEF Prepared
  <2>4. /\ pending.preState = pre
        /\ pending.finalOrder = BuildProposal(refreshed, pre).finalOrder
        /\ pending.certificate = BuildProposal(refreshed, pre).certificate
    BY <2>1 DEF Candidate
  <2> HIDE DEF pre, refreshed
  <2> QED  BY <2>3, <2>4, ProposalAccepted
<1> QED  BY <1>1, EngineInvariant, PTL
=============================================================================
