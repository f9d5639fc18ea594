-------------------------- MODULE CertificateSoundness --------------------------
(***************************************************************************)
(* What a follower's acceptance means (verifyCandidate of                   *)
(* pkg/ofo/service.go and verifyStructuralCertificate of dependency.go).    *)
(* Beside the candidate the leader has built, the follower is given every   *)
(* final order and certificate of the right shape for the same evidence.    *)
(***************************************************************************)
EXTENDS EvidenceEngine

-----------------------------------------------------------------------------
(* The candidates: a final order of disjoint batches, for every batch two    *)
(* trees of its size, and records of blocked transactions.                   *)

OrderedPartitions ==
    UNION {{batches \in [1 .. k -> (SUBSET Txs) \ {{}}] :
                \A i, j \in 1 .. k : i # j => batches[i] \cap batches[j] = {}} :
           k \in 0 .. Cardinality(Txs)}

TreesOver(ids) ==
    {tree \in SUBSET {e \in ids \X ids : e[1] # e[2]} : Cardinality(tree) = Cardinality(ids) - 1}

Claims(ids, rank) ==
    {[txs |-> Sorted(ids), rank |-> rank, inTree |-> in, outTree |-> out] :
        in \in TreesOver(ids), out \in TreesOver(ids)}

Records(id) ==
    {[vertex |-> id, depth |-> 0, hasParent |-> FALSE, parent |-> NoParent]} \cup
    {[vertex |-> id, depth |-> d, hasParent |-> TRUE, parent |-> p] :
        d \in 1 .. Cardinality(Txs) - 1, p \in Txs \ {id}}

Forests(ids) ==
    UNION {{{record[id] : id \in blocked} :
               record \in {f \in [blocked -> UNION {Records(id) : id \in blocked}] :
                              \A id \in blocked : f[id] \in Records(id)}} :
           blocked \in SUBSET ids}

Parts(batches) ==
    {part \in [DOMAIN batches -> UNION {Claims(batches[i], i - 1) : i \in DOMAIN batches}] :
        \A i \in DOMAIN batches : part[i] \in Claims(batches[i], i - 1)}

Certificates(batches) ==
    {[part |-> part, blockForest |-> forest] :
        part \in Parts(batches), forest \in Forests(Txs \ UNION {batches[i] : i \in DOMAIN batches})}

Candidates == {<<batches, Certificates(batches)>> : batches \in OrderedPartitions}

(* VerifyCertificate checks the batches first: no certificate helps bad ones. *)
AcceptsSome(preState, finalOrder, certificates) ==
    /\ VerifyBatches(preState, finalOrder)
    /\ \E certificate \in certificates : VerifyCertificate(preState, finalOrder, certificate)

-----------------------------------------------------------------------------
(* Properties. *)

(* A follower keeps no graph and runs no component search, and yet what its  *)
(* checks accept is the one final order the algorithm derives from the       *)
(* evidence: the trees prove the components, the frontier and the blocked    *)
(* paths that neither more nor less is output, the ranks the order.  The     *)
(* certificate itself is not unique: any spanning trees will do.             *)
OneOrderAccepted ==
    Compared => \A candidate \in Candidates :
        LET batches == candidate[1]
            finalOrder == [i \in DOMAIN batches |->
                              Batch(pending.preState.batchCounter + i, Sorted(batches[i]))]
        IN  AcceptsSome(pending.preState, finalOrder, candidate[2]) =>
                finalOrder = pending.finalOrder
=============================================================================
