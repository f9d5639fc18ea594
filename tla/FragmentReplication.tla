------------------------- MODULE FragmentReplication -------------------------
(***************************************************************************)
(* The fragment pipeline of AUTIG as the node binary composes it: the      *)
(* leader's collector and proposer stages (pkg/ofo/service.go), the        *)
(* hosting gate that broadcasts a candidate, waits for n-f verifications   *)
(* and announces the commit (pkg/auth_adapter.go), the followers' handlers *)
(* and the transaction submitter, the local-order ticker and the finish    *)
(* exchange of pkg/main.go.                                                *)
(*                                                                         *)
(* Hashes are injective, so a digest is modelled by what it commits to: a  *)
(* candidate is the committed history it extends plus its evidence batch,  *)
(* and the final order, the certificate and the state identifiers, all     *)
(* functions of those, are left to the ordering modules.                   *)
(***************************************************************************)
EXTENDS Integers, Sequences, FiniteSets

CONSTANTS
    N,          \* number of replicas, identified by 0 .. N-1
    F,          \* tolerated faulty replicas
    Leader,     \* the fixed order leader
    Malicious,  \* replicas that reverse every fresh chunk
    Txs,        \* transaction identifiers the submitter may create
    LoMax,      \* size limit of one local order
    MaxSeq,     \* bound: number of fragments committed in a behaviour
    MaxFaults,  \* bound: number of failed sends and broken connections
    MaxBacklog  \* bound: messages a follower's connection holds when an attempt starts

Replicas == 0 .. N-1
Followers == Replicas \ {Leader}

(* NewOFOService admits only 2*ceil(gamma*(N-F)) >= N+2F+1 with gamma <= 1, *)
(* which is N >= 4F+1.                                                      *)
ASSUME ReplicaAssumption ==
    /\ N \in Nat \ {0} /\ F \in Nat /\ N >= 4*F + 1
    /\ Leader \in Replicas /\ Malicious \subseteq Replicas

ASSUME BoundAssumption ==
    LoMax \in Nat /\ MaxSeq \in Nat /\ MaxFaults \in Nat /\ MaxBacklog \in Nat

(***************************************************************************)
(* A local order is a chunk of its replica's first-receipt log.  "prev" is *)
(* the head of the hash chain the chunk extends, as the set of non-empty   *)
(* chunks the chain hashes, each with the fragment that committed it.      *)
(***************************************************************************)
Heads == SUBSET (Nat \X Seq(Txs))
LocalOrder == [replica : Replicas, seq : Nat, prev : Heads, txs : Seq(Txs)]
NoOrder == [replica |-> Leader, seq |-> 0, prev |-> {}, txs |-> <<>>]

Fragment == SUBSET LocalOrder
History == Seq(Fragment)
NoCandidate == <<>>

Message ==
    [type : {"tx"}, tx : Txs]
        \cup [type : {"candidate", "commit"}, history : History]
        \cup [type : {"finish"}]
Ack ==
    [type : {"verified"}, history : History, accepted : BOOLEAN]
        \cup [type : {"finish"}]

VARIABLES
    committed,          \* [Replicas -> History]: s.committed and latestCommittedFragment
    pending,            \* [Replicas -> History]: s.pending, as the history it would install
    received,           \* [Replicas -> Seq(Txs)]: s.observed and the stored content, in arrival order
    receiptQueue,       \* [Replicas -> Seq(Txs)]: received and not yet in a committed own chunk
    localOrderPending,  \* [Replicas -> LocalOrder]: the sampled chunk awaiting commit, or NoOrder
    localOrders,        \* local orders on their way to the leader's collector
    down,               \* [Replicas -> Seq(Message)]: FIFO from the leader to each replica
    acks,               \* [Replicas -> Seq(Ack)]: FIFO from each replica to hosting.verified
    phase,              \* what the collector, proposer and main goroutines of the leader do
    collected,          \* the collector's pending orders
    todo,               \* followers the current broadcast has not reached yet
    confirmed,          \* accepted in Propose, finishedPeers in the finish loop
    submitted,          \* transactions the submitter has created
    outbox,             \* sends left of the current transaction's fan-out
    expired,            \* experimentCtx is done
    finished,           \* followers that received the finish marker
    faults              \* failed sends and broken connections so far

leaderVars == <<phase, collected, todo, confirmed>>
submitVars == <<submitted, outbox, expired>>
replicaVars == <<committed, pending, received, receiptQueue, localOrderPending>>
networkVars == <<localOrders, down, acks, faults>>
vars == <<replicaVars, networkVars, leaderVars, submitVars, finished>>

-----------------------------------------------------------------------------
(* Operators on histories and evidence. *)

Content(r) == {received[r][i] : i \in DOMAIN received[r]}
Ids(chunk) == {chunk[i] : i \in DOMAIN chunk}

Reversed(chunk) == [i \in DOMAIN chunk |-> chunk[Len(chunk) - i + 1]]

(* The i-th smallest element of a finite set of numbers. *)
Nth(S, i) == CHOOSE x \in S : Cardinality({y \in S : y <= x}) = i

\* Mutant: committed identifiers stay in the queue.
WithoutNothing(seq, S) == seq

(* The elements of seq outside S, in order: SelectSeq, in a form that can be *)
(* reasoned about.                                                           *)
Without(seq, S) ==
    LET kept == {i \in DOMAIN seq : seq[i] \notin S}
    IN  [i \in 1 .. Cardinality(kept) |-> seq[Nth(kept, i)]]

OrdersOf(history, r) ==
    UNION {{<<k, order.txs>> : order \in {o \in history[k] : o.replica = r}} :
                k \in DOMAIN history}

(* state.Head[r] after a history; an empty chunk leaves the head unchanged. *)
LogHead(history, r) == {entry \in OrdersOf(history, r) : entry[2] # <<>>}

LoggedIds(history, r) == UNION {Ids(entry[2]) : entry \in OrdersOf(history, r)}

(* The rotating senders whose orders the collector takes for fragment seq. *)
Scheduled(r, seq) == (r + N - (seq % N)) % N < N - F

(* The checks of applyEvidence.  A finalized identifier is exempt from the   *)
(* last two in the code; they hold of it all the same: what is finalized has *)
(* its content here, and BatchApplicable shows no order logs anything twice. *)
Applicable(history, batch, content) ==
    /\ Cardinality(batch) = N - F
    /\ \A o1, o2 \in batch : o1.replica = o2.replica => o1 = o2
    /\ \A order \in batch :
        /\ order.seq = Len(history) + 1
        /\ order.prev = LogHead(history, order.replica)
        /\ Len(order.txs) <= LoMax
        /\ \A i, j \in DOMAIN order.txs : order.txs[i] = order.txs[j] => i = j
        /\ Ids(order.txs) \cap LoggedIds(history, order.replica) = {}
        /\ Ids(order.txs) \subseteq content

-----------------------------------------------------------------------------
(* All replicas have passed the start barrier; nothing is submitted yet. *)

Init ==
    /\ committed = [r \in Replicas |-> <<>>]
    /\ pending = [r \in Replicas |-> NoCandidate]
    /\ received = [r \in Replicas |-> <<>>]
    /\ receiptQueue = [r \in Replicas |-> <<>>]
    /\ localOrderPending = [r \in Replicas |-> NoOrder]
    /\ localOrders = {}
    /\ down = [r \in Replicas |-> <<>>]
    /\ acks = [r \in Replicas |-> <<>>]
    /\ phase = "collect" /\ collected = {} /\ todo = {} /\ confirmed = {}
    /\ submitted = {} /\ outbox = {} /\ expired = FALSE
    /\ finished = [r \in Replicas |-> FALSE]
    /\ faults = 0

(* network.Send puts the message on the FIFO connection or reports failure. *)
SendDown(r, message) ==
    /\ down' = [down EXCEPT ![r] = Append(@, message)]
    /\ UNCHANGED faults

SendFails ==
    /\ faults < MaxFaults
    /\ faults' = faults + 1
    /\ UNCHANGED down

(* Fan-outs visit the replicas in increasing order of their identifiers. *)
IsNext(r, targets) == r \in targets /\ \A q \in targets : r <= q

-----------------------------------------------------------------------------
(* The submitter goroutine and the deadline of the measurement. *)

SubmitTransaction(tx) ==
    /\ ~expired /\ outbox = {} /\ tx \notin submitted
    /\ submitted' = submitted \cup {tx}
    /\ outbox' = {tx} \X Replicas
    /\ UNCHANGED <<replicaVars, networkVars, leaderVars, expired, finished>>

SendTransaction(tx, r) ==
    /\ <<tx, r>> \in outbox /\ IsNext(r, {send[2] : send \in outbox})
    /\ SendDown(r, [type |-> "tx", tx |-> tx]) \/ SendFails
    /\ outbox' = outbox \ {<<tx, r>>}
    /\ UNCHANGED <<replicaVars, localOrders, acks, leaderVars, submitted, expired, finished>>

Expire ==
    /\ ~expired /\ expired' = TRUE
    /\ UNCHANGED <<replicaVars, networkVars, leaderVars, submitted, outbox, finished>>

-----------------------------------------------------------------------------
(* The ticker of replica r: GenerateAndSendLocalOrder. *)

\* Mutant: every replica reverses its chunks.
ReversedChunk(r, ids) == Reversed(ids)
Chunk(r, ids) == IF r \in Malicious THEN Reversed(ids) ELSE ids

FreshOrder(r) ==
    LET size == IF Len(receiptQueue[r]) < LoMax THEN Len(receiptQueue[r]) ELSE LoMax
        ids == SubSeq(receiptQueue[r], 1, size)
    IN  [replica |-> r, seq |-> Len(committed[r]) + 1, prev |-> LogHead(committed[r], r),
         txs |-> Chunk(r, ids)]

(* The chunk that is waiting for its commit, re-signed for the next fragment. *)
RetainedOrder(r) == [localOrderPending[r] EXCEPT !.seq = Len(committed[r]) + 1]

\* Mutant: every tick samples the queue afresh.
NeverRetained(r) == FALSE
Retained(r) == localOrderPending[r] # NoOrder

GenerateAndSendLocalOrder(r) ==
    /\ IF r = Leader THEN ~expired ELSE ~finished[r]
    /\ Len(committed[r]) < MaxSeq
    /\ LET order == IF Retained(r) THEN RetainedOrder(r) ELSE FreshOrder(r)
       IN  /\ localOrderPending' = [localOrderPending EXCEPT ![r] = order]
           /\ \/ localOrders' = localOrders \cup {order} /\ UNCHANGED faults
              \/ SendFails /\ UNCHANGED localOrders
    /\ UNCHANGED <<committed, pending, received, receiptQueue, down, acks, leaderVars,
                   submitVars, finished>>

-----------------------------------------------------------------------------
(* The leader's collector.  While a round is in progress, and after Stop,   *)
(* every order is dropped; its replica will retransmit it.                  *)

Wanted(order) ==
    /\ phase = "collect"
    /\ order.seq = Len(committed[Leader]) + 1
    /\ Scheduled(order.replica, order.seq)
    /\ \A o \in collected : o.replica # order.replica

CollectLocalOrder(order) ==
    /\ order \in localOrders /\ Wanted(order)
    /\ localOrders' = localOrders \ {order}
    /\ collected' = collected \cup {order}
    /\ phase' = IF Cardinality(collected') >= N - F THEN "construct" ELSE "collect"
    /\ UNCHANGED <<replicaVars, down, acks, faults, todo, confirmed, submitVars, finished>>

DropLocalOrder(order) ==
    /\ order \in localOrders /\ ~Wanted(order)
    /\ localOrders' = localOrders \ {order}
    /\ UNCHANGED <<replicaVars, down, acks, faults, leaderVars, submitVars, finished>>

-----------------------------------------------------------------------------
(* CommitPending: the only path that installs authoritative state. *)

OwnOrders(r) == {order \in pending[r][Len(pending[r])] : order.replica = r}

CommitPending(r) ==
    /\ committed' = [committed EXCEPT ![r] = pending[r]]
    /\ pending' = [pending EXCEPT ![r] = NoCandidate]
    /\ receiptQueue' = [receiptQueue EXCEPT
                           ![r] = Without(@, UNION {Ids(order.txs) : order \in OwnOrders(r)})]
    /\ localOrderPending' = [localOrderPending EXCEPT
                                ![r] = IF @ \in OwnOrders(r) THEN NoOrder ELSE @]
    /\ UNCHANGED received

(* The proposer stage: constructCandidate, then the hosting gate's Propose. *)

ConstructCandidate ==
    /\ phase = "construct"
    /\ \A f \in Followers : Len(down[f]) + Len(acks[f]) <= MaxBacklog
    /\ collected' = {}
    /\ IF pending[Leader] = NoCandidate
            /\ Applicable(committed[Leader], collected, Content(Leader))
       THEN /\ pending' = [pending EXCEPT ![Leader] = Append(committed[Leader], collected)]
            /\ phase' = "propose" /\ todo' = Followers /\ confirmed' = {Leader}
       ELSE phase' = "collect" /\ UNCHANGED <<pending, todo, confirmed>>
    /\ UNCHANGED <<committed, received, receiptQueue, localOrderPending, networkVars,
                   submitVars, finished>>

(* Every return of Propose before CommitPending runs the deferred            *)
(* AbandonPending and frees the collector; the evidence batch is discarded.  *)
AbandonPending ==
    /\ pending' = [pending EXCEPT ![Leader] = NoCandidate]
    /\ phase' = "collect" /\ todo' = {} /\ confirmed' = {}

SendCandidate(f) ==
    /\ phase = "propose" /\ IsNext(f, todo)
    /\ expired => todo # Followers
    /\ \/ /\ SendDown(f, [type |-> "candidate", history |-> pending[Leader]])
          /\ todo' = todo \ {f}
          /\ UNCHANGED <<pending, phase, confirmed>>
       \/ SendFails /\ AbandonPending
    /\ UNCHANGED <<committed, received, receiptQueue, localOrderPending, localOrders, acks,
                   collected, submitVars, finished>>

\* Mutant: one validation too few.
OneShort == Cardinality(confirmed) >= N - F - 1
Verified == Cardinality(confirmed) >= N - F

Counts(f, ack) == ack.history = pending[Leader] /\ f \notin confirmed

\* Mutant: the loop keeps waiting after a rejection.
KeepWaiting == UNCHANGED <<pending, phase, todo, confirmed>>
OnRejection == AbandonPending

(* One message of hosting.verified, read by the loop that waits for n-f. *)
ReceiveVerified(f) ==
    /\ phase = "propose" /\ todo = {} /\ ~Verified
    /\ acks[f] # <<>>
    /\ acks' = [acks EXCEPT ![f] = Tail(@)]
    /\ LET ack == Head(acks[f])
       IN  \/ ~Counts(f, ack) /\ UNCHANGED <<pending, phase, todo, confirmed>>
           \/ /\ Counts(f, ack) /\ ack.accepted
              /\ confirmed' = confirmed \cup {f}
              /\ UNCHANGED <<pending, phase, todo>>
           \/ Counts(f, ack) /\ ~ack.accepted /\ OnRejection
    /\ UNCHANGED <<committed, received, receiptQueue, localOrderPending, localOrders, down,
                   faults, collected, submitVars, finished>>

\* Mutant: the waiting loop does not watch ctx.
CheckedOnEntry == todo = Followers

(* ctx is checked on entry to Propose, while it waits and before the commit. *)
ChecksContext == todo \in {Followers, {}}

AbandonExpired ==
    /\ expired /\ phase = "propose" /\ ChecksContext
    /\ AbandonPending
    /\ UNCHANGED <<committed, received, receiptQueue, localOrderPending, networkVars,
                   collected, submitVars, finished>>

\* Mutant: only the followers whose acknowledgement was counted are told.
Counted == confirmed \ {Leader}
CommitTargets == Followers

CommitCandidate ==
    /\ phase = "propose" /\ todo = {} /\ Verified /\ ~expired
    /\ CommitPending(Leader)
    /\ phase' = "commit" /\ todo' = CommitTargets /\ confirmed' = {}
    /\ UNCHANGED <<networkVars, collected, submitVars, finished>>

(* A failed commit send is only logged. *)
SendCommit(f) ==
    /\ phase = "commit" /\ IsNext(f, todo)
    /\ SendDown(f, [type |-> "commit", history |-> committed[Leader]]) \/ SendFails
    /\ todo' = todo \ {f}
    /\ UNCHANGED <<replicaVars, localOrders, acks, phase, collected, confirmed, submitVars,
                   finished>>

EndRound ==
    /\ phase = "commit" /\ todo = {}
    /\ phase' = "collect"
    /\ UNCHANGED <<replicaVars, networkVars, todo, collected, confirmed, submitVars, finished>>

-----------------------------------------------------------------------------
(* The single message worker of each replica. *)

Inbox(r, type) ==
    /\ down[r] # <<>> /\ Head(down[r]).type = type /\ ~finished[r]
    /\ down' = [down EXCEPT ![r] = Tail(@)]

HandleTransaction(r) ==
    /\ Inbox(r, "tx")
    /\ LET tx == Head(down[r]).tx
       IN  IF tx \in Content(r)
           THEN UNCHANGED <<received, receiptQueue>>
           ELSE /\ received' = [received EXCEPT ![r] = Append(@, tx)]
                /\ receiptQueue' = [receiptQueue EXCEPT ![r] = Append(@, tx)]
    /\ UNCHANGED <<committed, pending, localOrderPending, localOrders, acks, faults, leaderVars,
                   submitVars, finished>>

(* verifyCandidate: the context checks, the candidate already pending, and   *)
(* the evidence replayed on the follower's own committed state.              *)
Extends(history, base) ==
    /\ Len(history) = Len(base) + 1
    /\ SubSeq(history, 1, Len(base)) = base

Verifies(f, history) ==
    /\ Extends(history, committed[f])
    /\ pending[f] = NoCandidate
    /\ Applicable(committed[f], history[Len(history)], Content(f))

\* Mutant: a verified candidate is installed at once.
InstallCandidate(f, history) ==
    /\ pending' = [pending EXCEPT ![f] = history]
    /\ committed' = [committed EXCEPT ![f] = history]
KeepCandidate(f, history) ==
    /\ pending' = [pending EXCEPT ![f] = history]
    /\ UNCHANGED committed

(* The adapter acknowledges what is pending after the service has run. *)
HandleCandidate(f) ==
    /\ Inbox(f, "candidate")
    /\ LET history == Head(down[f]).history
       IN  /\ IF Verifies(f, history)
              THEN KeepCandidate(f, history)
              ELSE UNCHANGED <<committed, pending>>
           /\ acks' = [acks EXCEPT ![f] = Append(@, [type |-> "verified", history |-> history,
                                                     accepted |-> pending'[f] = history])]
    /\ UNCHANGED <<received, receiptQueue, localOrderPending, localOrders, faults,
                   leaderVars, submitVars, finished>>

HandleCommit(f) ==
    /\ Inbox(f, "commit")
    /\ IF pending[f] = Head(down[f]).history THEN CommitPending(f) ELSE UNCHANGED replicaVars
    /\ UNCHANGED <<localOrders, acks, faults, leaderVars, submitVars, finished>>

(* The follower reports its state, answers and shuts its network down. *)
HandleFinish(f) ==
    /\ Inbox(f, "finish")
    /\ finished' = [finished EXCEPT ![f] = TRUE]
    /\ \/ acks' = [acks EXCEPT ![f] = Append(@, [type |-> "finish"])] /\ UNCHANGED faults
       \/ faults < MaxFaults /\ faults' = faults + 1 /\ UNCHANGED acks
    /\ UNCHANGED <<replicaVars, localOrders, leaderVars, submitVars>>

-----------------------------------------------------------------------------
(* The end of a run at the leader: Stop, the finish fan-out and its barrier. *)

\* Mutant: Stop does not wait for the commit fan-out.
AnyPhase == phase \in {"collect", "construct", "commit"}
PipelineIdle == phase \in {"collect", "construct"}

Stop ==
    /\ expired /\ PipelineIdle
    /\ phase' = "finish" /\ todo' = Followers /\ confirmed' = {Leader} /\ collected' = {}
    /\ UNCHANGED <<replicaVars, networkVars, submitVars, finished>>

SendFinish(f) ==
    /\ phase = "finish" /\ outbox = {} /\ IsNext(f, todo)
    /\ SendDown(f, [type |-> "finish"]) \/ SendFails
    /\ todo' = todo \ {f}
    /\ UNCHANGED <<replicaVars, localOrders, acks, phase, collected, confirmed, submitVars,
                   finished>>

ReceiveFinish(f) ==
    /\ phase = "finish" /\ outbox = {} /\ todo = {} /\ acks[f] # <<>>
    /\ acks' = [acks EXCEPT ![f] = Tail(@)]
    /\ confirmed' = IF Head(acks[f]).type = "finish" THEN confirmed \cup {f} ELSE confirmed
    /\ UNCHANGED <<replicaVars, localOrders, down, faults, phase, collected, todo, submitVars,
                   finished>>

(* All peers have answered, or the 30 s of the final state barrier are over. *)
ShutDown ==
    /\ phase = "finish" /\ outbox = {} /\ todo = {}
    /\ phase' = "done"
    /\ UNCHANGED <<replicaVars, networkVars, todo, collected, confirmed, submitVars, finished>>

-----------------------------------------------------------------------------
(* The connection to f breaks and is dialled again: what has not reached the *)
(* other end's queue is lost, and what follows arrives on a new connection.  *)

BreakConnection(f) ==
    /\ faults < MaxFaults /\ faults' = faults + 1
    /\ \E kept \in 0 .. Len(down[f]) :
            down' = [down EXCEPT ![f] = SubSeq(@, 1, kept)]
    /\ \E kept \in 0 .. Len(acks[f]) :
            acks' = [acks EXCEPT ![f] = SubSeq(@, 1, kept)]
    /\ UNCHANGED <<replicaVars, localOrders, leaderVars, submitVars, finished>>

SubmitterStep ==
    \E tx \in Txs :
        \/ SubmitTransaction(tx)
        \/ \E r \in Replicas : SendTransaction(tx, r)

LeaderStep ==
    \/ ConstructCandidate \/ AbandonExpired \/ CommitCandidate \/ EndRound
    \/ Stop \/ ShutDown
    \/ \E f \in Followers : SendCandidate(f) \/ SendCommit(f) \/ SendFinish(f)

WorkerStep(r) ==
    \/ HandleTransaction(r)
    \/ r \in Followers /\ (HandleCandidate(r) \/ HandleCommit(r) \/ HandleFinish(r))

CollectorStep(r) ==
    \E order \in localOrders :
        order.replica = r /\ (CollectLocalOrder(order) \/ DropLocalOrder(order))

Next ==
    \/ SubmitterStep
    \/ LeaderStep
    \/ Expire
    \/ \E r \in Replicas :
            GenerateAndSendLocalOrder(r) \/ CollectorStep(r) \/ WorkerStep(r)
    \/ \E f \in Followers : ReceiveVerified(f) \/ ReceiveFinish(f) \/ BreakConnection(f)

Spec == Init /\ [][Next]_vars

(* Every goroutine keeps running: the submitter, the leader's pipeline and   *)
(* main loop, the tickers, the collector and the message workers.  Nothing   *)
(* forces the deadline, a send failure or a broken connection.               *)
Fairness ==
    /\ WF_vars(SubmitterStep)
    /\ WF_vars(LeaderStep)
    /\ \A r \in Replicas :
        /\ WF_vars(GenerateAndSendLocalOrder(r))
        /\ WF_vars(CollectorStep(r))
        /\ WF_vars(WorkerStep(r))
    /\ \A f \in Followers : WF_vars(ReceiveVerified(f)) /\ WF_vars(ReceiveFinish(f))

FairSpec == Spec /\ Fairness

-----------------------------------------------------------------------------
(* Properties. *)

(* Every variable has the type its declaration gives it. *)
TypeOK ==
    /\ committed \in [Replicas -> History]
    /\ pending \in [Replicas -> History]
    /\ received \in [Replicas -> Seq(Txs)]
    /\ receiptQueue \in [Replicas -> Seq(Txs)]
    /\ localOrderPending \in [Replicas -> LocalOrder]
    /\ localOrders \in SUBSET LocalOrder
    /\ down \in [Replicas -> Seq(Message)]
    /\ acks \in [Replicas -> Seq(Ack)]
    /\ phase \in {"collect", "construct", "propose", "commit", "finish", "done"}
    /\ collected \in SUBSET LocalOrder
    /\ todo \in SUBSET Followers
    /\ confirmed \in SUBSET Replicas
    /\ submitted \in SUBSET Txs
    /\ outbox \in SUBSET (Txs \X Replicas)
    /\ expired \in BOOLEAN
    /\ finished \in [Replicas -> BOOLEAN]
    /\ faults \in Nat

Prefix(s, t) == Len(s) <= Len(t) /\ \A i \in 1 .. Len(s) : s[i] = t[i]

(* Whatever is lost, rejected or retried, a replica's installed history is a *)
(* prefix of the leader's (CommitPending, verifyCandidate).                  *)
Agreement == \A r \in Replicas : Prefix(committed[r], committed[Leader])

(* The histories a replica has installed or is asked to install. *)
Histories ==
    {committed[r] : r \in Replicas} \cup {pending[r] : r \in Replicas}
        \cup (UNION {{down[f][i].history :
                         i \in {j \in DOMAIN down[f] : down[f][j].type \in {"candidate", "commit"}}} :
                     f \in Followers})
        \cup (UNION {{acks[f][i].history : i \in {j \in DOMAIN acks[f] : acks[f][j].type = "verified"}} :
                     f \in Followers})

(* An abandoned attempt and its retry build the same candidate: followers    *)
(* keep the first candidate of a fragment for ever and reject any other      *)
(* (service.go:457), so a retry that differed could never gather a quorum.   *)
SingleHistory == \A a, b \in Histories : Prefix(a, b) \/ Prefix(b, a)

Holds(r, history) == pending[r] = history \/ Prefix(history, committed[r])
Holders(history) == {r \in Replicas : Holds(r, history)}

(* A fragment is committed only when n-f replicas hold it verified, and they *)
(* keep it: the acknowledgements that Propose counts, some of them left over *)
(* from an abandoned attempt, are still backed by their senders.             *)
QuorumBacked ==
    \A k \in 1 .. Len(committed[Leader]) :
        Cardinality(Holders(SubSeq(committed[Leader], 1, k))) >= N - F

(* The batch handed to the proposer is always one applyEvidence accepts, as  *)
(* far as it does not depend on content the leader lacks, and no candidate   *)
(* is pending: chunks are contiguous, never logged twice, and re-signed for  *)
(* the right fragment.  Were it not so the same batch would be refused again *)
(* in every round.                                                           *)
BatchApplicable ==
    phase = "construct" =>
        /\ pending[Leader] = NoCandidate
        /\ Applicable(committed[Leader], collected, Txs)

(* The committed log of an honest replica follows its first-receipt order    *)
(* without a gap: what it received before a logged transaction is logged     *)
(* earlier ("contiguous extension of one replica's first-receipt log").      *)
LogFollowsReceipt ==
    \A r \in Replicas \ Malicious : \A i, j \in DOMAIN received[r] : i < j =>
        \A late \in OrdersOf(committed[Leader], r) : received[r][j] \in Ids(late[2]) =>
            \E early \in OrdersOf(committed[Leader], r) :
                \/ early[1] < late[1] /\ received[r][i] \in Ids(early[2])
                \/ /\ early = late
                   /\ \E p, q \in DOMAIN late[2] :
                        p < q /\ late[2][p] = received[r][i] /\ late[2][q] = received[r][j]

(* The orders of all replicas, wherever they are. *)
SignedOrders ==
    localOrders \cup collected
        \cup {localOrderPending[r] : r \in {q \in Replicas : localOrderPending[q] # NoOrder}}
        \cup UNION {UNION {history[k] : k \in DOMAIN history} : history \in Histories}

(* No replica ever signs two different extensions for one fragment, although *)
(* it signs again after every omission and retransmits until its chunk is    *)
(* committed (GenerateAndSendLocalOrder).                                    *)
NoEquivocation ==
    \A o1, o2 \in SignedOrders :
        o1.replica = o2.replica /\ o1.seq = o2.seq => o1 = o2

(* A commit always finds the candidate it names at the follower, so the      *)
(* "commit without matching verified candidate" of the adapter is never      *)
(* reached.  True when every replica must verify (F = 0).                    *)
CommitFindsCandidate ==
    \A f \in Followers :
        down[f] # <<>> /\ Head(down[f]).type = "commit" => pending[f] = Head(down[f]).history

(* A follower that has received the finish marker has received and installed *)
(* the final committed prefix (pkg/main.go:329).                             *)
FinalPrefixReceived ==
    \A f \in Followers : finished[f] => committed[f] = committed[Leader]

(* While nothing was lost, a candidate that a follower has verified and the  *)
(* leader has committed is followed by its commit: the fan-out still has to  *)
(* visit the follower, or the commit is on its connection and in front of    *)
(* any finish marker.  It holds of every follower and of each fragment, also *)
(* of the slow ones whose verification the gate did not wait for             *)
(* (auth_adapter.go:398), which may verify a fragment long after the leader  *)
(* has committed it, and the next.                                           *)
CommitOwed ==
    faults = 0 =>
        \A f \in Followers :
            pending[f] # NoCandidate /\ Prefix(pending[f], committed[Leader]) =>
                /\ ~finished[f]
                /\ \/ phase = "commit" /\ f \in todo /\ pending[f] = committed[Leader]
                   \/ \E i \in DOMAIN down[f] :
                        /\ down[f][i].type = "commit" /\ down[f][i].history = pending[f]
                        /\ \A j \in 1 .. i : down[f][j].type # "finish"

(* Unless the deadline comes first every fragment is eventually committed.   *)
(* Neither the rejected attempts, nor the orders dropped during a round, nor *)
(* what an abandoned attempt leaves behind (unread acknowledgements, which   *)
(* the next attempt or the next fragment reads) stop the pipeline, as long   *)
(* as the content that came too late for an attempt is there for the next    *)
(* and no channel is full.  What a full hosting.verified does is the subject *)
(* of HostingGate.                                                           *)
Progress == <>(expired \/ Len(committed[Leader]) = MaxSeq)

(* After the deadline the finish marker reaches every follower. *)
FinishArrives == <>expired => <>(\A f \in Followers : finished[f])

-----------------------------------------------------------------------------
(* The pipeline implements the agreed log: a commit at the leader decides an *)
(* entry, a commit at a follower learns the next one, all else stutters.     *)
Agreed ==
    INSTANCE AgreedLog WITH
        Learners <- Followers, Entry <- Fragment,
        log <- committed[Leader], learned <- [f \in Followers |-> committed[f]]

ImplementsAgreedLog == Agreed!Spec
=============================================================================
