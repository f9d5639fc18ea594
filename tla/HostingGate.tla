------------------------------ MODULE HostingGate ------------------------------
(***************************************************************************)
(* The goroutines of the order leader and the channels between them        *)
(* (pkg/auth_adapter.go, pkg/ofo/service.go, pkg/main.go): the single      *)
(* message worker puts local orders into localOrderChan and                *)
(* acknowledgements into hosting.verified and blocks when the channel is   *)
(* full; the collector, the proposer running Propose, and at the end of a  *)
(* run the main goroutine, take them out.                                  *)
(*                                                                         *)
(* What a message is about is left to FragmentReplication.  There, retries *)
(* rebuild the same digest (SingleHistory) and a complete batch is applied *)
(* (BatchApplicable), so a candidate is the number of its fragment here,   *)
(* and all that a follower may lack is the content of a transaction that   *)
(* the submitter sends it after the candidate.                             *)
(***************************************************************************)
EXTENDS Integers, Sequences, FiniteSets

CONSTANTS
    N,             \* number of replicas, identified by 0 .. N-1
    F,             \* tolerated faulty replicas
    Leader,        \* the fixed order leader
    OrderCapacity, \* capacity of localOrderChan
    MaxSeq,        \* bound: number of fragments
    MaxFaults,     \* bound: failed sends of a candidate
    MaxLate,       \* bound: last fragment of which some content arrives late
    MaxAttempts    \* bound: attempts made before the late content is there

Replicas == 0 .. N-1
Followers == Replicas \ {Leader}

ASSUME ReplicaAssumption ==
    /\ N \in Nat \ {0} /\ F \in Nat /\ N >= 4*F + 1 /\ Leader \in Replicas
    /\ OrderCapacity \in Nat \ {0}

ASSUME BoundAssumption ==
    /\ MaxSeq \in Nat /\ MaxFaults \in Nat /\ MaxLate \in Nat
    /\ MaxAttempts \in Nat

\* Mutant: room for one acknowledgement of each replica.
OneRound == N
(* The capacity of hosting.verified. *)
Capacity == 2 * N

Order == [type : {"order"}, from : Replicas, seq : Nat]
Ack == [type : {"verified"}, from : Followers, seq : Nat, accepted : BOOLEAN]
FinishAck == [type : {"finish"}, from : Followers]
NoMessage == [type |-> "none"]

Down == [type : {"tx"}] \cup [type : {"candidate", "commit"}, seq : Nat] \cup [type : {"finish"}]

VARIABLES
    up,             \* [Replicas -> Seq]: from each replica to the leader's worker, FIFO
    down,           \* [Followers -> Seq(Down)]: from the leader to each follower, FIFO
    holding,        \* the message the worker is blocked with, or NoMessage
    localOrderChan, \* Seq(Order)
    verified,       \* Seq(Ack \cup FinishAck): hosting.verified
    collector,      \* what the collector does: "collect", "drain" or "stopped"
    collected,      \* replicas whose order the collector has
    gate,           \* where the proposer is, in Propose or around it
    todo,           \* followers the current fan-out has not reached yet
    accepted,       \* the map accepted of Propose
    committed,      \* fragments committed at the leader
    applied,        \* [Followers -> Nat]: fragments committed at a follower
    holds,          \* [Followers -> BOOLEAN]: the candidate that follows them is pending
    lacks,          \* [Followers -> BOOLEAN]: a transaction it orders is not there yet
    late,           \* followers the submitter has still to send that transaction to
    expired,        \* experimentCtx is done
    main,           \* the leader's main goroutine: "run", "stop", "finish" or "done"
    peers,          \* finishedPeers
    abandons,       \* attempts abandoned so far
    faults,         \* failed sends so far
    proposed        \* fragments for which a candidate has been built

channels == <<up, down, holding, localOrderChan, verified>>
followerVars == <<applied, holds, lacks>>
stages == <<collector, collected, gate, todo, accepted, committed>>
counters == <<abandons, faults, proposed>>
vars == <<channels, followerVars, stages, late, expired, main, peers, counters>>

Init ==
    /\ up = [r \in Replicas |-> <<>>]
    /\ down = [f \in Followers |-> <<>>]
    /\ holding = NoMessage /\ localOrderChan = <<>> /\ verified = <<>>
    /\ collector = "collect" /\ collected = {}
    /\ gate = "idle" /\ todo = {} /\ accepted = {} /\ committed = 0
    /\ applied = [f \in Followers |-> 0]
    /\ holds = [f \in Followers |-> FALSE]
    /\ lacks = [f \in Followers |-> FALSE]
    /\ late = {} /\ expired = FALSE /\ main = "run" /\ peers = {}
    /\ abandons = 0 /\ faults = 0 /\ proposed = 0

IsNext(f, targets) == f \in targets /\ \A g \in targets : f <= g
Send(f, message) == down' = [down EXCEPT ![f] = Append(@, message)]

-----------------------------------------------------------------------------
(* The replicas' tickers; at most one order of a replica is under way. *)

Applied(r) == IF r = Leader THEN committed ELSE applied[r]
NoOrderFrom(r) == \A i \in DOMAIN up[r] : up[r][i].type # "order"

SendLocalOrder(r) ==
    /\ IF r = Leader THEN ~expired ELSE up[r] # <<>> => up[r][Len(up[r])].type # "finish"
    /\ Applied(r) < MaxSeq /\ NoOrderFrom(r)
    /\ up' = [up EXCEPT ![r] = Append(@, [type |-> "order", from |-> r, seq |-> Applied(r) + 1])]
    /\ UNCHANGED <<down, holding, localOrderChan, verified, followerVars, stages, late, expired,
                   main, peers, counters>>

-----------------------------------------------------------------------------
(* The leader's message worker. *)

HasRoom(message) ==
    IF message.type = "order"
    THEN Len(localOrderChan) < OrderCapacity
    ELSE Len(verified) < Capacity

Deliver(message) ==
    IF message.type = "order"
    THEN localOrderChan' = Append(localOrderChan, message) /\ UNCHANGED verified
    ELSE verified' = Append(verified, message) /\ UNCHANGED localOrderChan

(* The worker takes the next message; it keeps it while the channel is full. *)
HandleMessage(r) ==
    /\ holding = NoMessage /\ up[r] # <<>>
    /\ up' = [up EXCEPT ![r] = Tail(@)]
    /\ IF HasRoom(Head(up[r]))
       THEN Deliver(Head(up[r])) /\ UNCHANGED holding
       ELSE holding' = Head(up[r]) /\ UNCHANGED <<localOrderChan, verified>>
    /\ UNCHANGED <<down, followerVars, stages, late, expired, main, peers, counters>>

\* Mutant: the worker does not watch pipelineCtx.
NotWatched == FALSE
Cancelled == main # "run"

(* There is room again, or the pipeline is cancelled and the order dropped. *)
Unblock ==
    /\ holding # NoMessage
    /\ \/ HasRoom(holding) /\ Deliver(holding)
       \/ holding.type = "order" /\ Cancelled /\ UNCHANGED <<localOrderChan, verified>>
    /\ holding' = NoMessage
    /\ UNCHANGED <<up, down, followerVars, stages, late, expired, main, peers, counters>>

-----------------------------------------------------------------------------
(* The collector stage. *)

Scheduled(r, seq) == (r + N - (seq % N)) % N < N - F

Wanted(order) ==
    /\ order.seq = committed + 1
    /\ Scheduled(order.from, order.seq)

(* A complete batch is handed to the proposer, then the collector drains. *)
CollectOrder ==
    /\ collector = "collect" /\ localOrderChan # <<>>
    /\ localOrderChan' = Tail(localOrderChan)
    /\ LET order == Head(localOrderChan)
           senders == IF Wanted(order) THEN collected \cup {order.from} ELSE collected
       IN  IF Cardinality(senders) >= N - F
           THEN collected' = {} /\ collector' = "drain" /\ gate' = "construct"
           ELSE collected' = senders /\ UNCHANGED <<collector, gate>>
    /\ UNCHANGED <<up, down, holding, verified, followerVars, todo, accepted, committed, late,
                   expired, main, peers, counters>>

\* Mutant: nobody reads local orders while a candidate is under way.
NoDrain == FALSE
Drains == collector = "drain"

DrainOrder ==
    /\ Drains /\ localOrderChan # <<>>
    /\ localOrderChan' = Tail(localOrderChan)
    /\ UNCHANGED <<up, down, holding, verified, followerVars, stages, late, expired, main, peers,
                   counters>>

RoundDone ==
    /\ gate = "done" /\ collector = "drain"
    /\ gate' = "idle" /\ collector' = "collect"
    /\ UNCHANGED <<channels, followerVars, collected, todo, accepted, committed, late, expired,
                   main, peers, counters>>

-----------------------------------------------------------------------------
(* The proposer stage and the hosting gate's Propose. *)

(* The submitter may not have reached the last followers yet. *)
LateSets == {{}} \cup {{f \in Followers : f >= first} : first \in Followers}

ConstructCandidate ==
    /\ gate = "construct"
    /\ committed = proposed \/ abandons < MaxAttempts \/ (late = {} /\ \A f \in Followers : ~lacks[f])
    /\ gate' = "broadcast" /\ todo' = Followers /\ accepted' = {Leader}
    /\ \E set \in IF committed = proposed /\ committed < MaxLate THEN LateSets ELSE {{}} :
        /\ late' = late \cup set
        /\ lacks' = [f \in Followers |-> lacks[f] \/ f \in set]
    /\ proposed' = committed + 1
    /\ UNCHANGED <<channels, applied, holds, collector, collected, committed, expired, main, peers,
                   abandons, faults>>

(* Propose returns without a commit; its deferred AbandonPending frees the round. *)
Abandon ==
    /\ gate' = "done" /\ todo' = {} /\ accepted' = {}
    /\ abandons' = abandons + 1

SendCandidate(f) ==
    /\ gate = "broadcast" /\ IsNext(f, todo)
    /\ expired => todo # Followers
    /\ \/ /\ Send(f, [type |-> "candidate", seq |-> committed + 1])
          /\ todo' = todo \ {f}
          /\ gate' = IF todo' = {} THEN "wait" ELSE "broadcast"
          /\ UNCHANGED <<accepted, abandons, faults>>
       \/ faults < MaxFaults /\ faults' = faults + 1 /\ Abandon /\ UNCHANGED down
    /\ UNCHANGED <<up, holding, localOrderChan, verified, followerVars, collector, collected,
                   committed, late, expired, main, peers, proposed>>

Quorum == Cardinality(accepted) >= N - F

Counts(ack) == ack.seq = committed + 1 /\ ack.from \notin accepted

ReceiveVerified ==
    /\ gate = "wait" /\ ~Quorum /\ verified # <<>>
    /\ verified' = Tail(verified)
    /\ LET ack == Head(verified)
       IN  \/ ~Counts(ack) /\ UNCHANGED <<gate, todo, accepted, abandons>>
           \/ /\ Counts(ack) /\ ack.accepted
              /\ accepted' = accepted \cup {ack.from}
              /\ UNCHANGED <<gate, todo, abandons>>
           \/ Counts(ack) /\ ~ack.accepted /\ Abandon
    /\ UNCHANGED <<up, down, holding, localOrderChan, followerVars, collector, collected,
                   committed, late, expired, main, peers, faults, proposed>>

AbandonExpired ==
    /\ expired
    /\ gate = "wait" \/ (gate = "broadcast" /\ todo = Followers)
    /\ Abandon
    /\ UNCHANGED <<channels, followerVars, collector, collected, committed, late, expired, main,
                   peers, faults, proposed>>

CommitCandidate ==
    /\ gate = "wait" /\ Quorum /\ ~expired
    /\ committed' = committed + 1
    /\ gate' = "commit" /\ todo' = Followers /\ accepted' = {}
    /\ UNCHANGED <<channels, followerVars, collector, collected, late, expired, main, peers,
                   counters>>

SendCommit(f) ==
    /\ gate = "commit" /\ IsNext(f, todo)
    /\ Send(f, [type |-> "commit", seq |-> committed])
    /\ todo' = todo \ {f}
    /\ gate' = IF todo' = {} THEN "done" ELSE "commit"
    /\ UNCHANGED <<up, holding, localOrderChan, verified, followerVars, collector, collected,
                   accepted, committed, late, expired, main, peers, counters>>

-----------------------------------------------------------------------------
(* The followers, as the gate sees them, and the submitter's late sends. *)

SendContent(f) ==
    /\ IsNext(f, late)
    /\ late' = late \ {f}
    /\ Send(f, [type |-> "tx"])
    /\ UNCHANGED <<up, holding, localOrderChan, verified, followerVars, stages, expired, main,
                   peers, counters>>

Verifies(f, seq) == seq = applied[f] + 1 /\ (holds[f] \/ ~lacks[f])

HandleDown(f) ==
    /\ down[f] # <<>>
    /\ down' = [down EXCEPT ![f] = Tail(@)]
    /\ LET message == Head(down[f])
       IN  \/ /\ message.type = "tx"
              /\ lacks' = [lacks EXCEPT ![f] = FALSE]
              /\ UNCHANGED <<up, applied, holds>>
           \/ /\ message.type = "candidate"
              /\ holds' = [holds EXCEPT ![f] = @ \/ Verifies(f, message.seq)]
              /\ up' = [up EXCEPT ![f] = Append(@,
                            [type |-> "verified", from |-> f, seq |-> message.seq,
                             accepted |-> Verifies(f, message.seq)])]
              /\ UNCHANGED <<applied, lacks>>
           \/ /\ message.type = "commit"
              /\ IF holds[f] /\ message.seq = applied[f] + 1
                 THEN /\ applied' = [applied EXCEPT ![f] = @ + 1]
                      /\ holds' = [holds EXCEPT ![f] = FALSE]
                 ELSE UNCHANGED <<applied, holds>>
              /\ UNCHANGED <<up, lacks>>
           \/ /\ message.type = "finish"
              /\ up' = [up EXCEPT ![f] = Append(@, [type |-> "finish", from |-> f])]
              /\ UNCHANGED <<applied, holds, lacks>>
    /\ UNCHANGED <<holding, localOrderChan, verified, stages, late, expired, main, peers, counters>>

-----------------------------------------------------------------------------
(* The end of a run: the deadline, Stop, the finish fan-out and its barrier. *)

Expire ==
    /\ ~expired /\ expired' = TRUE
    /\ UNCHANGED <<channels, followerVars, stages, late, main, peers, counters>>

(* The leader's ticker loop ends and service.Stop cancels the pipeline. *)
CancelPipeline ==
    /\ expired /\ main = "run"
    /\ main' = "stop"
    /\ UNCHANGED <<channels, followerVars, stages, late, expired, peers, counters>>

StopCollector ==
    /\ main # "run" /\ collector # "stopped"
    /\ collector' = "stopped" /\ collected' = {}
    /\ UNCHANGED <<channels, followerVars, gate, todo, accepted, committed, late, expired, main,
                   peers, counters>>

StopProposer ==
    /\ main # "run" /\ gate \in {"idle", "construct", "done"}
    /\ gate' = "stopped"
    /\ UNCHANGED <<channels, followerVars, collector, collected, todo, accepted, committed, late,
                   expired, main, peers, counters>>

\* Mutant: Stop returns without waiting for the stages.
NotAwaited == TRUE
(* pipelineWg.Wait *)
StagesDone == collector = "stopped" /\ gate = "stopped"

Finish ==
    /\ main = "stop" /\ StagesDone /\ late = {}
    /\ main' = "finish" /\ todo' = Followers /\ peers' = {Leader}
    /\ UNCHANGED <<channels, followerVars, collector, collected, gate, accepted, committed, late,
                   expired, counters>>

SendFinish(f) ==
    /\ main = "finish" /\ IsNext(f, todo)
    /\ Send(f, [type |-> "finish"])
    /\ todo' = todo \ {f}
    /\ UNCHANGED <<up, holding, localOrderChan, verified, followerVars, collector, collected, gate,
                   accepted, committed, late, expired, main, peers, counters>>

ReceiveFinish ==
    /\ main = "finish" /\ todo = {} /\ peers # Replicas /\ verified # <<>>
    /\ verified' = Tail(verified)
    /\ peers' = IF Head(verified).type = "finish" THEN peers \cup {Head(verified).from} ELSE peers
    /\ UNCHANGED <<up, down, holding, localOrderChan, followerVars, stages, late, expired, main,
                   counters>>

ShutDown ==
    /\ main = "finish" /\ peers = Replicas
    /\ main' = "done"
    /\ UNCHANGED <<channels, followerVars, stages, late, expired, peers, counters>>

-----------------------------------------------------------------------------
WorkerStep == Unblock \/ \E r \in Replicas : HandleMessage(r)

CollectorStep == CollectOrder \/ DrainOrder

ProposerStep ==
    \/ ConstructCandidate \/ ReceiveVerified \/ AbandonExpired \/ CommitCandidate
    \/ RoundDone
    \/ \E f \in Followers : SendCandidate(f) \/ SendCommit(f)

MainStep ==
    \/ CancelPipeline \/ Finish \/ ReceiveFinish \/ ShutDown
    \/ \E f \in Followers : SendFinish(f)

SubmitterStep == \E f \in Followers : SendContent(f)

Next ==
    \/ WorkerStep \/ CollectorStep \/ ProposerStep \/ MainStep \/ SubmitterStep
    \/ StopCollector \/ StopProposer \/ Expire
    \/ \E r \in Replicas : SendLocalOrder(r)
    \/ \E f \in Followers : HandleDown(f)

Spec == Init /\ [][Next]_vars

(* Every goroutine goes on unless a channel blocks it, the worker serves     *)
(* every connection, and a select that may take the cancelled context again  *)
(* and again takes it at last.  Nothing forces the deadline or a failed send. *)
Fairness ==
    /\ WF_vars(Unblock) /\ \A r \in Replicas : SF_vars(HandleMessage(r))
    /\ WF_vars(CollectorStep) /\ WF_vars(ProposerStep) /\ WF_vars(MainStep)
    /\ WF_vars(StopCollector) /\ SF_vars(StopProposer)
    /\ WF_vars(SubmitterStep)
    /\ \A r \in Replicas : WF_vars(SendLocalOrder(r))
    /\ \A f \in Followers : WF_vars(HandleDown(f))

FairSpec == Spec /\ Fairness

-----------------------------------------------------------------------------
(* Properties. *)

(* Every variable has the type its declaration gives it, and no channel     *)
(* holds more than its capacity (NewOFOService, runDistributedMode).        *)
TypeOK ==
    /\ up \in [Replicas -> Seq(Order \cup Ack \cup FinishAck)]
    /\ down \in [Followers -> Seq(Down)]
    /\ holding \in Order \cup Ack \cup FinishAck \cup {NoMessage}
    /\ localOrderChan \in Seq(Order) /\ Len(localOrderChan) <= OrderCapacity
    /\ verified \in Seq(Ack \cup FinishAck) /\ Len(verified) <= 2 * N
    /\ collector \in {"collect", "drain", "stopped"} /\ collected \subseteq Replicas
    /\ gate \in {"idle", "construct", "broadcast", "wait", "commit", "done", "stopped"}
    /\ todo \subseteq Followers /\ accepted \subseteq Replicas
    /\ committed \in Nat /\ applied \in [Followers -> Nat]
    /\ holds \in [Followers -> BOOLEAN] /\ lacks \in [Followers -> BOOLEAN]
    /\ late \subseteq Followers /\ expired \in BOOLEAN
    /\ main \in {"run", "stop", "finish", "done"} /\ peers \subseteq Replicas
    /\ abandons \in Nat /\ faults \in Nat /\ proposed \in Nat

(* What Propose reads from hosting.verified is a verification, so its type  *)
(* assertion (auth_adapter.go:377) cannot panic: the followers answer a     *)
(* finish marker into the same channel, but none is sent before Stop has    *)
(* waited for the proposer.                                                 *)
OnlyVerificationsRead ==
    gate = "wait" /\ ~Quorum /\ verified # <<>> => Head(verified).type = "verified"

(* The worker waits for room in hosting.verified while nobody reads it, and *)
(* the local orders that would start the next attempt are behind it: the    *)
(* leader stands still until the deadline, after which the finish loop      *)
(* drains the channel.                                                      *)
Wedged ==
    /\ holding.type = "verified" /\ ~HasRoom(holding)
    /\ gate = "idle" /\ localOrderChan = <<>> /\ ~expired

(* How many abandoned attempts it takes.  The channel has room for 2n; an   *)
(* abandoned attempt leaves at most n-2 acknowledgements unread and a       *)
(* committed one at most f; those of older fragments were read, except from *)
(* followers left out of every batch since: f, f-1, .. 1 of them.           *)
WedgeNeedsRetries == Wedged => abandons * (N - 2) + (F * (F + 3)) \div 2 > 2 * N

(* Unless the deadline comes first every fragment is committed: a full      *)
(* order channel, the local orders nobody wants and an abandoned attempt    *)
(* never stop the pipeline of two replicas, when the late content arrives   *)
(* before the second attempt.                                               *)
Progress == <>(expired \/ committed = MaxSeq)

(* Retransmitted local orders "cannot block verification acknowledgements"  *)
(* (service.go:278): the worker never keeps an order for good, in a round,  *)
(* between two rounds or when the stages have stopped.                      *)
OrdersNeverBlock == holding.type = "order" ~> holding = NoMessage

(* After the deadline the leader passes the final state barrier on the      *)
(* answers of its peers, whatever the channels hold when the stages stop.   *)
FinishCompletes == <>expired => <>(main = "done")
=============================================================================
