--------------------------- MODULE HostingGateProofs ---------------------------
(***************************************************************************)
(* Proofs about HostingGate, for every number of replicas, every capacity   *)
(* and every bound: types, the capacities of the channels, that the gate    *)
(* reads verifications only, and how many abandoned attempts it takes until *)
(* the worker stands still behind a full hosting.verified.                  *)
(***************************************************************************)
EXTENDS HostingGate, FiniteSetTheorems, TLAPS

Up == Order \cup Ack \cup FinishAck

-----------------------------------------------------------------------------
(* The conjuncts of the inductive invariant. *)

Ending == main \in {"finish", "done"}

\* Stop has waited for the stages, and nothing starts them again.
StagesStopped == Ending => collector = "stopped" /\ gate = "stopped"

\* Nobody answers a finish marker before there is one.
NoFinishIn(q) == \A i \in DOMAIN q : q[i].type # "finish"
NoEarlyFinish ==
    ~Ending =>
        /\ \A f \in Followers : NoFinishIn(down[f])
        /\ \A r \in Replicas : NoFinishIn(up[r])
        /\ holding.type # "finish" /\ NoFinishIn(verified)

IInv == TypeOK /\ StagesStopped /\ NoEarlyFinish

-----------------------------------------------------------------------------
(* Messages. *)

LEMMA MessageTypes ==
    /\ \A m \in Up : m.type = "order" => m \in Order
    /\ \A m \in Up : m.type # "order" => m \in Ack \cup FinishAck
    /\ \A m \in Up : m # NoMessage
    /\ \A m \in Order : m.from \in Replicas /\ m.type = "order"
    /\ \A m \in Ack \cup FinishAck : m.from \in Followers /\ m.type # "order"
  BY DEF Up, Order, Ack, FinishAck, NoMessage

LEMMA DownTypes ==
    /\ [type |-> "tx"] \in Down /\ [type |-> "finish"] \in Down
    /\ \A n \in Nat : [type |-> "candidate", seq |-> n] \in Down
    /\ \A n \in Nat : [type |-> "commit", seq |-> n] \in Down
    /\ \A m \in Down : m.type = "candidate" => m.seq \in Nat
  BY DEF Down

(* What a sequence without finish acknowledgements is like after a step. *)
LEMMA NoFinishTail ==
    ASSUME NEW T, NEW q \in Seq(T), q # <<>>
    PROVE  /\ Tail(q) \in Seq(T) /\ Head(q) \in T /\ Len(Tail(q)) = Len(q) - 1
           /\ NoFinishIn(q) => NoFinishIn(Tail(q)) /\ Head(q).type # "finish"
  BY DEF NoFinishIn

LEMMA NoFinishAppend ==
    ASSUME NEW T, NEW q \in Seq(T), NEW m \in T
    PROVE  /\ Append(q, m) \in Seq(T) /\ Len(Append(q, m)) = Len(q) + 1
           /\ NoFinishIn(q) /\ m.type # "finish" => NoFinishIn(Append(q, m))
  BY DEF NoFinishIn

(* Putting a message into its channel keeps types, capacities and order. *)
LEMMA DeliverCorrect ==
    ASSUME TypeOK, NEW m \in Up, HasRoom(m), Deliver(m)
    PROVE  /\ localOrderChan' \in Seq(Order) /\ Len(localOrderChan') <= OrderCapacity
           /\ verified' \in Seq(Ack \cup FinishAck) /\ Len(verified') <= 2 * N
           /\ NoFinishIn(verified) /\ m.type # "finish" => NoFinishIn(verified')
<1>0. /\ localOrderChan \in Seq(Order) /\ Len(localOrderChan) <= OrderCapacity
      /\ verified \in Seq(Ack \cup FinishAck) /\ Len(verified) <= 2 * N
      /\ Len(localOrderChan) \in Nat /\ Len(verified) \in Nat
      /\ OrderCapacity \in Nat /\ 2 * N \in Nat
  BY ReplicaAssumption DEF TypeOK
<1>1. CASE m.type = "order"
  <2>1. m \in Order
    BY <1>1, MessageTypes
  <2>2. Len(localOrderChan) < OrderCapacity
    BY <1>1 DEF HasRoom
  <2>3. Append(localOrderChan, m) \in Seq(Order)
        /\ Len(Append(localOrderChan, m)) = Len(localOrderChan) + 1
    BY <1>0, <2>1, NoFinishAppend
  <2>4. localOrderChan' = Append(localOrderChan, m) /\ verified' = verified
    BY <1>1 DEF Deliver
  <2>5. Len(localOrderChan') <= OrderCapacity
    BY <1>0, <2>2, <2>3, <2>4
  <2> QED
    BY <1>0, <2>3, <2>4, <2>5
<1>2. CASE m.type # "order"
  <2>1. m \in Ack \cup FinishAck
    BY <1>2, MessageTypes
  <2>2. Len(verified) < 2 * N
    BY <1>2 DEF HasRoom, Capacity
  <2>3. /\ Append(verified, m) \in Seq(Ack \cup FinishAck)
        /\ Len(Append(verified, m)) = Len(verified) + 1
        /\ NoFinishIn(verified) /\ m.type # "finish" => NoFinishIn(Append(verified, m))
    BY <1>0, <2>1, NoFinishAppend
  <2>4. verified' = Append(verified, m) /\ localOrderChan' = localOrderChan
    BY <1>2 DEF Deliver
  <2>5. Len(verified') <= 2 * N
    BY <1>0, <2>2, <2>3, <2>4
  <2> QED
    BY <1>0, <2>3, <2>4, <2>5
<1> QED
  BY <1>1, <1>2

(* Appending to one queue of a family keeps its type and what it lacks. *)
LEMMA QueueUpdate ==
    ASSUME NEW D, NEW T, NEW qs \in [D -> Seq(T)], NEW d \in D, NEW q \in Seq(T)
    PROVE  /\ [qs EXCEPT ![d] = q] \in [D -> Seq(T)]
           /\ (\A e \in D : NoFinishIn(qs[e])) /\ NoFinishIn(q)
                => \A e \in D : NoFinishIn([qs EXCEPT ![d] = q][e])
  BY Zenon

(* Sending a message that is no finish marker. *)
LEMMA SendCorrect ==
    ASSUME TypeOK, NEW f \in Followers, NEW m \in Down, Send(f, m)
    PROVE  /\ down' \in [Followers -> Seq(Down)]
           /\ (\A g \in Followers : NoFinishIn(down[g])) /\ m.type # "finish"
                => \A g \in Followers : NoFinishIn(down'[g])
<1>1. down \in [Followers -> Seq(Down)] /\ down[f] \in Seq(Down)
  BY DEF TypeOK
<1>2. Append(down[f], m) \in Seq(Down)
      /\ (NoFinishIn(down[f]) /\ m.type # "finish" => NoFinishIn(Append(down[f], m)))
  BY <1>1, NoFinishAppend
<1>3. down' = [down EXCEPT ![f] = Append(down[f], m)]
  BY DEF Send
<1> QED
  BY <1>1, <1>2, <1>3, QueueUpdate

-----------------------------------------------------------------------------
(* The initial states. *)

LEMMA InitCorrect == Init => IInv
<1> SUFFICES ASSUME Init PROVE IInv
  OBVIOUS
<1>1. TypeOK
  BY ReplicaAssumption DEF Init, TypeOK, Replicas
<1>2. StagesStopped /\ NoEarlyFinish
  BY DEF Init, StagesStopped, NoEarlyFinish, Ending, NoFinishIn, NoMessage
<1> QED
  BY <1>1, <1>2 DEF IInv

-----------------------------------------------------------------------------
(* The steps, one lemma per party. *)

LEMMA OrderStep ==
    ASSUME IInv, NEW r \in Replicas, SendLocalOrder(r)
    PROVE  IInv'
<1> DEFINE order == [type |-> "order", from |-> r, seq |-> Applied(r) + 1]
<1>1. Applied(r) \in Nat
  BY DEF IInv, TypeOK, Applied, Followers
<1>2. order \in Up /\ order.type # "finish"
  BY <1>1 DEF Up, Order
<1>3. up \in [Replicas -> Seq(Up)] /\ up[r] \in Seq(Up)
  BY DEF IInv, TypeOK, Up
<1>4. up' = [up EXCEPT ![r] = Append(up[r], order)]
  BY DEF SendLocalOrder
<1> HIDE DEF order
<1>5. Append(up[r], order) \in Seq(Up)
      /\ (NoFinishIn(up[r]) => NoFinishIn(Append(up[r], order)))
  BY <1>2, <1>3, NoFinishAppend
<1>6. up' \in [Replicas -> Seq(Up)]
      /\ ((\A q \in Replicas : NoFinishIn(up[q])) => \A q \in Replicas : NoFinishIn(up'[q]))
  BY <1>3, <1>4, <1>5, QueueUpdate
<1>7. UNCHANGED <<down, holding, localOrderChan, verified, followerVars, stages, late, expired,
                  main, peers, counters>>
  BY DEF SendLocalOrder
<1>8. TypeOK'
  BY <1>6, <1>7 DEF IInv, TypeOK, Up, followerVars, stages, counters
<1>9. StagesStopped' /\ NoEarlyFinish'
  BY <1>6, <1>7 DEF IInv, StagesStopped, NoEarlyFinish, Ending, stages
<1> QED
  BY <1>8, <1>9 DEF IInv

LEMMA WorkerStepCorrect ==
    ASSUME IInv, WorkerStep
    PROVE  IInv'
<1>1. ASSUME NEW r \in Replicas, HandleMessage(r)
      PROVE  IInv'
  <2> DEFINE m == Head(up[r])
  <2>1. up \in [Replicas -> Seq(Up)] /\ up[r] \in Seq(Up) /\ up[r] # <<>>
    BY <1>1 DEF IInv, TypeOK, Up, HandleMessage
  <2>2. /\ Tail(up[r]) \in Seq(Up) /\ m \in Up
        /\ NoFinishIn(up[r]) => NoFinishIn(Tail(up[r])) /\ m.type # "finish"
    BY <2>1, NoFinishTail
  <2>3. up' = [up EXCEPT ![r] = Tail(up[r])]
    BY <1>1 DEF HandleMessage
  <2>4. up' \in [Replicas -> Seq(Up)]
        /\ ((\A q \in Replicas : NoFinishIn(up[q])) => \A q \in Replicas : NoFinishIn(up'[q]))
    BY <2>1, <2>2, <2>3, QueueUpdate
  <2>5. UNCHANGED <<down, followerVars, stages, late, expired, main, peers, counters>>
    BY <1>1 DEF HandleMessage
  <2>6. \/ HasRoom(m) /\ Deliver(m) /\ UNCHANGED holding
        \/ holding' = m /\ UNCHANGED <<localOrderChan, verified>>
    BY <1>1 DEF HandleMessage
  <2> HIDE DEF m
  <2>7. CASE HasRoom(m) /\ Deliver(m) /\ UNCHANGED holding
    <3>1. /\ localOrderChan' \in Seq(Order) /\ Len(localOrderChan') <= OrderCapacity
          /\ verified' \in Seq(Ack \cup FinishAck) /\ Len(verified') <= 2 * N
          /\ NoFinishIn(verified) /\ m.type # "finish" => NoFinishIn(verified')
      BY <2>2, <2>7, DeliverCorrect DEF IInv
    <3>2. TypeOK'
      BY <2>4, <2>5, <2>7, <3>1 DEF IInv, TypeOK, Up, followerVars, stages, counters
    <3>3. StagesStopped' /\ NoEarlyFinish'
      BY <2>2, <2>4, <2>5, <2>7, <3>1 DEF IInv, StagesStopped, NoEarlyFinish, Ending, stages
    <3> QED
      BY <3>2, <3>3 DEF IInv
  <2>8. CASE holding' = m /\ UNCHANGED <<localOrderChan, verified>>
    <3>1. TypeOK'
      BY <2>2, <2>4, <2>5, <2>8 DEF IInv, TypeOK, Up, followerVars, stages, counters
    <3>2. StagesStopped' /\ NoEarlyFinish'
      BY <2>2, <2>4, <2>5, <2>8 DEF IInv, StagesStopped, NoEarlyFinish, Ending, stages
    <3> QED
      BY <3>1, <3>2 DEF IInv
  <2> QED
    BY <2>6, <2>7, <2>8
<1>2. ASSUME Unblock
      PROVE  IInv'
  <2>1. holding \in Up /\ holding' = NoMessage
    BY <1>2 DEF IInv, TypeOK, Up, Unblock
  <2>2. UNCHANGED <<up, down, followerVars, stages, late, expired, main, peers, counters>>
    BY <1>2 DEF Unblock
  <2>3. /\ localOrderChan' \in Seq(Order) /\ Len(localOrderChan') <= OrderCapacity
        /\ verified' \in Seq(Ack \cup FinishAck) /\ Len(verified') <= 2 * N
        /\ NoFinishIn(verified) /\ holding.type # "finish" => NoFinishIn(verified')
    <3>1. CASE HasRoom(holding) /\ Deliver(holding)
      BY <2>1, <3>1, DeliverCorrect DEF IInv
    <3>2. CASE UNCHANGED <<localOrderChan, verified>>
      BY <3>2 DEF IInv, TypeOK
    <3> QED
      BY <1>2, <3>1, <3>2 DEF Unblock
  <2>4. TypeOK'
    BY <2>1, <2>2, <2>3 DEF IInv, TypeOK, followerVars, stages, counters
  <2>5. StagesStopped' /\ NoEarlyFinish'
    BY <2>1, <2>2, <2>3
       DEF IInv, StagesStopped, NoEarlyFinish, Ending, stages, NoMessage
  <2> QED
    BY <2>4, <2>5 DEF IInv
<1> QED
  BY <1>1, <1>2 DEF WorkerStep

LEMMA CollectorStepCorrect ==
    ASSUME IInv, CollectorStep \/ RoundDone \/ StopCollector
    PROVE  IInv'
<1>1. ASSUME CollectOrder
      PROVE  IInv'
  <2>1. localOrderChan \in Seq(Order) /\ localOrderChan # <<>>
        /\ Len(localOrderChan) \in Nat /\ Len(localOrderChan) <= OrderCapacity /\ OrderCapacity \in Nat
    BY <1>1, ReplicaAssumption DEF IInv, TypeOK, CollectOrder
  <2>2. Tail(localOrderChan) \in Seq(Order) /\ Head(localOrderChan) \in Order
        /\ Len(Tail(localOrderChan)) = Len(localOrderChan) - 1
    BY <2>1, NoFinishTail
  <2>3. Head(localOrderChan).from \in Replicas
    BY <2>2, MessageTypes
  <2>4. localOrderChan' = Tail(localOrderChan) /\ collector = "collect"
        /\ UNCHANGED <<up, down, holding, verified, followerVars, todo, accepted, committed, late,
                       expired, main, peers, counters>>
    BY <1>1 DEF CollectOrder
  <2>5. /\ collected' \subseteq Replicas
        /\ collector' \in {"collect", "drain"} /\ gate' \in {gate, "construct"}
    BY <1>1, <2>3 DEF CollectOrder, IInv, TypeOK
  <2>6. localOrderChan' \in Seq(Order) /\ Len(localOrderChan') <= OrderCapacity
    BY <2>1, <2>2, <2>4
  <2>7. TypeOK'
    BY <2>4, <2>5, <2>6 DEF IInv, TypeOK, followerVars, counters
  <2>8. StagesStopped' /\ NoEarlyFinish'
    BY <2>4 DEF IInv, StagesStopped, NoEarlyFinish, Ending
  <2> QED
    BY <2>7, <2>8 DEF IInv
<1>2. ASSUME DrainOrder
      PROVE  IInv'
  <2>1. localOrderChan \in Seq(Order) /\ localOrderChan # <<>>
        /\ Len(localOrderChan) \in Nat /\ Len(localOrderChan) <= OrderCapacity /\ OrderCapacity \in Nat
    BY <1>2, ReplicaAssumption DEF IInv, TypeOK, DrainOrder
  <2>2. Tail(localOrderChan) \in Seq(Order) /\ Len(Tail(localOrderChan)) = Len(localOrderChan) - 1
    BY <2>1, NoFinishTail
  <2>3. localOrderChan' = Tail(localOrderChan)
        /\ UNCHANGED <<up, down, holding, verified, followerVars, stages, late, expired, main, peers,
                       counters>>
    BY <1>2 DEF DrainOrder
  <2>4. localOrderChan' \in Seq(Order) /\ Len(localOrderChan') <= OrderCapacity
    BY <2>1, <2>2, <2>3
  <2>5. TypeOK'
    BY <2>3, <2>4 DEF IInv, TypeOK, followerVars, stages, counters
  <2>6. StagesStopped' /\ NoEarlyFinish'
    BY <2>3 DEF IInv, StagesStopped, NoEarlyFinish, Ending, stages
  <2> QED
    BY <2>5, <2>6 DEF IInv
<1>3. ASSUME RoundDone
      PROVE  IInv'
  <2>1. TypeOK'
    BY <1>3 DEF IInv, TypeOK, RoundDone, channels, followerVars, counters
  <2>2. StagesStopped' /\ NoEarlyFinish'
    BY <1>3 DEF IInv, StagesStopped, NoEarlyFinish, Ending, RoundDone, channels
  <2> QED
    BY <2>1, <2>2 DEF IInv
<1>4. ASSUME StopCollector
      PROVE  IInv'
  <2>1. TypeOK'
    BY <1>4 DEF IInv, TypeOK, StopCollector, channels, followerVars, counters
  <2>2. StagesStopped' /\ NoEarlyFinish'
    BY <1>4 DEF IInv, StagesStopped, NoEarlyFinish, Ending, StopCollector, channels
  <2> QED
    BY <2>1, <2>2 DEF IInv
<1> QED
  BY <1>1, <1>2, <1>3, <1>4 DEF CollectorStep

LEMMA FanoutStep ==
    ASSUME IInv, NEW f \in Followers, SendCandidate(f) \/ SendCommit(f)
    PROVE  IInv'
<1>1. gate # "stopped" /\ ~Ending
  BY DEF IInv, StagesStopped, SendCandidate, SendCommit
<1>2. UNCHANGED <<up, holding, localOrderChan, verified, followerVars, collector, collected,
                  committed, late, expired, main, peers, proposed>>
  BY DEF SendCandidate, SendCommit, counters
<1>3. /\ gate' \in {"broadcast", "wait", "commit", "done"}
      /\ todo' \subseteq Followers /\ accepted' \subseteq Replicas
      /\ abandons' \in Nat /\ faults' \in Nat
  BY DEF IInv, TypeOK, SendCandidate, SendCommit, Abandon, counters
<1>4. committed \in Nat
  BY DEF IInv, TypeOK
<1>5. down' \in [Followers -> Seq(Down)]
      /\ ((\A g \in Followers : NoFinishIn(down[g])) => \A g \in Followers : NoFinishIn(down'[g]))
  <2>1. CASE Send(f, [type |-> "candidate", seq |-> committed + 1])
    <3>1. committed + 1 \in Nat
      BY <1>4
    <3>2. [type |-> "candidate", seq |-> committed + 1] \in Down
      BY <3>1, DownTypes
    <3> QED
      BY <2>1, <3>2, SendCorrect DEF IInv
  <2>2. CASE Send(f, [type |-> "commit", seq |-> committed])
    <3>1. [type |-> "commit", seq |-> committed] \in Down
      BY <1>4, DownTypes
    <3> QED
      BY <2>2, <3>1, SendCorrect DEF IInv
  <2>3. CASE UNCHANGED down
    BY <2>3 DEF IInv, TypeOK
  <2> QED
    BY <2>1, <2>2, <2>3 DEF SendCandidate, SendCommit
<1>6. TypeOK'
  BY <1>2, <1>3, <1>5 DEF IInv, TypeOK, followerVars
<1>7. StagesStopped' /\ NoEarlyFinish'
  BY <1>1, <1>2, <1>5 DEF IInv, StagesStopped, NoEarlyFinish, Ending
<1> QED
  BY <1>6, <1>7 DEF IInv

LEMMA ProposeStep ==
    ASSUME IInv, ConstructCandidate \/ ReceiveVerified \/ AbandonExpired \/ CommitCandidate
                 \/ StopProposer
    PROVE  IInv'
<1>1. ASSUME ConstructCandidate
      PROVE  IInv'
  <2>1. PICK set \in SUBSET Followers :
            late' = late \cup set /\ lacks' = [f \in Followers |-> lacks[f] \/ f \in set]
    BY <1>1 DEF ConstructCandidate, LateSets
  <2>2. late' \subseteq Followers /\ lacks' \in [Followers -> BOOLEAN]
    BY <2>1 DEF IInv, TypeOK
  <2>3. TypeOK'
    BY <1>1, <2>2, ReplicaAssumption DEF IInv, TypeOK, ConstructCandidate, channels
  <2>4. StagesStopped' /\ NoEarlyFinish'
    BY <1>1 DEF IInv, StagesStopped, NoEarlyFinish, Ending, ConstructCandidate, channels
  <2> QED
    BY <2>3, <2>4 DEF IInv
<1>2. ASSUME ReceiveVerified
      PROVE  IInv'
  <2>1. verified \in Seq(Ack \cup FinishAck) /\ verified # <<>>
        /\ Len(verified) \in Nat /\ Len(verified) <= 2 * N /\ 2 * N \in Nat
    BY <1>2, ReplicaAssumption DEF IInv, TypeOK, ReceiveVerified
  <2>2. /\ Tail(verified) \in Seq(Ack \cup FinishAck) /\ Head(verified) \in Ack \cup FinishAck
        /\ Len(Tail(verified)) = Len(verified) - 1
        /\ NoFinishIn(verified) => NoFinishIn(Tail(verified))
    BY <2>1, NoFinishTail
  <2>3. Head(verified).from \in Replicas
    BY <2>2, MessageTypes DEF Followers
  <2>4. verified' = Tail(verified)
        /\ UNCHANGED <<up, down, holding, localOrderChan, followerVars, collector, collected,
                       committed, late, expired, main, peers, faults, proposed>>
        /\ gate = "wait"
    BY <1>2 DEF ReceiveVerified
  <2>5. /\ gate' \in {"wait", "done"} /\ todo' \subseteq Followers /\ accepted' \subseteq Replicas
        /\ abandons' \in Nat
    BY <1>2, <2>3 DEF IInv, TypeOK, ReceiveVerified, Abandon
  <2>6. verified' \in Seq(Ack \cup FinishAck) /\ Len(verified') <= 2 * N
    BY <2>1, <2>2, <2>4
  <2>7. TypeOK'
    BY <2>4, <2>5, <2>6 DEF IInv, TypeOK, followerVars
  <2>8. StagesStopped' /\ NoEarlyFinish'
    BY <2>2, <2>4 DEF IInv, StagesStopped, NoEarlyFinish, Ending
  <2> QED
    BY <2>7, <2>8 DEF IInv
<1>3. ASSUME AbandonExpired
      PROVE  IInv'
  <2>1. TypeOK'
    BY <1>3 DEF IInv, TypeOK, AbandonExpired, Abandon, channels, followerVars
  <2>2. StagesStopped' /\ NoEarlyFinish'
    BY <1>3 DEF IInv, StagesStopped, NoEarlyFinish, Ending, AbandonExpired, Abandon, channels
  <2> QED
    BY <2>1, <2>2 DEF IInv
<1>4. ASSUME CommitCandidate
      PROVE  IInv'
  <2>1. TypeOK'
    BY <1>4 DEF IInv, TypeOK, CommitCandidate, channels, followerVars, counters
  <2>2. StagesStopped' /\ NoEarlyFinish'
    BY <1>4 DEF IInv, StagesStopped, NoEarlyFinish, Ending, CommitCandidate, channels
  <2> QED
    BY <2>1, <2>2 DEF IInv
<1>5. ASSUME StopProposer
      PROVE  IInv'
  <2>1. TypeOK'
    BY <1>5 DEF IInv, TypeOK, StopProposer, channels, followerVars, counters
  <2>2. StagesStopped' /\ NoEarlyFinish'
    BY <1>5 DEF IInv, StagesStopped, NoEarlyFinish, Ending, StopProposer, channels
  <2> QED
    BY <2>1, <2>2 DEF IInv
<1> QED
  BY <1>1, <1>2, <1>3, <1>4, <1>5

LEMMA ContentStep ==
    ASSUME IInv, NEW f \in Followers, SendContent(f)
    PROVE  IInv'
<1>1. /\ UNCHANGED <<up, holding, localOrderChan, verified, followerVars, stages, expired, main,
                     peers, counters>>
      /\ late' = late \ {f} /\ Send(f, [type |-> "tx"])
  BY DEF SendContent
<1>2. down' \in [Followers -> Seq(Down)]
      /\ ((\A g \in Followers : NoFinishIn(down[g])) => \A g \in Followers : NoFinishIn(down'[g]))
  BY <1>1, DownTypes, SendCorrect DEF IInv
<1>3. TypeOK'
  BY <1>1, <1>2 DEF IInv, TypeOK, followerVars, stages, counters
<1>4. StagesStopped' /\ NoEarlyFinish'
  BY <1>1, <1>2 DEF IInv, StagesStopped, NoEarlyFinish, Ending, stages
<1> QED
  BY <1>3, <1>4 DEF IInv

(* A follower answers at most one message, a finish marker with its like. *)
LEMMA FollowerStep ==
    ASSUME IInv, NEW f \in Followers, HandleDown(f)
    PROVE  IInv'
<1> DEFINE message == Head(down[f])
           ack == [type |-> "verified", from |-> f, seq |-> message.seq,
                   accepted |-> Verifies(f, message.seq)]
           finish == [type |-> "finish", from |-> f]
<1>0. down \in [Followers -> Seq(Down)] /\ down[f] \in Seq(Down) /\ down[f] # <<>>
      /\ up \in [Replicas -> Seq(Up)] /\ up[f] \in Seq(Up) /\ f \in Replicas
  BY DEF IInv, TypeOK, Up, HandleDown, Followers
<1>1. /\ Tail(down[f]) \in Seq(Down) /\ message \in Down
      /\ NoFinishIn(down[f]) => NoFinishIn(Tail(down[f])) /\ message.type # "finish"
  BY <1>0, NoFinishTail
<1>2. down' = [down EXCEPT ![f] = Tail(down[f])]
  BY DEF HandleDown
<1>3. down' \in [Followers -> Seq(Down)]
      /\ ((\A g \in Followers : NoFinishIn(down[g])) => \A g \in Followers : NoFinishIn(down'[g]))
  BY <1>0, <1>1, <1>2, QueueUpdate
<1>4. UNCHANGED <<holding, localOrderChan, verified, stages, late, expired, main, peers, counters>>
  BY DEF HandleDown
<1>5. Verifies(f, message.seq) \in BOOLEAN
  BY DEF Verifies
<1>6. applied' \in [Followers -> Nat] /\ holds' \in [Followers -> BOOLEAN]
      /\ lacks' \in [Followers -> BOOLEAN]
  <2> HIDE DEF message
  <2>1. holds[f] \/ Verifies(f, message.seq) \in BOOLEAN
    BY <1>5 DEF IInv, TypeOK
  <2>2. /\ applied' \in {applied, [applied EXCEPT ![f] = @ + 1]}
        /\ holds' \in {holds, [holds EXCEPT ![f] = FALSE],
                       [holds EXCEPT ![f] = holds[f] \/ Verifies(f, message.seq)]}
        /\ lacks' \in {lacks, [lacks EXCEPT ![f] = FALSE]}
    BY DEF HandleDown, message
  <2>3. /\ applied \in [Followers -> Nat] /\ applied[f] + 1 \in Nat
        /\ holds \in [Followers -> BOOLEAN] /\ lacks \in [Followers -> BOOLEAN]
    BY DEF IInv, TypeOK
  <2>4. applied' \in [Followers -> Nat]
    BY <2>2, <2>3
  <2>5. holds' \in [Followers -> BOOLEAN]
    <3> DEFINE answer == holds[f] \/ Verifies(f, message.seq)
    <3>1. answer \in BOOLEAN
      BY <2>1
    <3>2. holds' \in {holds, [holds EXCEPT ![f] = FALSE], [holds EXCEPT ![f] = answer]}
      BY <2>2
    <3> HIDE DEF answer
    <3> QED
      BY <2>3, <3>1, <3>2
  <2>6. lacks' \in [Followers -> BOOLEAN]
    BY <2>2, <2>3
  <2> QED
    BY <2>4, <2>5, <2>6
<1>7. up' \in [Replicas -> Seq(Up)]
      /\ ((\A q \in Replicas : NoFinishIn(up[q])) /\ message.type # "finish"
            => \A q \in Replicas : NoFinishIn(up'[q]))
  <2>1. \/ UNCHANGED up
        \/ message.type = "candidate" /\ up' = [up EXCEPT ![f] = Append(up[f], ack)]
        \/ message.type = "finish" /\ up' = [up EXCEPT ![f] = Append(up[f], finish)]
    BY DEF HandleDown
  <2>2. message.type = "candidate" => ack \in Up /\ ack.type # "finish"
    <3>1. message.type = "candidate" => message.seq \in Nat
      BY <1>1, DownTypes
    <3> QED
      BY <1>5, <3>1 DEF Up, Ack
  <2>3. finish \in Up
    BY DEF Up, FinishAck
  <2> HIDE DEF message, ack, finish
  <2>4. CASE message.type = "candidate" /\ up' = [up EXCEPT ![f] = Append(up[f], ack)]
    <3>1. Append(up[f], ack) \in Seq(Up) /\ (NoFinishIn(up[f]) => NoFinishIn(Append(up[f], ack)))
      BY <1>0, <2>2, <2>4, NoFinishAppend
    <3> QED
      BY <1>0, <2>4, <3>1, QueueUpdate
  <2>5. CASE message.type = "finish" /\ up' = [up EXCEPT ![f] = Append(up[f], finish)]
    <3>1. Append(up[f], finish) \in Seq(Up)
      BY <1>0, <2>3, NoFinishAppend
    <3> QED
      BY <1>0, <2>5, <3>1, QueueUpdate
  <2>6. CASE UNCHANGED up
    BY <1>0, <2>6
  <2> QED
    BY <2>1, <2>4, <2>5, <2>6
<1>8. TypeOK'
  BY <1>3, <1>4, <1>6, <1>7 DEF IInv, TypeOK, Up, stages, counters
<1>9. StagesStopped' /\ NoEarlyFinish'
  <2> HIDE DEF message, ack, finish
  <2> QED
    BY <1>1, <1>3, <1>4, <1>7 DEF IInv, StagesStopped, NoEarlyFinish, Ending, stages
<1> QED
  BY <1>8, <1>9 DEF IInv

LEMMA EndStep ==
    ASSUME IInv, Expire \/ CancelPipeline \/ Finish \/ ReceiveFinish \/ ShutDown
                 \/ \E f \in Followers : SendFinish(f)
    PROVE  IInv'
<1>1. ASSUME Expire
      PROVE  IInv'
  <2>1. TypeOK'
    BY <1>1 DEF IInv, TypeOK, Expire, channels, followerVars, stages, counters
  <2>2. StagesStopped' /\ NoEarlyFinish'
    BY <1>1 DEF IInv, StagesStopped, NoEarlyFinish, Ending, Expire, channels, stages
  <2> QED
    BY <2>1, <2>2 DEF IInv
<1>2. ASSUME CancelPipeline
      PROVE  IInv'
  <2>1. TypeOK'
    BY <1>2 DEF IInv, TypeOK, CancelPipeline, channels, followerVars, stages, counters
  <2>2. StagesStopped' /\ NoEarlyFinish'
    BY <1>2 DEF IInv, StagesStopped, NoEarlyFinish, Ending, CancelPipeline, channels, stages
  <2> QED
    BY <2>1, <2>2 DEF IInv
<1>3. ASSUME Finish
      PROVE  IInv'
  <2>1. TypeOK'
    BY <1>3, ReplicaAssumption DEF IInv, TypeOK, Finish, channels, followerVars, counters
  <2>2. StagesStopped' /\ NoEarlyFinish'
    BY <1>3 DEF StagesStopped, NoEarlyFinish, Ending, Finish, StagesDone
  <2> QED
    BY <2>1, <2>2 DEF IInv
<1>4. ASSUME ReceiveFinish
      PROVE  IInv'
  <2>1. verified \in Seq(Ack \cup FinishAck) /\ verified # <<>>
        /\ Len(verified) \in Nat /\ Len(verified) <= 2 * N /\ 2 * N \in Nat
    BY <1>4, ReplicaAssumption DEF IInv, TypeOK, ReceiveFinish
  <2>2. Tail(verified) \in Seq(Ack \cup FinishAck) /\ Head(verified) \in Ack \cup FinishAck
        /\ Len(Tail(verified)) = Len(verified) - 1
    BY <2>1, NoFinishTail
  <2>3. Head(verified).from \in Replicas
    BY <2>2, MessageTypes DEF Followers
  <2>4. verified' = Tail(verified) /\ main = "finish"
        /\ UNCHANGED <<up, down, holding, localOrderChan, followerVars, stages, late, expired, main,
                       counters>>
    BY <1>4 DEF ReceiveFinish
  <2>5. peers' \subseteq Replicas
    BY <1>4, <2>3 DEF IInv, TypeOK, ReceiveFinish
  <2>6. verified' \in Seq(Ack \cup FinishAck) /\ Len(verified') <= 2 * N
    BY <2>1, <2>2, <2>4
  <2>7. TypeOK'
    BY <2>4, <2>5, <2>6 DEF IInv, TypeOK, followerVars, stages, counters
  <2>8. StagesStopped' /\ NoEarlyFinish'
    BY <2>4 DEF IInv, StagesStopped, NoEarlyFinish, Ending, stages
  <2> QED
    BY <2>7, <2>8 DEF IInv
<1>5. ASSUME ShutDown
      PROVE  IInv'
  <2>1. TypeOK'
    BY <1>5 DEF IInv, TypeOK, ShutDown, channels, followerVars, stages, counters
  <2>2. StagesStopped' /\ NoEarlyFinish'
    BY <1>5 DEF IInv, StagesStopped, NoEarlyFinish, Ending, ShutDown, channels, stages
  <2> QED
    BY <2>1, <2>2 DEF IInv
<1>6. ASSUME NEW f \in Followers, SendFinish(f)
      PROVE  IInv'
  <2>1. /\ main = "finish" /\ Send(f, [type |-> "finish"]) /\ todo' = todo \ {f}
        /\ UNCHANGED <<up, holding, localOrderChan, verified, followerVars, collector, collected,
                       gate, accepted, committed, late, expired, main, peers, counters>>
    BY <1>6 DEF SendFinish
  <2>2. down' \in [Followers -> Seq(Down)]
    BY <2>1, DownTypes, SendCorrect DEF IInv
  <2>3. TypeOK'
    BY <2>1, <2>2 DEF IInv, TypeOK, followerVars, counters
  <2>4. StagesStopped' /\ NoEarlyFinish'
    BY <2>1 DEF IInv, StagesStopped, NoEarlyFinish, Ending
  <2> QED
    BY <2>3, <2>4 DEF IInv
<1> QED
  BY <1>1, <1>2, <1>3, <1>4, <1>5, <1>6

-----------------------------------------------------------------------------
(* The theorems. *)

LEMMA StepCorrect == IInv /\ [Next]_vars => IInv'
<1> SUFFICES ASSUME IInv, [Next]_vars PROVE IInv'
  OBVIOUS
<1>1. CASE UNCHANGED vars
  <2>1. TypeOK'
    BY <1>1 DEF IInv, TypeOK, vars, channels, followerVars, stages, counters
  <2>2. StagesStopped' /\ NoEarlyFinish'
    BY <1>1 DEF IInv, StagesStopped, NoEarlyFinish, Ending, vars, channels, stages
  <2> QED
    BY <2>1, <2>2 DEF IInv
<1>2. CASE Next
  <2>1. CASE WorkerStep
    BY <2>1, WorkerStepCorrect
  <2>2. CASE CollectorStep \/ RoundDone \/ StopCollector
    BY <2>2, CollectorStepCorrect
  <2>3. CASE ConstructCandidate \/ ReceiveVerified \/ AbandonExpired \/ CommitCandidate
             \/ StopProposer
    BY <2>3, ProposeStep
  <2>4. CASE \E f \in Followers : SendCandidate(f) \/ SendCommit(f)
    BY <2>4, FanoutStep
  <2>5. CASE MainStep \/ Expire
    BY <2>5, EndStep DEF MainStep
  <2>6. CASE SubmitterStep
    BY <2>6, ContentStep DEF SubmitterStep
  <2>7. CASE \E r \in Replicas : SendLocalOrder(r)
    BY <2>7, OrderStep
  <2>8. CASE \E f \in Followers : HandleDown(f)
    BY <2>8, FollowerStep
  <2> QED
    BY <1>2, <2>1, <2>2, <2>3, <2>4, <2>5, <2>6, <2>7, <2>8 DEF Next, ProposerStep
<1> QED
  BY <1>1, <1>2

(* The inductive invariant: types with the channels' capacities, stages     *)
(* that stay stopped once Stop has waited for them, and no finish            *)
(* acknowledgement before there is a finish marker.                          *)
THEOREM Invariance == Spec => []IInv
  BY InitCorrect, StepCorrect, PTL DEF Spec

(* Every variable keeps its type and no channel exceeds its capacity         *)
(* (NewOFOService, runDistributedMode), whatever the worker is given.        *)
THEOREM TypeCorrect == Spec => []TypeOK
<1>1. IInv => TypeOK
  BY DEF IInv
<1> QED
  BY <1>1, Invariance, PTL

(* Propose's type assertion cannot fail (auth_adapter.go:377): while it      *)
(* reads hosting.verified only verifications are in it.                      *)
THEOREM GateReadsVerifications == Spec => []OnlyVerificationsRead
<1>1. IInv => OnlyVerificationsRead
  <2> SUFFICES ASSUME IInv, gate = "wait", verified # <<>>
               PROVE  Head(verified).type = "verified"
    BY DEF OnlyVerificationsRead
  <2>1. ~Ending
    BY DEF IInv, StagesStopped
  <2>2. verified \in Seq(Ack \cup FinishAck) /\ NoFinishIn(verified)
    BY <2>1 DEF IInv, TypeOK, NoEarlyFinish
  <2>3. Head(verified) \in Ack \cup FinishAck /\ Head(verified).type # "finish"
    BY <2>2, NoFinishTail
  <2> QED
    BY <2>3 DEF Ack, FinishAck
<1> QED
  BY <1>1, Invariance, PTL

-----------------------------------------------------------------------------
(* What is in a queue, in which order, and how much of a type. *)

Elements(q) == {q[i] : i \in DOMAIN q}
InOrder(q) == {<<q[k[1]], q[k[2]]>> : k \in {k \in (DOMAIN q) \X (DOMAIN q) : k[1] < k[2]}}
Positions(q, type) == {i \in DOMAIN q : q[i].type = type}
Number(q, type) == Cardinality(Positions(q, type))

(* A queue without its head. *)
LEMMA TailFacts ==
    ASSUME NEW T, NEW q \in Seq(T), q # <<>>
    PROVE  /\ Head(q) \in T /\ Tail(q) \in Seq(T)
           /\ Elements(q) = {Head(q)} \cup Elements(Tail(q))
           /\ InOrder(Tail(q)) \subseteq InOrder(q)
           /\ \A x \in Elements(Tail(q)) : <<Head(q), x>> \in InOrder(q)
<1>1. /\ Len(q) \in Nat \ {0} /\ DOMAIN q = 1 .. Len(q) /\ Head(q) = q[1] /\ Head(q) \in T
      /\ Tail(q) \in Seq(T) /\ DOMAIN Tail(q) = 1 .. Len(q) - 1
      /\ \A i \in 1 .. Len(q) - 1 : Tail(q)[i] = q[i + 1]
  OBVIOUS
<1>2. Elements(q) = {Head(q)} \cup Elements(Tail(q))
  <2>1. ASSUME NEW i \in 1 .. Len(q)  PROVE q[i] \in {Head(q)} \cup Elements(Tail(q))
    <3>1. CASE i = 1
      BY <1>1, <3>1
    <3>2. CASE i # 1
      <4>1. i - 1 \in 1 .. Len(q) - 1 /\ Tail(q)[i - 1] = q[i]
        BY <1>1, <3>2
      <4> QED  BY <1>1, <4>1 DEF Elements
    <3> QED  BY <3>1, <3>2
  <2>2. ASSUME NEW i \in 1 .. Len(q) - 1  PROVE Tail(q)[i] \in Elements(q)
    <3>1. i + 1 \in 1 .. Len(q) /\ Tail(q)[i] = q[i + 1]
      BY <1>1
    <3> QED  BY <1>1, <3>1 DEF Elements
  <2>3. Head(q) \in Elements(q)
    BY <1>1 DEF Elements
  <2> QED  BY <1>1, <2>1, <2>2, <2>3 DEF Elements
<1>3. InOrder(Tail(q)) \subseteq InOrder(q)
  <2> SUFFICES ASSUME NEW k \in (1 .. Len(q) - 1) \X (1 .. Len(q) - 1), k[1] < k[2]
               PROVE  <<Tail(q)[k[1]], Tail(q)[k[2]]>> \in InOrder(q)
    BY <1>1 DEF InOrder
  <2> DEFINE l == <<k[1] + 1, k[2] + 1>>
  <2>1. l \in (1 .. Len(q)) \X (1 .. Len(q)) /\ l[1] < l[2]
    BY <1>1
  <2>2. Tail(q)[k[1]] = q[l[1]] /\ Tail(q)[k[2]] = q[l[2]]
    BY <1>1
  <2> HIDE DEF l
  <2> QED  BY <1>1, <2>1, <2>2 DEF InOrder
<1>4. ASSUME NEW i \in 1 .. Len(q) - 1  PROVE <<Head(q), Tail(q)[i]>> \in InOrder(q)
  <2> DEFINE l == <<1, i + 1>>
  <2>1. l \in (1 .. Len(q)) \X (1 .. Len(q)) /\ l[1] < l[2]
    BY <1>1
  <2>2. Head(q) = q[l[1]] /\ Tail(q)[i] = q[l[2]]
    BY <1>1
  <2> HIDE DEF l
  <2> QED  BY <1>1, <2>1, <2>2 DEF InOrder
<1>5. \A x \in Elements(Tail(q)) : <<Head(q), x>> \in InOrder(q)
  BY <1>1, <1>4 DEF Elements
<1> QED  BY <1>1, <1>2, <1>3, <1>5

(* A queue with one more message. *)
LEMMA AppendFacts ==
    ASSUME NEW T, NEW q \in Seq(T), NEW m \in T
    PROVE  /\ Append(q, m) \in Seq(T)
           /\ Elements(Append(q, m)) = Elements(q) \cup {m}
           /\ InOrder(Append(q, m)) = InOrder(q) \cup {<<x, m>> : x \in Elements(q)}
<1> DEFINE s == Append(q, m)
           n == Len(q)
<1>1. /\ n \in Nat /\ DOMAIN q = 1 .. n /\ s \in Seq(T) /\ DOMAIN s = 1 .. n + 1
      /\ s[n + 1] = m /\ \A i \in 1 .. n : s[i] = q[i]
  OBVIOUS
<1> HIDE DEF s, n
<1>2. Elements(s) = Elements(q) \cup {m}
  <2>1. 1 .. n + 1 = (1 .. n) \cup {n + 1}
    BY <1>1
  <2> QED  BY <1>1, <2>1 DEF Elements
<1>3. ASSUME NEW k \in (1 .. n + 1) \X (1 .. n + 1), k[1] < k[2]
      PROVE  <<s[k[1]], s[k[2]]>> \in InOrder(q) \cup {<<x, m>> : x \in Elements(q)}
  <2>1. k[1] \in 1 .. n /\ s[k[1]] = q[k[1]]
    BY <1>1, <1>3
  <2>2. CASE k[2] = n + 1
    BY <1>1, <2>1, <2>2 DEF Elements
  <2>3. CASE k[2] # n + 1
    <3>1. k[2] \in 1 .. n /\ s[k[2]] = q[k[2]] /\ k \in (1 .. n) \X (1 .. n)
      BY <1>1, <2>1, <2>3
    <3> QED  BY <1>1, <1>3, <2>1, <3>1 DEF InOrder
  <2> QED  BY <2>2, <2>3
<1>4. ASSUME NEW k \in (1 .. n) \X (1 .. n), k[1] < k[2]
      PROVE  <<q[k[1]], q[k[2]]>> \in InOrder(s)
  <2>1. k \in (1 .. n + 1) \X (1 .. n + 1) /\ q[k[1]] = s[k[1]] /\ q[k[2]] = s[k[2]]
    BY <1>1
  <2> QED  BY <1>1, <1>4, <2>1 DEF InOrder
<1>5. ASSUME NEW i \in 1 .. n  PROVE <<q[i], m>> \in InOrder(s)
  <2> DEFINE l == <<i, n + 1>>
  <2>1. l \in (1 .. n + 1) \X (1 .. n + 1) /\ l[1] < l[2] /\ s[l[1]] = q[i] /\ s[l[2]] = m
    BY <1>1
  <2> HIDE DEF l
  <2> QED  BY <1>1, <2>1 DEF InOrder
<1>6. InOrder(s) \subseteq InOrder(q) \cup {<<x, m>> : x \in Elements(q)}
  <2> SUFFICES ASSUME NEW p \in InOrder(s)
               PROVE  p \in InOrder(q) \cup {<<x, m>> : x \in Elements(q)}
    OBVIOUS
  <2>1. PICK k \in (1 .. n + 1) \X (1 .. n + 1) : k[1] < k[2] /\ p = <<s[k[1]], s[k[2]]>>
    BY <1>1 DEF InOrder
  <2> QED  BY <1>3, <2>1
<1>7. InOrder(q) \subseteq InOrder(s)
  <2> SUFFICES ASSUME NEW p \in InOrder(q) PROVE p \in InOrder(s)
    OBVIOUS
  <2>1. PICK k \in (1 .. n) \X (1 .. n) : k[1] < k[2] /\ p = <<q[k[1]], q[k[2]]>>
    BY <1>1 DEF InOrder
  <2> QED  BY <1>4, <2>1
<1>8. {<<x, m>> : x \in Elements(q)} \subseteq InOrder(s)
  BY <1>1, <1>5 DEF Elements
<1> QED  BY <1>1, <1>2, <1>6, <1>7, <1>8 DEF s

-----------------------------------------------------------------------------
(* Counting. *)

One(m, type) == IF m.type = type THEN 1 ELSE 0

(* The messages of a type in a queue are finitely many. *)
LEMMA NumberType ==
    ASSUME NEW T, NEW q \in Seq(T), NEW type
    PROVE  IsFiniteSet(Positions(q, type)) /\ Number(q, type) \in Nat
<1>1. DOMAIN q = 1 .. Len(q) /\ Len(q) \in Nat
  OBVIOUS
<1>2. IsFiniteSet(1 .. Len(q)) /\ Positions(q, type) \subseteq 1 .. Len(q)
  BY <1>1, FS_Interval DEF Positions
<1> QED  BY <1>2, FS_Subset, FS_CardinalityType DEF Number

(* Appending a message counts it. *)
LEMMA NumberAppend ==
    ASSUME NEW T, NEW q \in Seq(T), NEW m \in T, NEW type
    PROVE  Number(Append(q, m), type) = Number(q, type) + One(m, type)
<1> DEFINE s == Append(q, m)
           n == Len(q)
<1>1. /\ n \in Nat /\ DOMAIN q = 1 .. n /\ DOMAIN s = 1 .. n + 1
      /\ s[n + 1] = m /\ \A i \in 1 .. n : s[i] = q[i]
  OBVIOUS
<1> HIDE DEF s, n
<1>2. IsFiniteSet(Positions(q, type)) /\ Number(q, type) \in Nat
  BY NumberType
<1>3. n + 1 \notin Positions(q, type)
  BY <1>1 DEF Positions
<1>4. CASE m.type = type
  <2>1. Positions(s, type) = Positions(q, type) \cup {n + 1}
    BY <1>1, <1>4 DEF Positions
  <2> QED  BY <1>2, <1>3, <1>4, <2>1, FS_AddElement DEF Number, One, s
<1>5. CASE m.type # type
  <2>1. Positions(s, type) = Positions(q, type)
    BY <1>1, <1>5 DEF Positions
  <2> QED  BY <1>2, <1>5, <2>1 DEF Number, One, s
<1> QED  BY <1>4, <1>5

(* Taking the head takes it off the count. *)
LEMMA NumberTail ==
    ASSUME NEW T, NEW q \in Seq(T), q # <<>>, NEW type
    PROVE  Number(q, type) = Number(Tail(q), type) + One(Head(q), type)
<1> DEFINE s == Tail(q)
           n == Len(q)
           shift == [i \in Positions(s, type) |-> i + 1]
           rest == Positions(q, type) \ {1}
<1>1. /\ n \in Nat \ {0} /\ DOMAIN q = 1 .. n /\ Head(q) = q[1] /\ s \in Seq(T)
      /\ DOMAIN s = 1 .. n - 1 /\ \A i \in 1 .. n - 1 : s[i] = q[i + 1]
  OBVIOUS
<1>2. /\ IsFiniteSet(Positions(q, type)) /\ Number(q, type) \in Nat
      /\ IsFiniteSet(Positions(s, type)) /\ Number(s, type) \in Nat
  BY <1>1, NumberType
<1> HIDE DEF s, n
<1>3. shift \in Bijection(Positions(s, type), rest)
  <2>1. \A i \in Positions(s, type) : i \in Nat /\ shift[i] = i + 1 /\ shift[i] \in rest
    BY <1>1 DEF Positions
  <2>2. \A i \in rest : i - 1 \in Positions(s, type) /\ shift[i - 1] = i
    BY <1>1 DEF Positions
  <2>3. shift \in [Positions(s, type) -> rest]
    <3> HIDE DEF rest
    <3> QED  BY <2>1
  <2>4. \A i, j \in Positions(s, type) : shift[i] = shift[j] => i = j
    BY <2>1
  <2> HIDE DEF shift, rest
  <2> QED  BY <2>2, <2>3, <2>4
           DEF Bijection, Injection, Surjection, IsInjective
<1>4. Cardinality(rest) = Number(s, type) /\ IsFiniteSet(rest)
  <2> HIDE DEF shift, rest
  <2> QED  BY <1>2, <1>3, FS_Bijection DEF Number, ExistsBijection
<1>5. CASE q[1].type = type
  <2>1. 1 \in Positions(q, type)
    BY <1>1, <1>5 DEF Positions
  <2>2. Cardinality(rest) = Number(q, type) - 1
    BY <1>2, <2>1, FS_RemoveElement DEF Number
  <2> QED  BY <1>1, <1>2, <1>4, <1>5, <2>2 DEF One, s
<1>6. CASE q[1].type # type
  <2>1. rest = Positions(q, type)
    BY <1>6 DEF Positions
  <2>2. Cardinality(rest) = Number(q, type)
    BY <2>1 DEF Number
  <2> HIDE DEF rest
  <2> QED  BY <1>1, <1>2, <1>4, <1>6, <2>2 DEF One, s
<1> QED  BY <1>5, <1>6

(* Of a type in all the queues of a family. *)
Spots(qs, type) ==
    UNION {{d} \X Positions(qs[d], type) : d \in DOMAIN qs}
Total(qs, type) == Cardinality(Spots(qs, type))

(* The places in finitely many queues are finite. *)
LEMMA SpotsFinite ==
    ASSUME NEW D, IsFiniteSet(D), NEW T, NEW qs \in [D -> Seq(T)], NEW type
    PROVE  IsFiniteSet(Spots(qs, type)) /\ Total(qs, type) \in Nat
<1> DEFINE parts == {{d} \X Positions(qs[d], type) : d \in D}
           part == [d \in D |-> {d} \X Positions(qs[d], type)]
<1>1. \A d \in D : IsFiniteSet({d} \X Positions(qs[d], type))
  <2> TAKE d \in D
  <2>1. IsFiniteSet({d})
    BY FS_Singleton
  <2>2. IsFiniteSet(Positions(qs[d], type))
    BY NumberType
  <2> QED  BY <2>1, <2>2, FS_Product
<1>2. IsFiniteSet(parts)
  <2>1. part \in Surjection(D, parts)
    BY DEF Surjection
  <2> HIDE DEF part, parts
  <2> QED  BY <2>1, FS_Surjection
<1>3. IsFiniteSet(UNION parts)
  <2>1. \A S \in parts : IsFiniteSet(S)
    BY <1>1
  <2> HIDE DEF parts
  <2> QED  BY <1>2, <2>1, FS_UNION
<1>4. Spots(qs, type) = UNION parts
  BY DEF Spots
<1> QED  BY <1>3, <1>4, FS_CardinalityType DEF Total

(* Changing one of the queues changes the total by the difference. *)
Changed(new, qs, D, T, d) ==
    /\ qs \in [D -> Seq(T)] /\ new \in [D -> Seq(T)]
    /\ d \in D /\ \A e \in D \ {d} : new[e] = qs[e]

(* The total changes by the difference in the queue that changes. *)
LEMMA TotalUpdate ==
    ASSUME NEW D, IsFiniteSet(D), NEW T, NEW qs, NEW d, NEW new, Changed(new, qs, D, T, d),
           NEW type
    PROVE  Total(new, type) + Number(qs[d], type) = Total(qs, type) + Number(new[d], type)
<1> DEFINE q == new[d]
           rest == UNION {{e} \X Positions(qs[e], type) : e \in D \ {d}}
           old == {d} \X Positions(qs[d], type)
           fresh == {d} \X Positions(q, type)
<1>1. /\ qs \in [D -> Seq(T)] /\ d \in D /\ qs[d] \in Seq(T) /\ q \in Seq(T)
      /\ new \in [D -> Seq(T)] /\ new[d] = q /\ \A e \in D \ {d} : new[e] = qs[e]
  BY DEF Changed
<1> HIDE DEF q
<1>2. Spots(qs, type) = rest \cup old
  <2>1. DOMAIN qs = D
    BY <1>1
  <2>2. Spots(qs, type) = UNION {{e} \X Positions(qs[e], type) : e \in D}
    BY <2>1 DEF Spots
  <2> HIDE DEF rest, old
  <2>3. ASSUME NEW p \in Spots(qs, type)  PROVE p \in rest \cup old
    <3>1. PICK e \in D : p \in {e} \X Positions(qs[e], type)
      BY <2>2
    <3> QED  BY <1>1, <3>1 DEF rest, old
  <2>4. rest \subseteq Spots(qs, type)
    BY <2>2 DEF rest
  <2>5. old \subseteq Spots(qs, type)
    BY <1>1, <2>1 DEF Spots, old
  <2> QED  BY <2>3, <2>4, <2>5
<1>3. Spots(new, type) = rest \cup fresh
  <2>1. DOMAIN new = D
    BY <1>1
  <2>2. \A e \in D : e # d => {e} \X Positions(new[e], type) = {e} \X Positions(qs[e], type)
    BY <1>1
  <2>3. {d} \X Positions(new[d], type) = fresh
    BY <1>1
  <2>4. ASSUME NEW p \in Spots(new, type)  PROVE p \in rest \cup fresh
    <3>1. PICK e \in D : p \in {e} \X Positions(new[e], type)
      BY <2>1 DEF Spots
    <3> QED  BY <2>2, <2>3, <3>1
  <2>5. rest \subseteq Spots(new, type)
    BY <2>1, <2>2 DEF Spots
  <2>6. fresh \subseteq Spots(new, type)
    <3>1. {d} \X Positions(new[d], type) \subseteq Spots(new, type)
      BY <1>1, <2>1 DEF Spots
    <3> QED  BY <2>3, <3>1
  <2> HIDE DEF rest, fresh
  <2> QED  BY <2>4, <2>5, <2>6
<1>4. IsFiniteSet(rest \cup old) /\ IsFiniteSet(rest \cup fresh)
  <2> HIDE DEF rest, old, fresh
  <2>1. IsFiniteSet(Spots(qs, type))
    BY <1>1, SpotsFinite
  <2>2. IsFiniteSet(Spots(new, type))
    BY <1>1, SpotsFinite
  <2> QED  BY <1>2, <1>3, <2>1, <2>2
<1>5. rest \cap old = {} /\ rest \cap fresh = {}
  OBVIOUS
<1>6. /\ IsFiniteSet({d}) /\ Cardinality({d}) = 1
      /\ IsFiniteSet(Positions(qs[d], type)) /\ Number(qs[d], type) \in Nat
      /\ IsFiniteSet(Positions(q, type)) /\ Number(q, type) \in Nat
  BY <1>1, FS_Singleton, NumberType
<1>7. /\ IsFiniteSet(old) /\ Cardinality(old) = Number(qs[d], type)
      /\ IsFiniteSet(fresh) /\ Cardinality(fresh) = Number(q, type)
  <2>1. \A n \in Nat : 1 * n = n
    OBVIOUS
  <2>2. IsFiniteSet(old) /\ Cardinality(old) = 1 * Number(qs[d], type)
    BY <1>6, FS_Product DEF Number
  <2>3. IsFiniteSet(fresh) /\ Cardinality(fresh) = 1 * Number(q, type)
    BY <1>6, FS_Product DEF Number
  <2> HIDE DEF old, fresh
  <2> QED  BY <1>6, <2>1, <2>2, <2>3
<1> HIDE DEF rest, old, fresh
<1>8. IsFiniteSet(rest) /\ Cardinality(rest) \in Nat
  BY <1>4, FS_Subset, FS_CardinalityType
<1>9. /\ Cardinality(rest \cup old) = Cardinality(rest) + Number(qs[d], type)
      /\ Cardinality(rest \cup fresh) = Cardinality(rest) + Number(q, type)
  <2>1. /\ Cardinality(rest \cup old)
                = Cardinality(rest) + Cardinality(old) - Cardinality({})
        /\ Cardinality(rest \cup fresh)
                = Cardinality(rest) + Cardinality(fresh) - Cardinality({})
    BY <1>5, <1>7, <1>8, FS_Union
  <2> QED  BY <1>6, <1>7, <1>8, <2>1, FS_EmptySet
<1>10. Total(qs, type) = Cardinality(rest \cup old) /\ Total(new, type) = Cardinality(rest \cup fresh)
  BY <1>2, <1>3 DEF Total
<1>11. Total(new, type) + Number(qs[d], type) = Total(qs, type) + Number(q, type)
  BY <1>6, <1>8, <1>9, <1>10
<1> QED  BY <1>11 DEF q

-----------------------------------------------------------------------------
(* What a follower has been asked and not answered, what it has answered and *)
(* the worker not delivered, and what Propose has not read yet: the numbers  *)
(* of the fragments.                                                         *)

IsAck(m, f) == m.type = "verified" /\ m.from = f

Asked(f) == {m.seq : m \in {x \in Elements(down[f]) : x.type = "candidate"}}
Answered(f) == {m.seq : m \in {x \in Elements(up[f]) \cup {holding} : IsAck(x, f)}}
Waiting(f) == {m.seq : m \in {x \in Elements(verified) : IsAck(x, f)}}
Owes(f) == Asked(f) \cup Answered(f) \cup Waiting(f)

(* All of them together, repetitions counted. *)
Unread ==
    Total(down, "candidate") + Total(up, "verified") + One(holding, "verified") + Len(verified)

(* The followers are a finite set. *)
LEMMA FollowersFinite ==
    /\ IsFiniteSet(Replicas) /\ Cardinality(Replicas) = N /\ IsFiniteSet(Followers)
    /\ Cardinality(Followers) = N - 1 /\ Followers \subseteq Replicas /\ Leader \in Replicas
<1>1. /\ N \in Nat \ {0} /\ Leader \in Replicas
  BY ReplicaAssumption
<1>2. IsFiniteSet(Replicas) /\ Cardinality(Replicas) = N
  BY <1>1, FS_Interval DEF Replicas
<1>3. IsFiniteSet(Followers) /\ Cardinality(Followers) = Cardinality(Replicas) - 1
  BY <1>1, <1>2, FS_RemoveElement DEF Followers
<1> QED  BY <1>1, <1>2, <1>3 DEF Followers

(* What the messages are before the end of a run. *)
MessagesTyped ==
    /\ \A r \in Replicas : Elements(up[r]) \subseteq Order \cup Ack
    /\ Elements(verified) \subseteq Ack
    /\ Elements(localOrderChan) \subseteq Order
    /\ holding \in Order \cup Ack \cup {NoMessage}
    /\ \A f \in Followers : Elements(down[f]) \subseteq Down

(* While the run goes on no finish marker is in a queue, so these are the  *)
(* types.                                                                  *)
LEMMA MessagesHaveTypes ==
    ASSUME IInv, main = "run"
    PROVE  MessagesTyped
<1>1. TypeOK /\ ~Ending
  BY DEF IInv, Ending
<1>2. /\ \A r \in Replicas : NoFinishIn(up[r])
      /\ holding.type # "finish" /\ NoFinishIn(verified)
  BY <1>1 DEF IInv, NoEarlyFinish
<1>3. \A m \in FinishAck : m.type = "finish"
  BY DEF FinishAck
<1>4. ASSUME NEW r \in Replicas  PROVE Elements(up[r]) \subseteq Order \cup Ack
  <2>1. up[r] \in Seq(Order \cup Ack \cup FinishAck)
    BY <1>1 DEF TypeOK
  <2>2. \A i \in DOMAIN up[r] : up[r][i] \in Order \cup Ack \cup FinishAck /\ up[r][i].type # "finish"
    BY <1>2, <2>1 DEF NoFinishIn
  <2> QED  BY <1>3, <2>2 DEF Elements
<1>5. Elements(verified) \subseteq Ack
  <2>1. \A i \in DOMAIN verified : verified[i] \in Ack \cup FinishAck /\ verified[i].type # "finish"
    BY <1>1, <1>2 DEF NoFinishIn, TypeOK
  <2> QED  BY <1>3, <2>1 DEF Elements
<1>6. Elements(localOrderChan) \subseteq Order
  BY <1>1 DEF TypeOK, Elements
<1>7. holding \in Order \cup Ack \cup {NoMessage}
  BY <1>1, <1>2, <1>3 DEF TypeOK
<1>8. ASSUME NEW f \in Followers  PROVE Elements(down[f]) \subseteq Down
  <2>1. down[f] \in Seq(Down)
    BY <1>1 DEF TypeOK
  <2> QED  BY <2>1 DEF Elements
<1> QED  BY <1>4, <1>5, <1>6, <1>7, <1>8 DEF MessagesTyped

(* The fields of a message. *)
LEMMA Fields ==
    /\ \A m \in Order : m.type = "order" /\ m.from \in Replicas /\ m.seq \in Nat
    /\ \A m \in Ack : /\ m.type = "verified" /\ m.from \in Followers /\ m.from \in Replicas
                      /\ m.seq \in Nat /\ m.accepted \in BOOLEAN
    /\ NoMessage.type = "none"
    /\ \A m \in Down : m.type \in {"candidate", "commit"} => m.seq \in Nat
    /\ \A m \in Down : m.type \in {"tx", "candidate", "commit", "finish"}
  BY DEF Order, Ack, NoMessage, Down, Followers

(* Fragments are numbered by naturals. *)
LEMMA FragmentNumbers ==
    ASSUME MessagesTyped, NEW f \in Followers
    PROVE  Asked(f) \subseteq Nat /\ Answered(f) \subseteq Nat /\ Waiting(f) \subseteq Nat
  BY Fields, FollowersFinite DEF MessagesTyped, Asked, Answered, Waiting, IsAck

(* The unread answers are a natural number. *)
LEMMA UnreadType ==
    ASSUME TypeOK
    PROVE  /\ Total(down, "candidate") \in Nat /\ Total(up, "verified") \in Nat
           /\ One(holding, "verified") \in Nat /\ Len(verified) \in Nat /\ Unread \in Nat
<1>1. Total(down, "candidate") \in Nat
  BY SpotsFinite, FollowersFinite DEF TypeOK
<1>2. Total(up, "verified") \in Nat
  BY SpotsFinite, FollowersFinite DEF TypeOK
<1>3. One(holding, "verified") \in Nat /\ Len(verified) \in Nat
  BY DEF One, TypeOK
<1> QED  BY <1>1, <1>2, <1>3 DEF Unread

-----------------------------------------------------------------------------
(* The inductive invariant, which holds until the deadline. *)

(* Where the stages are. *)
Progressing ==
    /\ main = "run" /\ gate # "stopped" /\ collector # "stopped"
    /\ collector = "collect" <=> gate = "idle"
    /\ collector = "drain" => collected = {}
    /\ proposed \in {committed, committed + 1}
    /\ gate \in {"broadcast", "wait"} => proposed = committed + 1 /\ Leader \in accepted
    /\ gate = "broadcast" => accepted = {Leader}

(* A follower is asked about fragments it has not applied, and applies only  *)
(* what has been committed; a candidate behind a commit is of a later one.   *)
Downward ==
    \A f \in Followers :
        /\ applied[f] <= committed
        /\ \A s \in Asked(f) : applied[f] < s /\ s <= proposed
        /\ \A m \in Elements(down[f]) : m.type = "commit" => m.seq <= committed
        /\ \A p \in InOrder(down[f]) :
            p[1].type = "commit" /\ p[2].type = "candidate" => p[1].seq < p[2].seq

(* A follower reports for the fragment after its last one, behind all its    *)
(* answers for older ones.                                                   *)
Upward ==
    /\ \A r \in Replicas : \A m \in Elements(up[r]) : m.from = r
    /\ \A f \in Followers :
        /\ \A s \in Answered(f) \cup Waiting(f) : s <= proposed
        /\ \A m \in Elements(up[f]) : m.type = "order" => m.seq <= applied[f] + 1
        /\ \A p \in InOrder(up[f]) :
            p[1].type = "order" /\ p[2].type = "verified" => p[1].seq <= p[2].seq

(* When the order for a fragment has arrived, so have the answers for those  *)
(* before it.                                                                *)
Ready(f, s) == s <= applied[f] + 1 /\ \A t \in Asked(f) \cup Answered(f) : s <= t

Arrived ==
    /\ \A m \in {holding} \cup Elements(localOrderChan) :
        m.type = "order" /\ m.from \in Followers => Ready(m.from, m.seq)
    /\ \A r \in collected :
        Scheduled(r, committed + 1) /\ (r \in Followers => Ready(r, committed + 1))

(* The answers of a scheduled follower for older fragments are in the        *)
(* channel before the batch is complete, and have been read when one for the *)
(* new fragment is.                                                          *)
Cleared ==
    /\ \A f \in Followers : \A j \in 1 .. committed :
        Scheduled(f, j) => \A t \in Owes(f) : j <= t
    /\ gate = "construct" \/ proposed = committed + 1 =>
        \A f \in Followers : Scheduled(f, committed + 1) =>
            \A t \in Asked(f) \cup Answered(f) : committed + 1 <= t
    /\ \A p \in InOrder(verified) :
        p[1].seq = committed + 1 /\ Scheduled(p[2].from, committed + 1) => committed + 1 <= p[2].seq
    /\ gate = "wait" /\ accepted # {Leader} =>
        \A f \in Followers : Scheduled(f, committed + 1) =>
            \A t \in Waiting(f) : committed + 1 <= t

(* Who has been sent the candidate and not been counted still has to be.     *)
Owing ==
    /\ gate = "wait" => \A f \in Followers \ accepted : committed + 1 \in Owes(f)
    /\ gate = "broadcast" => \A f \in Followers \ todo : committed + 1 \in Owes(f)

(* The unread answers of the present attempt. *)
Current ==
    CASE gate = "broadcast" -> N - 1 - Cardinality(todo)
      [] gate = "wait" -> N - Cardinality(accepted)
      [] OTHER -> 0

(* Every unread answer is of an abandoned attempt, of the present one, or    *)
(* one of at most F of a committed fragment, from a follower that still owes *)
(* it.                                                                       *)
Of(debts, s) == {p \in debts : p[2] = s}
Debts(debts) ==
    /\ IsFiniteSet(debts) /\ debts \subseteq Followers \X (1 .. committed)
    /\ \A p \in debts : p[2] \in Owes(p[1])
    /\ \A s \in Nat : Cardinality(Of(debts, s)) <= F
    /\ Unread <= abandons * (N - 2) + Cardinality(debts) + Current

Accounted == \E debts : Debts(debts)

Running ==
    Progressing /\ Downward /\ Upward /\ Arrived /\ Cleared /\ Owing /\ Accounted
Backlog == IInv /\ (~expired => Running)

(* The initial states satisfy the invariant. *)
LEMMA InitBacklog == Init => Backlog
<1> SUFFICES ASSUME Init PROVE Backlog
  OBVIOUS
<1>1. /\ \A r \in Replicas : up[r] = <<>>
      /\ \A f \in Followers : down[f] = <<>>
      /\ verified = <<>> /\ localOrderChan = <<>> /\ holding = NoMessage
      /\ up \in [Replicas -> {<<>>}] /\ down \in [Followers -> {<<>>}]
  BY DEF Init
<1>2. /\ Elements(<<>>) = {} /\ InOrder(<<>>) = {} /\ Len(<<>>) = 0
      /\ \A type : Positions(<<>>, type) = {}
  BY DEF Elements, InOrder, Positions
<1>3. \A f \in Followers : Asked(f) = {} /\ Answered(f) = {} /\ Waiting(f) = {}
  BY <1>1, <1>2, FollowersFinite, Fields DEF Asked, Answered, Waiting, IsAck
<1>4. Progressing
  BY DEF Init, Progressing
<1>5. Downward
  BY <1>1, <1>2, <1>3 DEF Downward, Init
<1>6. Upward
  BY <1>1, <1>2, <1>3, FollowersFinite DEF Upward
<1>7. Arrived
  BY <1>1, <1>2, Fields DEF Arrived, Init
<1>8. Cleared
  BY <1>1, <1>2, <1>3 DEF Cleared, Owes, Init
<1>9. Owing
  BY DEF Owing, Init
<1>10. Unread = 0
  <2>1. Total(up, "verified") = 0
    <3>1. Spots(up, "verified") = {}
      BY <1>1, <1>2 DEF Spots
    <3> QED  BY <3>1, FS_EmptySet DEF Total
  <2>2. Total(down, "candidate") = 0
    <3>1. Spots(down, "candidate") = {}
      BY <1>1, <1>2 DEF Spots
    <3> QED  BY <3>1, FS_EmptySet DEF Total
  <2>3. One(holding, "verified") = 0
    BY <1>1, Fields DEF One
  <2> QED  BY <1>1, <1>2, <2>1, <2>2, <2>3 DEF Unread
<1>11. Debts({})
  <2>1. IsFiniteSet({}) /\ Cardinality({}) = 0
    BY FS_EmptySet
  <2>2. \A s : Of({}, s) = {}
    BY DEF Of
  <2>3. Current = 0 /\ abandons = 0
    BY DEF Init, Current
  <2>4. N \in Nat /\ F \in Nat
    BY ReplicaAssumption
  <2>5. 0 <= 0 * (N - 2) + 0 + 0
    BY <2>4
  <2> QED  BY <1>10, <2>1, <2>2, <2>3, <2>4, <2>5 DEF Debts
<1>12. Accounted
  BY <1>11 DEF Accounted
<1> QED
  BY <1>4, <1>5, <1>6, <1>7, <1>8, <1>9, <1>12, InitCorrect DEF Backlog, Running

-----------------------------------------------------------------------------
(* Messages on their way. *)

(* One queue of a family without its head. *)
LEMMA FamilyTail ==
    ASSUME NEW D, IsFiniteSet(D), NEW T, NEW qs, NEW d, NEW new, Changed(new, qs, D, T, d),
           NEW type
    PROVE  qs[d] # <<>> /\ new[d] = Tail(qs[d]) =>
                Total(qs, type) = Total(new, type) + One(Head(qs[d]), type)
<1> SUFFICES ASSUME qs[d] # <<>>, new[d] = Tail(qs[d])
             PROVE  Total(qs, type) = Total(new, type) + One(Head(qs[d]), type)
  OBVIOUS
<1>1. /\ qs \in [D -> Seq(T)] /\ new \in [D -> Seq(T)]
      /\ qs[d] \in Seq(T) /\ Tail(qs[d]) \in Seq(T) /\ d \in D
  BY DEF Changed
<1>2. Total(new, type) + Number(qs[d], type) = Total(qs, type) + Number(Tail(qs[d]), type)
  BY TotalUpdate
<1>3. Number(qs[d], type) = Number(Tail(qs[d]), type) + One(Head(qs[d]), type)
  BY <1>1, NumberTail
<1>4. Total(new, type) \in Nat /\ Total(qs, type) \in Nat
  BY <1>1, SpotsFinite
<1>5. Number(Tail(qs[d]), type) \in Nat /\ One(Head(qs[d]), type) \in Nat
  BY <1>1, NumberType DEF One
<1> QED  BY <1>2, <1>3, <1>4, <1>5

(* One queue of a family with one more message. *)
LEMMA FamilyAppend ==
    ASSUME NEW D, IsFiniteSet(D), NEW T, NEW qs, NEW d, NEW new, Changed(new, qs, D, T, d),
           NEW type
    PROVE  \A m \in T : new[d] = Append(qs[d], m) =>
                Total(new, type) = Total(qs, type) + One(m, type)
<1>0. Total(new, type) + Number(qs[d], type) = Total(qs, type) + Number(new[d], type)
  BY TotalUpdate
<1> SUFFICES ASSUME NEW m \in T, new[d] = Append(qs[d], m)
             PROVE  Total(new, type) = Total(qs, type) + One(m, type)
  OBVIOUS
<1>1. /\ qs \in [D -> Seq(T)] /\ new \in [D -> Seq(T)]
      /\ qs[d] \in Seq(T) /\ d \in D
  BY DEF Changed
<1>2. Total(new, type) + Number(qs[d], type) = Total(qs, type) + Number(Append(qs[d], m), type)
  BY <1>0
<1>3. Number(Append(qs[d], m), type) = Number(qs[d], type) + One(m, type)
  BY <1>1, NumberAppend
<1>4. Total(new, type) \in Nat /\ Total(qs, type) \in Nat
  BY <1>1, SpotsFinite
<1>5. Number(qs[d], type) \in Nat /\ One(m, type) \in Nat
  BY <1>1, NumberType DEF One
<1> QED  BY <1>2, <1>3, <1>4, <1>5

(* No answer is lost or counted twice: a step brings answers nearer to       *)
(* Propose only.                                                             *)
Moved ==
    /\ \A f \in Followers :
        /\ Asked(f)' \subseteq Asked(f) /\ Answered(f)' \subseteq Asked(f) \cup Answered(f)
        /\ Owes(f)' = Owes(f) /\ Waiting(f)' \subseteq Answered(f) \cup Waiting(f)
    /\ \A p \in InOrder(verified') :
        \/ p \in InOrder(verified)
        \/ p[1] \in Elements(verified) /\ p[2] \in Ack /\ p[2].seq \in Answered(p[2].from)
    /\ Unread' = Unread

(* A step that leaves the queues alone moves nothing. *)
LEMMA NothingMoved ==
    ASSUME UNCHANGED <<up, down, holding, verified>>
    PROVE  Moved
<1>1. up' = up /\ down' = down /\ holding' = holding /\ verified' = verified
  OBVIOUS
<1>2. ASSUME NEW f
      PROVE Asked(f)' = Asked(f) /\ Answered(f)' = Answered(f) /\ Waiting(f)' = Waiting(f)
  BY <1>1 DEF Asked, Answered, Waiting, IsAck
<1> QED  BY <1>1, <1>2 DEF Moved, Owes, Unread

(* One more message in the queue of a replica. *)
LEMMA TotalUp ==
    ASSUME NEW r, Changed(up', up, Replicas, Up, r), NEW m, m \in Up, up'[r] = Append(up[r], m)
    PROVE  Total(up', "verified") = Total(up, "verified") + One(m, "verified")
  BY FollowersFinite, FamilyAppend

(* A local order is no answer. *)
LEMMA OrderMoves ==
    ASSUME TypeOK, NEW r \in Replicas, NEW m \in Order, m.from = r,
           up' = [up EXCEPT ![r] = Append(@, m)], UNCHANGED <<down, holding, verified>>
    PROVE  Moved
<1>1. up \in [Replicas -> Seq(Order \cup Ack \cup FinishAck)] /\ m \in Order \cup Ack \cup FinishAck
  BY DEF TypeOK
<1>2. up'[r] = Append(up[r], m) /\ \A q \in Replicas \ {r} : up'[q] = up[q]
  BY <1>1
<1>7. Total(up', "verified") = Total(up, "verified") + One(m, "verified")
  <2>1. Changed(up', up, Replicas, Up, r)
    BY <1>1, <1>2 DEF Changed, Up
  <2>2. m \in Up /\ IsFiniteSet(Replicas)
    BY <1>1, FollowersFinite DEF Up
  <2>3. up'[r] = Append(up[r], m) =>
            Total(up', "verified") = Total(up, "verified") + One(m, "verified")
    BY <2>1, <2>2, TotalUp
  <2> QED  BY <1>2, <2>2, <2>3
<1>3. Elements(up'[r]) = Elements(up[r]) \cup {m}
  BY <1>1, <1>2, AppendFacts
<1>4. m.type # "verified" /\ One(m, "verified") = 0
  BY Fields DEF One
<1>5. ASSUME NEW f \in Followers
      PROVE  Asked(f)' = Asked(f) /\ Answered(f)' = Answered(f) /\ Waiting(f)' = Waiting(f)
  <2>1. Asked(f)' = Asked(f) /\ Waiting(f)' = Waiting(f)
    BY DEF Asked, Waiting, IsAck
  <2>2. {x \in Elements(up'[f]) \cup {holding'} : IsAck(x, f)}
            = {x \in Elements(up[f]) \cup {holding} : IsAck(x, f)}
    BY <1>2, <1>3, <1>4, FollowersFinite DEF IsAck
  <2> QED  BY <2>1, <2>2 DEF Answered, IsAck
<1>6. Unread' = Unread
  BY <1>4, <1>7, UnreadType DEF Unread
<1> QED  BY <1>5, <1>6 DEF Moved, Owes

(* Nor is a message to a follower that is no candidate. *)
LEMMA ContentMoves ==
    ASSUME TypeOK, NEW f \in Followers, NEW m \in Down, m.type # "candidate", Send(f, m),
           UNCHANGED <<up, holding, verified>>
    PROVE  Moved
<1>1. down \in [Followers -> Seq(Down)] /\ down' = [down EXCEPT ![f] = Append(@, m)]
  BY DEF TypeOK, Send
<1>2. down'[f] = Append(down[f], m) /\ \A g \in Followers \ {f} : down'[g] = down[g]
  BY <1>1
<1>7. Total(down', "candidate") = Total(down, "candidate") + One(m, "candidate")
  <2>1. Changed(down', down, Followers, Down, f)
    BY <1>1, <1>2 DEF Changed
  <2> QED  BY <1>2, <2>1, FollowersFinite, FamilyAppend
<1>3. Elements(down'[f]) = Elements(down[f]) \cup {m}
  BY <1>1, <1>2, AppendFacts
<1>4. One(m, "candidate") = 0
  BY DEF One
<1>5. ASSUME NEW g \in Followers
      PROVE  Asked(g)' = Asked(g) /\ Answered(g)' = Answered(g) /\ Waiting(g)' = Waiting(g)
  <2>1. Answered(g)' = Answered(g) /\ Waiting(g)' = Waiting(g)
    BY DEF Answered, Waiting, IsAck
  <2>2. {x \in Elements(down'[g]) : x.type = "candidate"} = {x \in Elements(down[g]) : x.type = "candidate"}
    BY <1>2, <1>3
  <2> QED  BY <2>1, <2>2 DEF Asked
<1>6. Unread' = Unread
  BY <1>4, <1>7, UnreadType DEF Unread
<1> QED  BY <1>5, <1>6 DEF Moved, Owes

(* What the worker takes is put into its channel or held. *)
LEMMA TakenMoves ==
    ASSUME TypeOK, TypeOK', MessagesTyped, Upward, NEW r \in Replicas, HandleMessage(r)
    PROVE  Moved
<1> DEFINE m == Head(up[r])
<1>1. /\ up \in [Replicas -> Seq(Order \cup Ack \cup FinishAck)] /\ up[r] # <<>>
      /\ up[r] \in Seq(Order \cup Ack \cup FinishAck)
      /\ up' = [up EXCEPT ![r] = Tail(@)] /\ holding = NoMessage /\ down' = down
  BY DEF TypeOK, HandleMessage
<1>2. up'[r] = Tail(up[r]) /\ \A q \in Replicas \ {r} : up'[q] = up[q]
  BY <1>1
<1>12. Total(up, "verified") = Total(up', "verified") + One(m, "verified")
  <2>1. Changed(up', up, Replicas, Up, r)
    BY <1>1, <1>2 DEF Changed, Up, TypeOK
  <2>2. IsFiniteSet(Replicas) /\ IsFiniteSet(Followers)
    BY FollowersFinite
  <2>3. up[r] # <<>> /\ up'[r] = Tail(up[r]) =>
            Total(up, "verified") = Total(up', "verified") + One(Head(up[r]), "verified")
    BY <2>1, <2>2, FamilyTail
  <2> QED  BY <1>1, <1>2, <2>3
<1>3. Elements(up[r]) = {m} \cup Elements(up'[r])
  BY <1>1, <1>2, TailFacts
<1>4. m \in Order \cup Ack /\ m.from = r
  BY <1>3 DEF MessagesTyped, Upward
<1>5. /\ verified \in Seq(Ack \cup FinishAck) /\ Len(verified) \in Nat
      /\ \A f \in Followers : ~IsAck(holding, f)
      /\ One(holding, "verified") = 0
  BY <1>1, Fields DEF TypeOK, IsAck, One
<1>6. /\ Total(down, "candidate") \in Nat /\ Total(up', "verified") \in Nat
      /\ One(m, "verified") \in Nat
  <2>1. Total(down, "candidate") \in Nat
    BY UnreadType
  <2>2. Total(up', "verified") \in Nat
    BY SpotsFinite, FollowersFinite DEF TypeOK
  <2> QED  BY <2>1, <2>2 DEF One
<1>7. ASSUME NEW f \in Followers  PROVE Asked(f)' = Asked(f)
  BY <1>1 DEF Asked
<1>8. \/ /\ m.type = "order" /\ UNCHANGED <<holding, verified>>
      \/ /\ m.type # "order" /\ UNCHANGED holding /\ verified' = Append(verified, m)
      \/ /\ holding' = m /\ UNCHANGED verified
  BY DEF HandleMessage, Deliver
<1> HIDE DEF m
<1>9. CASE m.type = "order" /\ UNCHANGED <<holding, verified>>
  <2>1. One(m, "verified") = 0
    BY <1>9 DEF One
  <2>2. ASSUME NEW f \in Followers
        PROVE  Answered(f)' = Answered(f) /\ Waiting(f)' = Waiting(f)
    <3>1. {x \in Elements(up'[f]) \cup {holding'} : IsAck(x, f)}
            = {x \in Elements(up[f]) \cup {holding} : IsAck(x, f)}
      BY <1>2, <1>3, <1>9, FollowersFinite DEF IsAck
    <3> QED  BY <1>9, <3>1 DEF Answered, Waiting, IsAck
  <2>3. Unread' = Unread
    BY <1>1, <1>6, <1>9, <1>12, <2>1 DEF Unread
  <2> QED  BY <1>7, <1>9, <2>2, <2>3 DEF Moved, Owes
<1>10. CASE m.type # "order" /\ UNCHANGED holding /\ verified' = Append(verified, m)
  <2>1. m \in Ack /\ m.type = "verified" /\ r \in Followers /\ m.seq \in Nat
    BY <1>4, <1>10, Fields
  <2>2. /\ Elements(verified') = Elements(verified) \cup {m}
        /\ InOrder(verified') = InOrder(verified) \cup {<<x, m>> : x \in Elements(verified)}
        /\ Len(verified') = Len(verified) + 1
    BY <1>5, <1>10, <2>1, AppendFacts
  <2>3. One(m, "verified") = 1
    BY <2>1 DEF One
  <2>4. ASSUME NEW f \in Followers, f # r
        PROVE  Answered(f)' = Answered(f) /\ Waiting(f)' = Waiting(f)
    <3>1. up'[f] = up[f] /\ holding' = holding
      BY <1>2, <1>10, <2>4, FollowersFinite
    <3>2. {x \in Elements(verified') : IsAck(x, f)} = {x \in Elements(verified) : IsAck(x, f)}
      BY <1>4, <2>2, <2>4 DEF IsAck
    <3> QED  BY <3>1, <3>2 DEF Answered, Waiting, IsAck
  <2>5. Answered(r) = Answered(r)' \cup {m.seq} /\ Waiting(r)' = Waiting(r) \cup {m.seq}
    <3>1. {x \in Elements(up[r]) \cup {holding} : IsAck(x, r)}
            = {x \in Elements(up'[r]) \cup {holding'} : IsAck(x, r)} \cup {m}
      BY <1>3, <1>4, <1>10, <2>1 DEF IsAck
    <3>2. {x \in Elements(verified') : IsAck(x, r)} = {x \in Elements(verified) : IsAck(x, r)} \cup {m}
      BY <1>4, <2>1, <2>2 DEF IsAck
    <3>3. Answered(r) = Answered(r)' \cup {m.seq}
      BY <3>1 DEF Answered, IsAck
    <3>4. Waiting(r)' = Waiting(r) \cup {m.seq}
      BY <3>2 DEF Waiting, IsAck
    <3> QED  BY <3>3, <3>4
  <2>6. ASSUME NEW f \in Followers
        PROVE  /\ Answered(f)' \subseteq Answered(f) /\ Owes(f)' = Owes(f)
               /\ Waiting(f)' \subseteq Answered(f) \cup Waiting(f)
    <3>1. CASE f = r
      BY <1>7, <2>5, <3>1 DEF Owes
    <3>2. CASE f # r
      BY <1>7, <2>4, <3>2 DEF Owes
    <3> QED  BY <3>1, <3>2
  <2>7. ASSUME NEW p \in InOrder(verified'), p \notin InOrder(verified)
        PROVE  p[1] \in Elements(verified) /\ p[2] \in Ack /\ p[2].seq \in Answered(p[2].from)
    <3>1. PICK x \in Elements(verified) : p = <<x, m>>
      BY <2>2, <2>7
    <3>2. p[1] = x /\ p[2] = m
      BY <3>1
    <3> QED  BY <1>4, <2>1, <2>5, <3>2
  <2>8. Unread' = Unread
    <3>1. One(holding', "verified") = One(holding, "verified")
      BY <1>10
    <3>2. down' = down /\ One(holding, "verified") = 0 /\ Len(verified) \in Nat
      BY <1>1, <1>5
    <3> QED  BY <1>6, <1>12, <2>2, <2>3, <3>1, <3>2 DEF Unread
  <2> QED  BY <1>7, <2>6, <2>7, <2>8 DEF Moved
<1>11. CASE holding' = m /\ UNCHANGED verified
  <2>1. ASSUME NEW f \in Followers
        PROVE  Answered(f)' = Answered(f) /\ Waiting(f)' = Waiting(f)
    <3>1. {x \in Elements(up'[f]) \cup {holding'} : IsAck(x, f)}
            = {x \in Elements(up[f]) \cup {holding} : IsAck(x, f)}
      BY <1>2, <1>3, <1>4, <1>5, <1>11, FollowersFinite DEF IsAck
    <3> QED  BY <1>11, <3>1 DEF Answered, Waiting, IsAck
  <2>2. Unread' = Unread
    <3>1. One(holding', "verified") = One(m, "verified")
      BY <1>11
    <3> QED  BY <1>1, <1>5, <1>6, <1>11, <1>12, <3>1 DEF Unread
  <2> QED  BY <1>7, <1>11, <2>1, <2>2 DEF Moved, Owes
<1> QED  BY <1>8, <1>9, <1>10, <1>11

(* What the worker held goes into its channel. *)
LEMMA UnblockMoves ==
    ASSUME TypeOK, MessagesTyped, ~Cancelled, Unblock
    PROVE  Moved
<1>1. /\ holding # NoMessage /\ Deliver(holding) /\ holding' = NoMessage
      /\ up' = up /\ down' = down
  BY DEF Unblock
<1>2. holding \in Order \cup Ack
  BY <1>1 DEF MessagesTyped
<1>3. /\ One(NoMessage, "verified") = 0 /\ \A f \in Followers : ~IsAck(NoMessage, f)
  BY Fields DEF One, IsAck
<1>4. ASSUME NEW f \in Followers  PROVE Asked(f)' = Asked(f)
  BY <1>1 DEF Asked
<1>5. CASE holding.type = "order"
  <2>1. verified' = verified
    BY <1>1, <1>5 DEF Deliver
  <2>2. One(holding, "verified") = 0
    BY <1>5 DEF One
  <2>3. ASSUME NEW f \in Followers
        PROVE  Answered(f)' = Answered(f) /\ Waiting(f)' = Waiting(f)
    <3>1. {x \in Elements(up'[f]) \cup {holding'} : IsAck(x, f)}
            = {x \in Elements(up[f]) \cup {holding} : IsAck(x, f)}
      BY <1>1, <1>3, <1>5 DEF IsAck
    <3> QED  BY <2>1, <3>1 DEF Answered, Waiting, IsAck
  <2>4. Unread' = Unread
    BY <1>1, <1>3, <2>1, <2>2 DEF Unread
  <2> QED  BY <1>4, <2>1, <2>3, <2>4 DEF Moved, Owes
<1>6. CASE holding.type # "order"
  <2> DEFINE m == holding
  <2>1. m \in Ack /\ m.type = "verified" /\ m.from \in Followers /\ m.seq \in Nat
    BY <1>2, <1>6, Fields
  <2>2. verified' = Append(verified, m) /\ verified \in Seq(Ack \cup FinishAck)
    BY <1>1, <1>6 DEF Deliver, TypeOK
  <2>3. /\ Elements(verified') = Elements(verified) \cup {m}
        /\ InOrder(verified') = InOrder(verified) \cup {<<x, m>> : x \in Elements(verified)}
        /\ Len(verified') = Len(verified) + 1
    BY <2>1, <2>2, AppendFacts
  <2>4. One(m, "verified") = 1
    BY <2>1 DEF One
  <2>5. ASSUME NEW f \in Followers
        PROVE  /\ Answered(f) = Answered(f)' \cup (IF m.from = f THEN {m.seq} ELSE {})
               /\ Waiting(f)' = Waiting(f) \cup (IF m.from = f THEN {m.seq} ELSE {})
    <3>1. {x \in Elements(up[f]) \cup {m} : IsAck(x, f)}
            = {x \in Elements(up'[f]) \cup {holding'} : IsAck(x, f)}
                \cup (IF m.from = f THEN {m} ELSE {})
      BY <1>1, <1>3, <2>1 DEF IsAck
    <3>2. {x \in Elements(verified') : IsAck(x, f)}
            = {x \in Elements(verified) : IsAck(x, f)} \cup (IF m.from = f THEN {m} ELSE {})
      BY <2>1, <2>3 DEF IsAck
    <3>3. Answered(f) = Answered(f)' \cup (IF m.from = f THEN {m.seq} ELSE {})
      BY <3>1 DEF Answered, IsAck
    <3>4. Waiting(f)' = Waiting(f) \cup (IF m.from = f THEN {m.seq} ELSE {})
      BY <3>2 DEF Waiting, IsAck
    <3> QED  BY <3>3, <3>4
  <2>6. ASSUME NEW f \in Followers
        PROVE  /\ Answered(f)' \subseteq Answered(f) /\ Owes(f)' = Owes(f)
               /\ Waiting(f)' \subseteq Answered(f) \cup Waiting(f)
    BY <1>4, <2>5 DEF Owes
  <2>7. ASSUME NEW p \in InOrder(verified'), p \notin InOrder(verified)
        PROVE  p[1] \in Elements(verified) /\ p[2] \in Ack /\ p[2].seq \in Answered(p[2].from)
    <3>1. PICK x \in Elements(verified) : p = <<x, m>>
      BY <2>3, <2>7
    <3>2. p[1] = x /\ p[2] = m
      BY <3>1
    <3> QED  BY <2>1, <2>5, <3>2
  <2>8. Unread' = Unread
    BY <1>1, <1>3, <2>3, <2>4, UnreadType DEF Unread
  <2> QED  BY <1>4, <2>6, <2>7, <2>8 DEF Moved
<1> QED  BY <1>5, <1>6

(* A follower answers a candidate, and nothing else before the end of a run. *)
LEMMA AnswerMoves ==
    ASSUME TypeOK, TypeOK', MessagesTyped, MessagesTyped', NEW f \in Followers, HandleDown(f)
    PROVE  Moved
<1> DEFINE m == Head(down[f])
           ack == [type |-> "verified", from |-> f, seq |-> m.seq, accepted |-> Verifies(f, m.seq)]
<1>1. /\ down \in [Followers -> Seq(Down)] /\ down[f] # <<>> /\ down[f] \in Seq(Down)
      /\ down' = [down EXCEPT ![f] = Tail(@)]
      /\ holding' = holding /\ verified' = verified /\ f \in Replicas
  BY FollowersFinite DEF TypeOK, HandleDown
<1>2. down'[f] = Tail(down[f]) /\ \A g \in Followers \ {f} : down'[g] = down[g]
  BY <1>1
<1>11. Total(down, "candidate") = Total(down', "candidate") + One(m, "candidate")
  <2>1. Changed(down', down, Followers, Down, f)
    BY <1>1, <1>2 DEF Changed, TypeOK
  <2>2. IsFiniteSet(Replicas) /\ IsFiniteSet(Followers)
    BY FollowersFinite
  <2>3. down[f] # <<>> /\ down'[f] = Tail(down[f]) =>
            Total(down, "candidate") = Total(down', "candidate") + One(Head(down[f]), "candidate")
    BY <2>1, <2>2, FamilyTail
  <2> QED  BY <1>1, <1>2, <2>3
<1>3. Elements(down[f]) = {m} \cup Elements(down'[f]) /\ m \in Down
  BY <1>1, <1>2, TailFacts
<1>4. \/ m.type # "candidate" /\ up' = up
      \/ m.type = "candidate" /\ up' = [up EXCEPT ![f] = Append(@, ack)]
      \/ m.type = "finish" /\ up' = [up EXCEPT ![f] = Append(@, [type |-> "finish", from |-> f])]
  BY DEF HandleDown
<1>5. Total(down', "candidate") \in Nat /\ One(m, "candidate") \in Nat
  BY SpotsFinite, FollowersFinite DEF TypeOK, One
<1>6. \A g \in Followers : Waiting(g)' = Waiting(g)
  BY <1>1 DEF Waiting, IsAck
<1>7. up \in [Replicas -> Seq(Order \cup Ack \cup FinishAck)]
  BY DEF TypeOK
<1> HIDE DEF m
<1>8. CASE m.type # "candidate" /\ up' = up
  <2>1. One(m, "candidate") = 0
    BY <1>8 DEF One
  <2>2. ASSUME NEW g \in Followers
        PROVE  Asked(g)' = Asked(g) /\ Answered(g)' = Answered(g)
    <3>1. {x \in Elements(down'[g]) : x.type = "candidate"}
            = {x \in Elements(down[g]) : x.type = "candidate"}
      BY <1>2, <1>3, <1>8
    <3> QED  BY <1>1, <1>8, <3>1 DEF Asked, Answered, IsAck
  <2>3. Unread' = Unread
    BY <1>1, <1>5, <1>8, <1>11, <2>1 DEF Unread
  <2> QED  BY <1>1, <1>6, <2>2, <2>3 DEF Moved, Owes
<1>9. CASE m.type = "candidate" /\ up' = [up EXCEPT ![f] = Append(@, ack)]
  <2>1. m.seq \in Nat /\ Verifies(f, m.seq) \in BOOLEAN
    BY <1>3, <1>9, DownTypes DEF Verifies
  <2>2. ack \in Ack /\ ack.type = "verified" /\ ack.from = f /\ ack.seq = m.seq
    BY <2>1 DEF Ack
  <2> HIDE DEF ack
  <2>3. up'[f] = Append(up[f], ack) /\ \A q \in Replicas \ {f} : up'[q] = up[q]
    BY <1>1, <1>7, <1>9
  <2>10. Total(up', "verified") = Total(up, "verified") + One(ack, "verified")
    <3>1. Changed(up', up, Replicas, Up, f)
      BY <1>1, <1>7, <2>3 DEF Changed, Up, TypeOK
    <3>2. ack \in Up /\ IsFiniteSet(Replicas)
      BY <2>2, FollowersFinite DEF Up
    <3> QED  BY <2>3, <3>1, <3>2, FamilyAppend
  <2>4. Elements(up'[f]) = Elements(up[f]) \cup {ack}
    <3>1. up[f] \in Seq(Order \cup Ack \cup FinishAck)
      BY <1>1, <1>7
    <3> QED  BY <2>2, <2>3, <3>1, AppendFacts
  <2>5. One(m, "candidate") = 1 /\ One(ack, "verified") = 1
    BY <1>9, <2>2 DEF One
  <2>6. Asked(f) = Asked(f)' \cup {m.seq} /\ Answered(f)' = Answered(f) \cup {m.seq}
    <3>1. {x \in Elements(down[f]) : x.type = "candidate"}
            = {x \in Elements(down'[f]) : x.type = "candidate"} \cup {m}
      BY <1>3, <1>9
    <3>2. {x \in Elements(up'[f]) \cup {holding'} : IsAck(x, f)}
            = {x \in Elements(up[f]) \cup {holding} : IsAck(x, f)} \cup {ack}
      BY <1>1, <2>2, <2>4 DEF IsAck
    <3>3. Asked(f) = Asked(f)' \cup {m.seq}
      BY <3>1 DEF Asked
    <3>4. Answered(f)' = Answered(f) \cup {m.seq}
      BY <2>2, <3>2 DEF Answered, IsAck
    <3> QED  BY <3>3, <3>4
  <2>7. ASSUME NEW g \in Followers, g # f
        PROVE  Asked(g)' = Asked(g) /\ Answered(g)' = Answered(g)
    <3>1. down'[g] = down[g] /\ up'[g] = up[g]
      BY <1>2, <2>3, <2>7, FollowersFinite
    <3> QED  BY <1>1, <3>1 DEF Asked, Answered, IsAck
  <2>8. ASSUME NEW g \in Followers
        PROVE  /\ Asked(g)' \subseteq Asked(g) /\ Answered(g)' \subseteq Asked(g) \cup Answered(g)
               /\ Owes(g)' = Owes(g)
    <3>1. CASE g = f
      BY <1>6, <2>6, <3>1 DEF Owes
    <3>2. CASE g # f
      BY <1>6, <2>7, <3>2 DEF Owes
    <3> QED  BY <3>1, <3>2
  <2>9. Unread' = Unread
    BY <1>1, <1>5, <1>11, <2>5, <2>10, UnreadType DEF Unread
  <2> QED  BY <1>1, <1>6, <2>8, <2>9 DEF Moved
<1>10. CASE m.type = "finish" /\ up' = [up EXCEPT ![f] = Append(@, [type |-> "finish", from |-> f])]
  <2> DEFINE finish == [type |-> "finish", from |-> f]
  <2>1. finish \in FinishAck /\ finish.type = "finish"
    BY DEF FinishAck
  <2> HIDE DEF finish
  <2>2. up[f] \in Seq(Order \cup Ack \cup FinishAck) /\ up'[f] = Append(up[f], finish)
    BY <1>1, <1>7, <1>10 DEF finish
  <2>3. finish \in Elements(up'[f])
    BY <2>1, <2>2, AppendFacts
  <2> QED  BY <1>1, <2>1, <2>3, Fields DEF MessagesTyped
<1> QED  BY <1>4, <1>8, <1>9, <1>10

-----------------------------------------------------------------------------
(* What keeps the parts of the invariant. *)

(* A step before the deadline. *)
Live ==
    /\ TypeOK /\ TypeOK' /\ MessagesTyped /\ MessagesTyped'
    /\ main = "run" /\ main' = "run" /\ Running

(* What is known of such a step. *)
LEMMA LiveFacts ==
    ASSUME Live
    PROVE  /\ Progressing /\ Downward /\ Upward /\ Arrived /\ Cleared /\ Owing /\ Accounted
           /\ N \in Nat \ {0} /\ F \in Nat /\ N >= 4*F + 1
           /\ committed \in Nat /\ proposed \in Nat /\ abandons \in Nat
           /\ committed' \in Nat /\ proposed' \in Nat /\ abandons' \in Nat
           /\ \A f \in Followers : applied[f] \in Nat /\ applied'[f] \in Nat
  BY ReplicaAssumption DEF Live, Running, TypeOK

(* And of the numbers of the fragments. *)
LEMMA LiveNumbers ==
    ASSUME Live, NEW f \in Followers
    PROVE  /\ Asked(f) \subseteq Nat /\ Answered(f) \subseteq Nat /\ Waiting(f) \subseteq Nat
           /\ Owes(f) \subseteq Nat
<1>1. MessagesTyped
  BY DEF Live
<1>2. Asked(f) \subseteq Nat /\ Answered(f) \subseteq Nat /\ Waiting(f) \subseteq Nat
  BY <1>1, FragmentNumbers
<1> QED  BY <1>2 DEF Owes

(* Nobody is asked more. *)
Nearer ==
    \A f \in Followers :
        /\ Asked(f)' \cup Answered(f)' \subseteq Asked(f) \cup Answered(f)
        /\ Waiting(f)' \subseteq Answered(f) \cup Waiting(f)

(* Moving answers asks nobody more. *)
LEMMA MovedNearer == Moved => Nearer
  BY DEF Moved, Nearer

(* The queues to the followers are left alone. *)
LEMMA DownwardKept ==
    ASSUME Live, down' = down, applied' = applied, committed <= committed', proposed <= proposed'
    PROVE  Downward'
<1> USE LiveFacts
<1>1. \A f \in Followers : Asked(f)' = Asked(f) /\ Asked(f) \subseteq Nat
  BY LiveNumbers DEF Asked
<1>2. ASSUME NEW f \in Followers
      PROVE  /\ applied'[f] <= committed'
             /\ \A s \in Asked(f)' : applied'[f] < s /\ s <= proposed'
             /\ \A m \in Elements(down'[f]) : m.type = "commit" => m.seq <= committed'
             /\ \A p \in InOrder(down'[f]) :
                    p[1].type = "commit" /\ p[2].type = "candidate" => p[1].seq < p[2].seq
  <2>1. /\ applied[f] <= committed
        /\ \A s \in Asked(f) : applied[f] < s /\ s <= proposed
        /\ \A m \in Elements(down[f]) : m.type = "commit" => m.seq <= committed
        /\ \A p \in InOrder(down[f]) :
               p[1].type = "commit" /\ p[2].type = "candidate" => p[1].seq < p[2].seq
    BY DEF Downward
  <2>2. applied'[f] <= committed'
    BY <2>1
  <2>3. \A s \in Asked(f)' : applied'[f] < s /\ s <= proposed'
    BY <1>1, <2>1
  <2>4. \A m \in Elements(down[f]) : m.type = "commit" => m.seq \in Nat
    BY Fields DEF Live, MessagesTyped
  <2>5. \A m \in Elements(down'[f]) : m.type = "commit" => m.seq <= committed'
    BY <2>1, <2>4
  <2> QED  BY <2>1, <2>2, <2>3, <2>5
<1> QED  BY <1>2 DEF Downward

(* A candidate of the present attempt or a commit is sent. *)
LEMMA DownwardAppend ==
    ASSUME Live, NEW f \in Followers, NEW m \in Down, Send(f, m),
           applied' = applied, committed' = committed, proposed' = proposed,
           m.type = "candidate" => m.seq = committed + 1 /\ proposed = committed + 1,
           m.type = "commit" => m.seq <= committed
    PROVE  Downward'
<1> USE LiveFacts
<1>1. /\ down[f] \in Seq(Down) /\ down'[f] = Append(down[f], m)
      /\ \A g \in Followers \ {f} : down'[g] = down[g]
  BY DEF Send, Live, TypeOK
<1>2. /\ Elements(down'[f]) = Elements(down[f]) \cup {m}
      /\ InOrder(down'[f]) = InOrder(down[f]) \cup {<<x, m>> : x \in Elements(down[f])}
  BY <1>1, AppendFacts
<1>3. ASSUME NEW g \in Followers
      PROVE  /\ applied[g] <= committed
             /\ \A s \in Asked(g) : applied[g] < s /\ s <= proposed
             /\ \A x \in Elements(down[g]) : x.type = "commit" => x.seq <= committed
             /\ \A p \in InOrder(down[g]) :
                    p[1].type = "commit" /\ p[2].type = "candidate" => p[1].seq < p[2].seq
  BY DEF Downward
<1>4. \A x \in Elements(down[f]) : x.type = "commit" => x.seq \in Nat
  BY Fields DEF Live, MessagesTyped
<1>5. \A s \in Asked(f)' : s \in Asked(f) \/ (s = committed + 1 /\ m.type = "candidate")
  BY <1>2 DEF Asked
<1>6. \A s \in Asked(f)' : applied[f] < s /\ s <= proposed
  BY <1>3, <1>5
<1>7. \A x \in Elements(down'[f]) : x.type = "commit" => x.seq <= committed
  BY <1>2, <1>3
<1>8. ASSUME NEW p \in InOrder(down'[f]), p[1].type = "commit", p[2].type = "candidate"
      PROVE  p[1].seq < p[2].seq
  <2>1. CASE p \in InOrder(down[f])
    BY <1>3, <1>8, <2>1
  <2>2. CASE p \notin InOrder(down[f])
    <3>1. PICK x \in Elements(down[f]) : p = <<x, m>>
      BY <1>2, <2>2
    <3>2. p[1] = x /\ p[2] = m
      BY <3>1
    <3>3. x.seq \in Nat /\ x.seq <= committed /\ m.seq = committed + 1
      BY <1>3, <1>4, <1>8, <3>2
    <3> QED  BY <3>2, <3>3
  <2> QED  BY <2>1, <2>2
<1>9. ASSUME NEW g \in Followers, g # f
      PROVE  down'[g] = down[g] /\ Asked(g)' = Asked(g)
  BY <1>1, <1>9 DEF Asked
<1>10. ASSUME NEW g \in Followers
       PROVE  /\ applied'[g] <= committed'
              /\ \A s \in Asked(g)' : applied'[g] < s /\ s <= proposed'
              /\ \A x \in Elements(down'[g]) : x.type = "commit" => x.seq <= committed'
              /\ \A p \in InOrder(down'[g]) :
                    p[1].type = "commit" /\ p[2].type = "candidate" => p[1].seq < p[2].seq
  <2>1. CASE g = f
    BY <1>3, <1>6, <1>7, <1>8, <2>1
  <2>2. CASE g # f
    BY <1>3, <1>9, <2>2
  <2> QED  BY <2>1, <2>2
<1> QED  BY <1>10 DEF Downward

(* The queues from the replicas are left alone or lose their heads. *)
LEMMA UpwardKept ==
    ASSUME Live, Nearer, proposed <= proposed',
           \A r \in Replicas : /\ Elements(up'[r]) \subseteq Elements(up[r])
                               /\ InOrder(up'[r]) \subseteq InOrder(up[r]),
           \A f \in Followers : applied[f] <= applied'[f]
    PROVE  Upward'
<1> USE LiveFacts
<1>1. /\ \A r \in Replicas : \A m \in Elements(up[r]) : m.from = r
      /\ \A f \in Followers :
            /\ \A s \in Answered(f) \cup Waiting(f) : s <= proposed
            /\ \A m \in Elements(up[f]) : m.type = "order" => m.seq <= applied[f] + 1
            /\ \A p \in InOrder(up[f]) :
                p[1].type = "order" /\ p[2].type = "verified" => p[1].seq <= p[2].seq
  BY DEF Upward
<1>2. \A r \in Replicas : \A m \in Elements(up'[r]) : m.from = r
  BY <1>1
<1>3. ASSUME NEW f \in Followers
      PROVE  /\ \A s \in Answered(f)' \cup Waiting(f)' : s <= proposed'
             /\ \A m \in Elements(up'[f]) : m.type = "order" => m.seq <= applied'[f] + 1
             /\ \A p \in InOrder(up'[f]) :
                p[1].type = "order" /\ p[2].type = "verified" => p[1].seq <= p[2].seq
  <2>1. f \in Replicas
    BY FollowersFinite
  <2>2. \A s \in Asked(f) \cup Answered(f) \cup Waiting(f) : s \in Nat /\ s <= proposed
    BY <1>1, LiveNumbers DEF Downward
  <2>3. Answered(f)' \cup Waiting(f)' \subseteq Asked(f) \cup Answered(f) \cup Waiting(f)
    BY DEF Nearer
  <2>4. \A s \in Answered(f)' \cup Waiting(f)' : s <= proposed'
    BY <2>2, <2>3
  <2>5. \A m \in Elements(up[f]) : m.type = "order" => m.seq \in Nat
    BY <2>1, Fields DEF Live, MessagesTyped
  <2>6. \A m \in Elements(up'[f]) : m.type = "order" => m.seq <= applied'[f] + 1
    BY <1>1, <2>1, <2>5
  <2>7. \A p \in InOrder(up'[f]) :
                p[1].type = "order" /\ p[2].type = "verified" => p[1].seq <= p[2].seq
    BY <1>1, <2>1
  <2> QED  BY <2>4, <2>6, <2>7
<1> QED  BY <1>2, <1>3 DEF Upward

(* A follower that is ready stays so. *)
LEMMA ReadyKept ==
    ASSUME Live, Nearer, NEW f \in Followers, applied[f] <= applied'[f], NEW s \in Nat, Ready(f, s)
    PROVE  Ready(f, s)'
<1>1. s <= applied[f] + 1 /\ \A t \in Asked(f) \cup Answered(f) : s <= t
  BY DEF Ready
<1>2. s <= applied'[f] + 1
  BY <1>1, LiveFacts
<1>3. \A t \in Asked(f)' \cup Answered(f)' : s <= t
  BY <1>1 DEF Nearer
<1> QED  BY <1>2, <1>3 DEF Ready

(* No order joins those that have arrived. *)
LEMMA ArrivedKept ==
    ASSUME Live, Nearer,
           \A f \in Followers : applied[f] <= applied'[f],
           \A m \in {holding'} \cup Elements(localOrderChan') :
                m.type = "order" => m \in {holding} \cup Elements(localOrderChan),
           \A r \in collected' : r \in collected /\ committed' = committed
    PROVE  Arrived'
<1> USE LiveFacts
<1>1. /\ \A m \in {holding} \cup Elements(localOrderChan) :
            m.type = "order" /\ m.from \in Followers => Ready(m.from, m.seq)
      /\ \A r \in collected :
            Scheduled(r, committed + 1) /\ (r \in Followers => Ready(r, committed + 1))
  BY DEF Arrived
<1>2. ASSUME NEW m \in {holding'} \cup Elements(localOrderChan'), m.type = "order",
             m.from \in Followers
      PROVE  Ready(m.from, m.seq)'
  <2>1. m \in {holding} \cup Elements(localOrderChan)
    BY <1>2
  <2>2. Ready(m.from, m.seq)
    BY <1>1, <1>2, <2>1
  <2>3. m.seq \in Nat
    BY <1>2, <2>1, Fields DEF Live, MessagesTyped
  <2>4. \A f \in Followers : \A s \in Nat : Ready(f, s) => Ready(f, s)'
    BY ReadyKept
  <2> QED  BY <1>2, <2>2, <2>3, <2>4
<1>3. ASSUME NEW r \in collected'
      PROVE  Scheduled(r, committed' + 1) /\ (r \in Followers => Ready(r, committed + 1)')
  <2>1. r \in collected /\ committed' = committed
    OBVIOUS
  <2>2. Scheduled(r, committed' + 1)
    BY <1>1, <2>1
  <2>3. ASSUME r \in Followers  PROVE Ready(r, committed + 1)'
    <3>1. Ready(r, committed + 1) /\ committed + 1 \in Nat
      BY <1>1, <2>1, <2>3
    <3>2. committed + 1 <= applied[r] + 1 /\ \A t \in Asked(r) \cup Answered(r) : committed + 1 <= t
      BY <3>1 DEF Ready
    <3>3. committed' + 1 <= applied'[r] + 1
      BY <2>1, <2>3, <3>2
    <3>4. \A t \in Asked(r)' \cup Answered(r)' : committed' + 1 <= t
      BY <2>1, <2>3, <3>2 DEF Nearer
    <3> QED  BY <3>3, <3>4 DEF Ready
  <2> QED  BY <2>2, <2>3
<1>4. \A m \in {holding'} \cup Elements(localOrderChan') :
            m.type = "order" /\ m.from \in Followers => Ready(m.from, m.seq)'
  BY <1>2
<1>5. \A r \in collected' :
            Scheduled(r, committed' + 1) /\ (r \in Followers => Ready(r, committed + 1)')
  BY <1>3
<1> QED  BY <1>4, <1>5 DEF Arrived

(* The first clause holds for the fragments committed before. *)
LEMMA OwesKept ==
    ASSUME Live, \A f \in Followers : Owes(f)' \subseteq Owes(f), committed' = committed
    PROVE  \A f \in Followers : \A j \in 1 .. committed' :
                Scheduled(f, j) => \A t \in Owes(f)' : j <= t
<1>1. \A f \in Followers : \A j \in 1 .. committed : Scheduled(f, j) => \A t \in Owes(f) : j <= t
  BY LiveFacts DEF Cleared
<1> QED  BY <1>1

(* The answers of the scheduled followers move on within an attempt. *)
LEMMA ClearedKept ==
    ASSUME Live, Moved, committed' = committed,
           gate' = "construct" \/ proposed' = committed + 1 =>
                gate = "construct" \/ proposed = committed + 1,
           gate' = "wait" => gate = "wait" /\ accepted' = accepted
    PROVE  Cleared'
<1> USE LiveFacts
<1>1. \A f \in Followers : \A j \in 1 .. committed' :
                Scheduled(f, j) => \A t \in Owes(f)' : j <= t
  <2>1. \A f \in Followers : Owes(f)' \subseteq Owes(f)
    BY DEF Moved
  <2> QED  BY <2>1, OwesKept
<1>2. gate = "construct" \/ proposed = committed + 1 =>
        \A f \in Followers : Scheduled(f, committed + 1) =>
            \A t \in Asked(f) \cup Answered(f) : committed + 1 <= t
  BY DEF Cleared
<1>3. gate' = "construct" \/ proposed' = committed' + 1 =>
        \A f \in Followers : Scheduled(f, committed' + 1) =>
            \A t \in Asked(f)' \cup Answered(f)' : committed' + 1 <= t
  <2> SUFFICES ASSUME gate' = "construct" \/ proposed' = committed' + 1,
                      NEW f \in Followers, Scheduled(f, committed' + 1),
                      NEW t \in Asked(f)' \cup Answered(f)'
               PROVE  committed' + 1 <= t
    OBVIOUS
  <2>1. t \in Asked(f) \cup Answered(f)
    BY DEF Moved
  <2> QED  BY <1>2, <2>1
<1>4. ASSUME NEW p \in InOrder(verified'), p[1].seq = committed' + 1,
             Scheduled(p[2].from, committed' + 1)
      PROVE  committed' + 1 <= p[2].seq
  <2>1. CASE p \in InOrder(verified)
    BY <1>4, <2>1 DEF Cleared
  <2>2. CASE p \notin InOrder(verified)
    <3>1. p[1] \in Elements(verified) /\ p[2] \in Ack /\ p[2].seq \in Answered(p[2].from)
      BY <1>4, <2>2 DEF Moved
    <3>2. p[1] \in Ack /\ p[1].type = "verified" /\ p[1].from \in Followers
      BY <3>1, Fields DEF Live, MessagesTyped
    <3>3. p[1].seq \in Waiting(p[1].from)
      BY <3>1, <3>2 DEF Waiting, IsAck
    <3>4. p[1].seq <= proposed
      BY <3>2, <3>3 DEF Upward
    <3>5. proposed = committed + 1
      BY <1>4, <3>4 DEF Progressing
    <3> QED  BY <1>2, <1>4, <3>1, <3>5, Fields
  <2> QED  BY <2>1, <2>2
<1>5. ASSUME gate' = "wait", accepted' # {Leader}, NEW f \in Followers,
             Scheduled(f, committed' + 1), NEW t \in Waiting(f)'
      PROVE  committed' + 1 <= t
  <2>1. gate = "wait" /\ accepted # {Leader} /\ proposed = committed + 1
    BY <1>5 DEF Progressing
  <2>2. t \in Answered(f) \/ t \in Waiting(f)
    BY <1>5 DEF Moved
  <2>3. CASE t \in Answered(f)
    BY <1>2, <1>5, <2>1, <2>3
  <2>4. CASE t \in Waiting(f)
    BY <1>5, <2>1, <2>4 DEF Cleared
  <2> QED  BY <2>2, <2>3, <2>4
<1> QED  BY <1>1, <1>3, <1>4, <1>5 DEF Cleared

(* What has to be answered is still owed. *)
LEMMA OwingKept ==
    ASSUME Live, Moved, committed' = committed,
           gate' = "wait" => gate = "wait" /\ accepted' = accepted,
           gate' = "broadcast" => gate = "broadcast" /\ todo' = todo
    PROVE  Owing'
<1>1. \A f \in Followers : Owes(f)' = Owes(f)
  BY DEF Moved
<1>2. gate' = "wait" => \A f \in Followers \ accepted' : committed' + 1 \in Owes(f)'
  BY <1>1, LiveFacts DEF Owing
<1>3. gate' = "broadcast" => \A f \in Followers \ todo' : committed' + 1 \in Owes(f)'
  BY <1>1, LiveFacts DEF Owing
<1> QED  BY <1>2, <1>3 DEF Owing

(* The unread answers of the present attempt are not negative. *)
LEMMA CurrentType ==
    ASSUME TypeOK, gate = "wait" => Leader \in accepted
    PROVE  Current \in Nat
<1> USE ReplicaAssumption, FollowersFinite
<1>1. /\ IsFiniteSet(todo) /\ Cardinality(todo) \in Nat /\ Cardinality(todo) <= N - 1
  BY FS_Subset, FS_CardinalityType DEF TypeOK
<1>2. /\ IsFiniteSet(accepted) /\ Cardinality(accepted) \in Nat /\ Cardinality(accepted) <= N
  BY FS_Subset, FS_CardinalityType DEF TypeOK
<1>3. N \in Nat /\ N - 1 - Cardinality(todo) \in Nat /\ N - Cardinality(accepted) \in Nat
  BY <1>1, <1>2
<1> QED  BY <1>3 DEF Current

(* The unread answers are a natural number after a step too. *)
LEMMA UnreadNatNext ==
    ASSUME TypeOK'
    PROVE  Unread' \in Nat
<1>1. Total(down', "candidate") \in Nat
  BY SpotsFinite, FollowersFinite DEF TypeOK
<1>2. Total(up', "verified") \in Nat
  BY SpotsFinite, FollowersFinite DEF TypeOK
<1>3. One(holding', "verified") \in Nat /\ Len(verified') \in Nat
  BY DEF One, TypeOK
<1> QED  BY <1>1, <1>2, <1>3 DEF Unread

(* What is added on both sides does not matter. *)
LEMMA Balance ==
    \A u, v, a, b, c, d, e \in Int :
        v + a + c <= u + b + e /\ u <= a + d + c => v <= b + d + e
  OBVIOUS

(* As many unread answers more as are accounted for more. *)
LEMMA AccountedKept ==
    ASSUME Live, \A f \in Followers : Owes(f) \subseteq Owes(f)', committed' = committed,
           Unread' + abandons * (N - 2) + Current <= Unread + abandons' * (N - 2) + Current',
           Current \in Nat, Current' \in Nat
    PROVE  Accounted'
<1> USE LiveFacts
<1>1. PICK debts : Debts(debts)
  BY DEF Accounted
<1>2. Cardinality(debts) \in Nat
  BY <1>1, FS_CardinalityType DEF Debts
<1>3. Unread \in Nat
  BY UnreadType DEF Live
<1>8. Unread' \in Nat
  BY UnreadNatNext DEF Live
<1>4. debts \subseteq Followers \X (1 .. committed') /\ \A p \in debts : p[2] \in Owes(p[1])'
  BY <1>1 DEF Debts
<1>5. abandons * (N - 2) \in Int /\ abandons' * (N - 2) \in Int
  OBVIOUS
<1>6. Unread <= abandons * (N - 2) + Cardinality(debts) + Current
  BY <1>1 DEF Debts
<1>7. Unread' <= abandons' * (N - 2) + Cardinality(debts) + Current'
  BY <1>2, <1>3, <1>5, <1>6, <1>8, Balance
<1>9. IsFiniteSet(debts) /\ \A s \in Nat : Cardinality(Of(debts, s)) <= F
  BY <1>1 DEF Debts
<1>10. Debts(debts)'
  BY <1>4, <1>7, <1>9 DEF Debts
<1> QED  BY <1>10 DEF Accounted

(* A step that is neither a send nor a read of Propose. *)
LEMMA AccountedMoved ==
    ASSUME Live, Moved, committed' = committed, abandons' = abandons, Current' = Current
    PROVE  Accounted'
<1>1. Current \in Nat
  BY CurrentType, LiveFacts DEF Live, Progressing
<1>2. /\ Unread' = Unread /\ Unread \in Nat /\ abandons * (N - 2) \in Int
  BY UnreadType, LiveFacts DEF Moved, Live
<1>3. \A f \in Followers : Owes(f) \subseteq Owes(f)'
  BY DEF Moved
<1>4. Unread' + abandons * (N - 2) + Current <= Unread + abandons' * (N - 2) + Current'
  BY <1>1, <1>2
<1> QED  BY <1>1, <1>3, <1>4, AccountedKept

(* Neither a stage nor a counter changes. *)
LEMMA SettledKept ==
    ASSUME Live, Moved, UNCHANGED <<collector, collected, gate, todo, accepted, committed>>,
           UNCHANGED <<abandons, proposed>>
    PROVE  Progressing' /\ Cleared' /\ Owing' /\ Accounted'
<1>1. /\ collector' = collector /\ collected' = collected /\ gate' = gate /\ todo' = todo
      /\ accepted' = accepted /\ committed' = committed /\ abandons' = abandons
      /\ proposed' = proposed /\ main' = main
  BY DEF Live
<1>2. Progressing'
  BY <1>1, LiveFacts DEF Progressing
<1>3. Current' = Current
  BY <1>1 DEF Current
<1>4. Cleared'
  BY <1>1, ClearedKept
<1>5. Owing'
  BY <1>1, OwingKept
<1>6. Accounted'
  BY <1>1, <1>3, AccountedMoved
<1> QED  BY <1>2, <1>4, <1>5, <1>6

-----------------------------------------------------------------------------
(* The steps of the tickers, the worker and the submitter. *)

(* A ticker sends the order for the fragment after the last it has         *)
(* applied.                                                                *)
LEMMA RunOrder ==
    ASSUME Live, NEW r \in Replicas, SendLocalOrder(r)
    PROVE  Running'
<1> USE LiveFacts
<1> DEFINE m == [type |-> "order", from |-> r, seq |-> Applied(r) + 1]
<1>1. /\ up' = [up EXCEPT ![r] = Append(@, m)]
      /\ UNCHANGED <<down, holding, verified>> /\ localOrderChan' = localOrderChan
      /\ down' = down /\ holding' = holding /\ applied' = applied
      /\ UNCHANGED <<collector, collected, gate, todo, accepted, committed>>
      /\ UNCHANGED <<abandons, proposed>>
  BY DEF SendLocalOrder, followerVars, stages, counters
<1>2. Applied(r) \in Nat /\ (r \in Followers => Applied(r) = applied[r])
  BY DEF Applied, Followers
<1>3. m \in Order /\ m.from = r /\ m.type = "order" /\ m.seq = Applied(r) + 1
  BY <1>2 DEF Order
<1> HIDE DEF m
<1>4. Moved
  BY <1>1, <1>3, OrderMoves DEF Live
<1>5. Nearer
  BY <1>4, MovedNearer
<1>6. Progressing' /\ Cleared' /\ Owing' /\ Accounted'
  BY <1>1, <1>4, SettledKept
<1>7. Downward'
  BY <1>1, DownwardKept
<1>8. Arrived'
  BY <1>1, <1>5, ArrivedKept
<1>9. up[r] \in Seq(Up) /\ m \in Up /\ up'[r] = Append(up[r], m) /\ \A q \in Replicas \ {r} : up'[q] = up[q]
  BY <1>1, <1>3 DEF Live, TypeOK, Up
<1>10. /\ Elements(up'[r]) = Elements(up[r]) \cup {m}
       /\ InOrder(up'[r]) = InOrder(up[r]) \cup {<<x, m>> : x \in Elements(up[r])}
  BY <1>9, AppendFacts
<1>11. \A q \in Replicas : \A x \in Elements(up'[q]) : x.from = q
  BY <1>3, <1>9, <1>10 DEF Upward
<1>12. ASSUME NEW f \in Followers
       PROVE  /\ \A s \in Answered(f)' \cup Waiting(f)' : s <= proposed'
              /\ \A x \in Elements(up'[f]) : x.type = "order" => x.seq <= applied'[f] + 1
              /\ \A p \in InOrder(up'[f]) :
                    p[1].type = "order" /\ p[2].type = "verified" => p[1].seq <= p[2].seq
  <2>1. f \in Replicas
    BY FollowersFinite
  <2>2. \A s \in Answered(f)' \cup Waiting(f)' : s <= proposed'
    <3>1. Answered(f)' \cup Waiting(f)' \subseteq Asked(f) \cup Answered(f) \cup Waiting(f)
      BY <1>5 DEF Nearer
    <3> QED  BY <1>1, <3>1 DEF Upward, Downward
  <2>3. CASE f # r
    BY <1>1, <1>9, <2>1, <2>2, <2>3 DEF Upward
  <2>4. CASE f = r
    <3>1. \A x \in Elements(up'[f]) : x.type = "order" => x.seq <= applied'[f] + 1
      BY <1>1, <1>2, <1>3, <1>10, <2>4 DEF Upward
    <3>2. \A p \in InOrder(up'[f]) :
                    p[1].type = "order" /\ p[2].type = "verified" => p[1].seq <= p[2].seq
      BY <1>3, <1>10, <2>4 DEF Upward
    <3> QED  BY <2>2, <3>1, <3>2
  <2> QED  BY <2>3, <2>4
<1>13. Upward'
  BY <1>11, <1>12 DEF Upward
<1> QED  BY <1>6, <1>7, <1>8, <1>13 DEF Running

(* The worker takes a message. *)
LEMMA RunWorker ==
    ASSUME Live, NEW r \in Replicas, HandleMessage(r)
    PROVE  Running'
<1> USE LiveFacts
<1>0. PICK m : m = Head(up[r])
  OBVIOUS
<1>1. /\ up' = [up EXCEPT ![r] = Tail(@)] /\ up[r] # <<>> /\ holding = NoMessage
      /\ \/ m.type = "order" /\ localOrderChan' = Append(localOrderChan, m) /\ holding' = holding
         \/ m.type # "order" /\ localOrderChan' = localOrderChan /\ holding' = holding
         \/ holding' = m /\ localOrderChan' = localOrderChan
      /\ down' = down /\ applied' = applied
      /\ UNCHANGED <<collector, collected, gate, todo, accepted, committed>>
      /\ UNCHANGED <<abandons, proposed>>
  BY <1>0 DEF HandleMessage, Deliver, followerVars, stages, counters
<1>2. Moved /\ Nearer
  BY TakenMoves, MovedNearer DEF Live
<1>3. Progressing' /\ Cleared' /\ Owing' /\ Accounted'
  BY <1>1, <1>2, SettledKept
<1>4. Downward'
  BY <1>1, DownwardKept
<1>5. up[r] \in Seq(Up) /\ up'[r] = Tail(up[r]) /\ \A q \in Replicas \ {r} : up'[q] = up[q]
  BY <1>1 DEF Live, TypeOK, Up
<1>6. /\ m \in Up /\ Elements(up[r]) = {m} \cup Elements(up'[r])
      /\ InOrder(up'[r]) \subseteq InOrder(up[r])
      /\ \A x \in Elements(up'[r]) : <<m, x>> \in InOrder(up[r])
  BY <1>0, <1>1, <1>5, TailFacts
<1>7. Upward'
  <2>1. \A q \in Replicas : /\ Elements(up'[q]) \subseteq Elements(up[q])
                            /\ InOrder(up'[q]) \subseteq InOrder(up[q])
    BY <1>5, <1>6
  <2>2. proposed <= proposed' /\ \A f \in Followers : applied[f] <= applied'[f]
    BY <1>1
  <2> QED  BY <1>2, <2>1, <2>2, UpwardKept
<1>8. m \in Order \cup Ack /\ m.from = r
  BY <1>6 DEF Live, MessagesTyped, Upward
<1>9. ASSUME m.type = "order", r \in Followers, holding' = holding \/ holding' = m
      PROVE  Ready(r, m.seq)'
  <2>1. m \in Order /\ m.seq \in Nat /\ m.seq <= applied[r] + 1
    BY <1>6, <1>8, <1>9, Fields DEF Upward
  <2>2. \A t \in Asked(r) : m.seq <= t
    BY <2>1, <1>9, LiveNumbers DEF Downward
  <2>3. Asked(r)' = Asked(r)
    BY <1>1 DEF Asked
  <2>4. ASSUME NEW x \in Elements(up'[r]), x.type = "verified"  PROVE m.seq <= x.seq
    <3>1. <<m, x>> \in InOrder(up[r])
      BY <1>6, <2>4
    <3>2. <<m, x>>[1] = m /\ <<m, x>>[2] = x
      OBVIOUS
    <3> QED  BY <1>9, <2>4, <3>1, <3>2 DEF Upward
  <2>5. holding'.type # "verified"
    BY <1>1, <1>9, Fields
  <2>6. \A t \in Answered(r)' : m.seq <= t
    BY <2>4, <2>5 DEF Answered, IsAck
  <2> QED  BY <1>1, <2>1, <2>2, <2>3, <2>6 DEF Ready
<1>10. \A x \in Elements(localOrderChan') : x \in Elements(localOrderChan) \/ (x = m /\ holding' = holding)
  <2>1. CASE m.type = "order" /\ localOrderChan' = Append(localOrderChan, m) /\ holding' = holding
    <3>1. localOrderChan \in Seq(Order) /\ m \in Order
      BY <1>8, <2>1, Fields DEF Live, TypeOK
    <3> QED  BY <2>1, <3>1, AppendFacts
  <2> QED  BY <1>1, <2>1
<1>11. ASSUME NEW x \in {holding'} \cup Elements(localOrderChan'), x.type = "order", x.from \in Followers
       PROVE  Ready(x.from, x.seq)'
  <2>1. \/ x \in Elements(localOrderChan)
        \/ x = m /\ (holding' = holding \/ holding' = m)
    BY <1>1, <1>10, <1>11, Fields
  <2>2. CASE x = m /\ (holding' = holding \/ holding' = m)
    BY <1>8, <1>9, <1>11, <2>2
  <2>3. CASE x \in Elements(localOrderChan)
    <3>1. x.seq \in Nat /\ Ready(x.from, x.seq)
      BY <1>11, <2>3, Fields DEF Arrived, Live, MessagesTyped
    <3>2. \A f \in Followers : \A s \in Nat : Ready(f, s) => Ready(f, s)'
      BY <1>1, <1>2, ReadyKept
    <3> QED  BY <1>11, <3>1, <3>2
  <2> QED  BY <2>1, <2>2, <2>3
<1>12. ASSUME NEW q \in collected'
       PROVE  Scheduled(q, committed + 1)' /\ (q \in Followers => Ready(q, committed + 1)')
  <2>1. q \in collected /\ committed' = committed /\ applied' = applied
    BY <1>1
  <2>2. Scheduled(q, committed + 1) /\ (q \in Followers => Ready(q, committed + 1))
    BY <2>1 DEF Arrived
  <2>3. Scheduled(q, committed + 1)'
    BY <2>1, <2>2 DEF Scheduled
  <2> QED  BY <1>2, <2>1, <2>2, <2>3 DEF Ready, Nearer
<1>13. Arrived'
  BY <1>11, <1>12 DEF Arrived
<1> QED  BY <1>3, <1>4, <1>7, <1>13 DEF Running

(* The worker goes on. *)
LEMMA RunUnblock ==
    ASSUME Live, Unblock
    PROVE  Running'
<1> USE LiveFacts
<1>1. /\ up' = up /\ down' = down /\ applied' = applied
      /\ holding # NoMessage /\ holding' = NoMessage
      /\ localOrderChan' = localOrderChan \/ (holding.type = "order" /\ localOrderChan' = Append(localOrderChan, holding))
      /\ UNCHANGED <<collector, collected, gate, todo, accepted, committed>>
      /\ UNCHANGED <<abandons, proposed>>
  BY DEF Unblock, Deliver, followerVars, stages, counters
<1>2. Moved /\ Nearer
  BY UnblockMoves, MovedNearer DEF Live, Cancelled
<1>3. Progressing' /\ Cleared' /\ Owing' /\ Accounted'
  BY <1>1, <1>2, SettledKept
<1>4. Downward'
  BY <1>1, DownwardKept
<1>5. Upward'
  BY <1>1, <1>2, UpwardKept
<1>6. Elements(localOrderChan') \subseteq {holding} \cup Elements(localOrderChan)
  <2>1. CASE holding.type = "order" /\ localOrderChan' = Append(localOrderChan, holding)
    <3>1. holding \in Order /\ localOrderChan \in Seq(Order)
      BY <1>1, <2>1, Fields DEF Live, MessagesTyped, TypeOK
    <3> QED  BY <2>1, <3>1, AppendFacts
  <2> QED  BY <1>1, <2>1
<1>7. Arrived'
  BY <1>1, <1>2, <1>6, Fields, ArrivedKept
<1> QED  BY <1>3, <1>4, <1>5, <1>7 DEF Running

(* The submitter reaches a follower late. *)
LEMMA RunContent ==
    ASSUME Live, NEW f \in Followers, SendContent(f)
    PROVE  Running'
<1> USE LiveFacts
<1> DEFINE m == [type |-> "tx"]
<1>1. /\ Send(f, m) /\ up' = up /\ applied' = applied /\ UNCHANGED <<up, holding, verified>>
      /\ holding' = holding /\ localOrderChan' = localOrderChan
      /\ UNCHANGED <<collector, collected, gate, todo, accepted, committed>>
      /\ UNCHANGED <<abandons, proposed>>
  BY DEF SendContent, followerVars, stages, counters
<1>2. m \in Down /\ m.type = "tx"
  BY DEF Down
<1> HIDE DEF m
<1>3. Moved /\ Nearer
  BY <1>1, <1>2, ContentMoves, MovedNearer DEF Live
<1>4. Progressing' /\ Cleared' /\ Owing' /\ Accounted'
  BY <1>1, <1>3, SettledKept
<1>5. Downward'
  BY <1>1, <1>2, DownwardAppend
<1>6. Upward'
  BY <1>1, <1>3, UpwardKept
<1>7. Arrived'
  BY <1>1, <1>3, ArrivedKept
<1> QED  BY <1>4, <1>5, <1>6, <1>7 DEF Running

(* An order nobody wants is dropped. *)
LEMMA RunDrain ==
    ASSUME Live, DrainOrder
    PROVE  Running'
<1> USE LiveFacts
<1>1. /\ up' = up /\ down' = down /\ applied' = applied /\ UNCHANGED <<up, down, holding, verified>>
      /\ holding' = holding /\ localOrderChan # <<>> /\ localOrderChan' = Tail(localOrderChan)
      /\ UNCHANGED <<collector, collected, gate, todo, accepted, committed>>
      /\ UNCHANGED <<abandons, proposed>>
  BY DEF DrainOrder, followerVars, stages, counters
<1>2. Moved /\ Nearer
  BY <1>1, NothingMoved, MovedNearer
<1>3. Progressing' /\ Cleared' /\ Owing' /\ Accounted'
  BY <1>1, <1>2, SettledKept
<1>4. Downward' /\ Upward'
  BY <1>1, <1>2, DownwardKept, UpwardKept
<1>5. Elements(localOrderChan') \subseteq Elements(localOrderChan)
  BY <1>1, TailFacts DEF Live, TypeOK
<1>6. Arrived'
  BY <1>1, <1>2, <1>5, ArrivedKept
<1> QED  BY <1>3, <1>4, <1>6 DEF Running

-----------------------------------------------------------------------------
(* The steps of the followers. *)

(* A follower takes a message from the leader. *)
LEMMA RunFollower ==
    ASSUME Live, NEW f \in Followers, HandleDown(f)
    PROVE  Running'
<1> USE LiveFacts
<1>0. PICK m : m = Head(down[f])
  OBVIOUS
<1>1. /\ down' = [down EXCEPT ![f] = Tail(@)] /\ down[f] # <<>>
      /\ UNCHANGED <<collector, collected, gate, todo, accepted, committed>>
      /\ UNCHANGED <<abandons, proposed>>
      /\ holding' = holding /\ localOrderChan' = localOrderChan
      /\ f \in Replicas
  BY FollowersFinite DEF HandleDown, stages, counters
<1>2. Moved /\ Nearer
  BY AnswerMoves, MovedNearer DEF Live
<1>3. Progressing' /\ Cleared' /\ Owing' /\ Accounted'
  BY <1>1, <1>2, SettledKept
<1>4. down[f] \in Seq(Down) /\ down'[f] = Tail(down[f]) /\ \A g \in Followers \ {f} : down'[g] = down[g]
  BY <1>1 DEF Live, TypeOK
<1>5. /\ m \in Down /\ Elements(down[f]) = {m} \cup Elements(down'[f])
      /\ InOrder(down'[f]) \subseteq InOrder(down[f])
      /\ \A x \in Elements(down'[f]) : <<m, x>> \in InOrder(down[f])
  BY <1>0, <1>1, <1>4, TailFacts
<1>6. PICK ack : ack = [type |-> "verified", from |-> f, seq |-> m.seq,
                        accepted |-> Verifies(f, m.seq)]
  OBVIOUS
<1>7. \/ m.type = "tx" /\ up' = up /\ applied' = applied
      \/ m.type = "candidate" /\ up' = [up EXCEPT ![f] = Append(@, ack)] /\ applied' = applied
      \/ /\ m.type = "commit" /\ up' = up
         /\ \/ applied' = applied
            \/ m.seq = applied[f] + 1 /\ applied' = [applied EXCEPT ![f] = @ + 1]
      \/ m.type = "finish" /\ up' = [up EXCEPT ![f] = Append(@, [type |-> "finish", from |-> f])]
  BY <1>0, <1>6 DEF HandleDown
<1>8. m.type # "finish"
  <2> SUFFICES ASSUME m.type = "finish" PROVE FALSE
    OBVIOUS
  <2>1. PICK finish : finish = [type |-> "finish", from |-> f]
    OBVIOUS
  <2>2. finish \in Up /\ finish.type = "finish"
    BY <2>1 DEF Up, FinishAck
  <2>3. up[f] \in Seq(Up) /\ up'[f] = Append(up[f], finish)
    BY <1>1, <1>7, <2>1 DEF Live, TypeOK, Up
  <2>4. finish \in Elements(up'[f])
    BY <2>2, <2>3, AppendFacts
  <2> QED  BY <1>1, <2>2, <2>4, Fields DEF Live, MessagesTyped
<1>9. /\ applied'[f] \in {applied[f], applied[f] + 1}
      /\ applied'[f] # applied[f] => m.type = "commit" /\ m.seq = applied[f] + 1
      /\ \A g \in Followers \ {f} : applied'[g] = applied[g]
  BY <1>7, <1>8 DEF Live, TypeOK
<1>10. \A g \in Followers : applied[g] <= applied'[g]
  BY <1>9
<1>11. Downward'
  <2>1. \A s \in Asked(f)' : s \in Asked(f)
    BY <1>5 DEF Asked
  <2>2. applied'[f] <= committed
    BY <1>5, <1>9 DEF Downward
  <2>3. ASSUME NEW s \in Asked(f)'  PROVE applied'[f] < s /\ s <= proposed
    <3>1. applied[f] < s /\ s <= proposed /\ s \in Nat
      BY <2>1, LiveNumbers DEF Downward
    <3>2. ASSUME applied'[f] # applied[f]  PROVE applied'[f] < s
      <4>1. m.type = "commit" /\ m.seq = applied'[f]
        BY <1>9, <3>2
      <4>2. PICK x \in Elements(down'[f]) : x.type = "candidate" /\ x.seq = s
        BY DEF Asked
      <4>3. <<m, x>> \in InOrder(down[f]) /\ <<m, x>>[1] = m /\ <<m, x>>[2] = x
        BY <1>5, <4>2
      <4> QED  BY <4>1, <4>2, <4>3 DEF Downward
    <3> QED  BY <3>1, <3>2
  <2>4. ASSUME NEW g \in Followers
        PROVE  /\ applied'[g] <= committed'
               /\ \A s \in Asked(g)' : applied'[g] < s /\ s <= proposed'
               /\ \A x \in Elements(down'[g]) : x.type = "commit" => x.seq <= committed'
               /\ \A p \in InOrder(down'[g]) :
                    p[1].type = "commit" /\ p[2].type = "candidate" => p[1].seq < p[2].seq
    <3>1. CASE g = f
      <4>1. /\ \A x \in Elements(down'[g]) : x.type = "commit" => x.seq <= committed
            /\ \A p \in InOrder(down'[g]) :
                    p[1].type = "commit" /\ p[2].type = "candidate" => p[1].seq < p[2].seq
        BY <1>5, <3>1 DEF Downward
      <4> QED  BY <1>1, <2>2, <2>3, <3>1, <4>1
    <3>2. CASE g # f
      <4>1. down'[g] = down[g] /\ applied'[g] = applied[g] /\ Asked(g)' = Asked(g)
        BY <1>4, <1>9, <3>2 DEF Asked
      <4> QED  BY <1>1, <4>1 DEF Downward
    <3> QED  BY <3>1, <3>2
  <2> QED  BY <2>4 DEF Downward
<1>12. Upward'
  <2>1. CASE up' = up
    BY <1>1, <1>2, <1>10, <2>1, UpwardKept
  <2>2. CASE m.type = "candidate" /\ up' = [up EXCEPT ![f] = Append(@, ack)] /\ applied' = applied
    <3>1. m.seq \in Asked(f) /\ m.seq \in Nat
      BY <1>5, <2>2, Fields DEF Asked
    <3>2. ack.type = "verified" /\ ack.from = f /\ ack.seq = m.seq /\ ack \in Up
      BY <1>6, <3>1 DEF Up, Ack, Verifies
    <3>3. up[f] \in Seq(Up) /\ up'[f] = Append(up[f], ack) /\ \A q \in Replicas \ {f} : up'[q] = up[q]
      BY <1>1, <2>2 DEF Live, TypeOK, Up
    <3>4. /\ Elements(up'[f]) = Elements(up[f]) \cup {ack}
          /\ InOrder(up'[f]) = InOrder(up[f]) \cup {<<x, ack>> : x \in Elements(up[f])}
      BY <3>2, <3>3, AppendFacts
    <3>5. \A q \in Replicas : \A x \in Elements(up'[q]) : x.from = q
      BY <3>2, <3>3, <3>4 DEF Upward
    <3>6. ASSUME NEW g \in Followers, NEW s \in Answered(g)' \cup Waiting(g)'  PROVE s <= proposed
      <4>1. s \in Asked(g) \cup Answered(g) \cup Waiting(g)
        BY <1>2 DEF Nearer
      <4> QED  BY <4>1 DEF Downward, Upward
    <3>7. \A x \in Elements(up'[f]) : x.type = "order" => x.seq <= applied[f] + 1
      BY <3>2, <3>4 DEF Upward
    <3>8. ASSUME NEW p \in InOrder(up'[f]), p[1].type = "order", p[2].type = "verified"
          PROVE  p[1].seq <= p[2].seq
      <4>1. CASE p \in InOrder(up[f])
        BY <3>8, <4>1 DEF Upward
      <4>2. CASE p \notin InOrder(up[f])
        <5>1. PICK x \in Elements(up[f]) : p = <<x, ack>>
          BY <3>4, <4>2
        <5>2. p[1] = x /\ p[2] = ack
          BY <5>1
        <5>3. x.seq <= applied[f] + 1 /\ x.seq \in Nat
          BY <1>1, <3>8, <5>2, Fields DEF Upward, Live, MessagesTyped
        <5>4. applied[f] < m.seq
          BY <3>1 DEF Downward
        <5> QED  BY <3>1, <3>2, <5>2, <5>3, <5>4
      <4> QED  BY <4>1, <4>2
    <3>9. ASSUME NEW g \in Followers
          PROVE  /\ \A s \in Answered(g)' \cup Waiting(g)' : s <= proposed'
                 /\ \A x \in Elements(up'[g]) : x.type = "order" => x.seq <= applied'[g] + 1
                 /\ \A p \in InOrder(up'[g]) :
                    p[1].type = "order" /\ p[2].type = "verified" => p[1].seq <= p[2].seq
      <4>1. CASE g = f
        BY <1>1, <2>2, <3>6, <3>7, <3>8, <4>1
      <4>2. CASE g # f
        <5>1. up'[g] = up[g] /\ proposed' = proposed /\ applied' = applied
          BY <1>1, <2>2, <3>3, <4>2, FollowersFinite
        <5> QED  BY <3>6, <5>1 DEF Upward
      <4> QED  BY <4>1, <4>2
    <3> QED  BY <3>5, <3>9 DEF Upward
  <2> QED  BY <1>7, <1>8, <2>1, <2>2
<1>13. Arrived'
  BY <1>1, <1>2, <1>10, ArrivedKept
<1> QED  BY <1>3, <1>11, <1>12, <1>13 DEF Running

-----------------------------------------------------------------------------
(* The collector's steps. *)

(* The collector begins the next round. *)
LEMMA RunRound ==
    ASSUME Live, RoundDone
    PROVE  Running'
<1> USE LiveFacts
<1>1. /\ up' = up /\ down' = down /\ applied' = applied /\ UNCHANGED <<up, down, holding, verified>>
      /\ holding' = holding /\ localOrderChan' = localOrderChan
      /\ gate = "done" /\ collector = "drain" /\ gate' = "idle" /\ collector' = "collect"
      /\ collected' = collected /\ todo' = todo /\ accepted' = accepted /\ committed' = committed
      /\ abandons' = abandons /\ proposed' = proposed /\ main' = "run"
  BY DEF RoundDone, followerVars, channels, counters, Live
<1>2. Moved /\ Nearer
  BY <1>1, NothingMoved, MovedNearer
<1>3. Progressing'
  BY <1>1 DEF Progressing
<1>4. Downward' /\ Upward' /\ Arrived'
  BY <1>1, <1>2, DownwardKept, UpwardKept, ArrivedKept
<1>5. Cleared' /\ Owing'
  BY <1>1, <1>2, ClearedKept, OwingKept
<1>6. Current' = Current
  BY <1>1 DEF Current
<1>7. Accounted'
  BY <1>1, <1>2, <1>6, AccountedMoved
<1> QED  BY <1>3, <1>4, <1>5, <1>7 DEF Running

(* The n-f replicas scheduled for a fragment are n-f. *)
LEMMA ScheduledNumber ==
    ASSUME NEW s \in Nat
    PROVE  \A S : S \subseteq {r \in Replicas : Scheduled(r, s)} /\ Cardinality(S) >= N - F =>
                S = {r \in Replicas : Scheduled(r, s)}
<1> DEFINE R == {r \in Replicas : Scheduled(r, s)}
           place == [r \in R |-> (r + N - (s % N)) % N]
<1>1. N \in Nat \ {0} /\ F \in Nat /\ N >= 4*F + 1 /\ N - F \in Nat
  BY ReplicaAssumption
<1>2. s % N \in 0 .. N - 1
  BY <1>1
<1>3. \A r \in Replicas : (r + N - (s % N)) % N = IF r >= s % N THEN r - (s % N) ELSE r + N - (s % N)
  BY <1>1, <1>2 DEF Replicas
<1>4. \A q, r \in Replicas : (q + N - (s % N)) % N = (r + N - (s % N)) % N => q = r
  <2> SUFFICES ASSUME NEW q \in Replicas, NEW r \in Replicas,
                      (q + N - (s % N)) % N = (r + N - (s % N)) % N
               PROVE  q = r
    OBVIOUS
  <2>1. PICK d \in 0 .. N - 1 : d = s % N
    BY <1>2
  <2>2. /\ q \in 0 .. N - 1 /\ r \in 0 .. N - 1
        /\ (IF q >= d THEN q - d ELSE q + N - d) = (IF r >= d THEN r - d ELSE r + N - d)
    BY <1>3, <2>1 DEF Replicas
  <2> QED  BY <1>1, <2>1, <2>2
<1>5. place \in Injection(R, 0 .. N - F - 1)
  <2>1. \A r \in R : place[r] \in 0 .. N - F - 1
    BY <1>1, <1>2, <1>3 DEF Scheduled, Replicas
  <2>2. \A q, r \in R : place[q] = place[r] => q = r
    BY <1>4
  <2>3. place \in [R -> 0 .. N - F - 1]
    BY <2>1
  <2> HIDE DEF R, place
  <2> QED  BY <2>2, <2>3 DEF Injection, IsInjective
<1>6. IsFiniteSet(0 .. N - F - 1) /\ Cardinality(0 .. N - F - 1) = N - F
  BY <1>1, FS_Interval
<1>7. IsFiniteSet(R) /\ Cardinality(R) <= N - F
  <2> HIDE DEF R, place
  <2> QED  BY <1>5, <1>6, FS_Injection
<1> HIDE DEF R
<1>8. ASSUME NEW S, S \subseteq R, Cardinality(S) >= N - F  PROVE S = R
  <2>1. IsFiniteSet(S) /\ Cardinality(S) <= Cardinality(R) /\ (Cardinality(S) = Cardinality(R) => S = R)
    BY <1>7, <1>8, FS_Subset
  <2>2. Cardinality(S) \in Nat /\ Cardinality(R) \in Nat
    BY <1>7, <2>1, FS_CardinalityType
  <2> QED  BY <1>1, <1>7, <1>8, <2>1, <2>2
<1> QED  BY <1>8 DEF R

(* A batch is complete only when all the scheduled followers are ready. *)
LEMMA RunCollect ==
    ASSUME Live, CollectOrder
    PROVE  Running'
<1> USE LiveFacts
<1>0. PICK m : m = Head(localOrderChan)
  OBVIOUS
<1>1. PICK senders : senders = IF Wanted(m) THEN collected \cup {m.from} ELSE collected
  OBVIOUS
<1>2. /\ up' = up /\ down' = down /\ applied' = applied /\ UNCHANGED <<up, down, holding, verified>>
      /\ holding' = holding /\ localOrderChan # <<>> /\ localOrderChan' = Tail(localOrderChan)
      /\ todo' = todo /\ accepted' = accepted /\ committed' = committed
      /\ abandons' = abandons /\ proposed' = proposed /\ main' = "run" /\ collector = "collect"
      /\ \/ /\ Cardinality(senders) >= N - F
            /\ collected' = {} /\ collector' = "drain" /\ gate' = "construct"
         \/ collected' = senders /\ collector' = collector /\ gate' = gate
  BY <1>0, <1>1 DEF CollectOrder, followerVars, counters, Live
<1>3. Moved /\ Nearer
  BY <1>2, NothingMoved, MovedNearer
<1>4. gate = "idle"
  BY <1>2 DEF Progressing
<1>5. Progressing'
  BY <1>2, <1>4 DEF Progressing
<1>6. Downward' /\ Upward' /\ Owing'
  BY <1>2, <1>3, <1>4, DownwardKept, UpwardKept, OwingKept
<1>7. m \in Order /\ m \in Elements(localOrderChan) /\ Elements(localOrderChan') \subseteq Elements(localOrderChan)
  BY <1>0, <1>2, TailFacts DEF Live, TypeOK
<1>8. \A r \in senders : /\ Scheduled(r, committed + 1) /\ r \in Replicas
                         /\ r \in Followers => Ready(r, committed + 1)
  <2>1. \A r \in collected : /\ Scheduled(r, committed + 1) /\ r \in Replicas
                             /\ r \in Followers => Ready(r, committed + 1)
    BY DEF Arrived, Live, TypeOK
  <2>2. ASSUME Wanted(m)
        PROVE  /\ Scheduled(m.from, committed + 1) /\ m.from \in Replicas
               /\ m.from \in Followers => Ready(m.from, committed + 1)
    <3>1. m.seq = committed + 1 /\ Scheduled(m.from, committed + 1)
      BY <2>2 DEF Wanted
    <3> QED  BY <1>7, <3>1, Fields DEF Arrived
  <2> QED  BY <1>1, <2>1, <2>2
<1>9. Arrived'
  <2>1. ASSUME NEW r \in collected'
        PROVE  Scheduled(r, committed + 1)' /\ (r \in Followers => Ready(r, committed + 1)')
    <3>1. r \in senders
      BY <1>2
    <3>2. Scheduled(r, committed + 1)'
      BY <1>2, <1>8, <3>1
    <3>3. ASSUME r \in Followers  PROVE Ready(r, committed + 1)'
      BY <1>2, <1>3, <1>8, <3>1, <3>3 DEF Ready, Nearer
    <3> QED  BY <3>2, <3>3
  <2>2. ASSUME NEW x \in {holding'} \cup Elements(localOrderChan'), x.type = "order", x.from \in Followers
        PROVE  Ready(x.from, x.seq)'
    <3>1. x \in {holding} \cup Elements(localOrderChan)
      BY <1>2, <1>7
    <3>2. x.seq \in Nat /\ Ready(x.from, x.seq)
      BY <2>2, <3>1, Fields DEF Arrived, Live, MessagesTyped
    <3>3. \A f \in Followers : \A s \in Nat : Ready(f, s) => Ready(f, s)'
      BY <1>2, <1>3, ReadyKept
    <3> QED  BY <2>2, <3>2, <3>3
  <2> QED  BY <2>1, <2>2 DEF Arrived
<1>10. Current' = Current
  BY <1>2, <1>4 DEF Current
<1>11. Accounted'
  BY <1>2, <1>3, <1>10, AccountedMoved
<1>12. CASE collected' = senders /\ collector' = collector /\ gate' = gate
  <2>1. Cleared'
    BY <1>2, <1>3, <1>4, <1>12, ClearedKept
  <2> QED  BY <1>5, <1>6, <1>9, <1>11, <2>1 DEF Running
<1>13. CASE Cardinality(senders) >= N - F /\ gate' = "construct"
  <2>1. senders = {r \in Replicas : Scheduled(r, committed + 1)}
    <3>1. committed + 1 \in Nat /\ senders \subseteq {r \in Replicas : Scheduled(r, committed + 1)}
      BY <1>8
    <3> QED  BY <1>13, <3>1, ScheduledNumber
  <2>2. ASSUME NEW f \in Followers, Scheduled(f, committed + 1), NEW t \in Asked(f) \cup Answered(f)
        PROVE  committed + 1 <= t
    <3>1. Ready(f, committed + 1)
      BY <1>8, <2>1, <2>2, FollowersFinite
    <3> QED  BY <3>1 DEF Ready
  <2>3. \A f \in Followers : Owes(f)' \subseteq Owes(f)
    BY <1>3 DEF Moved
  <2>4. \A f \in Followers : \A j \in 1 .. committed' : Scheduled(f, j) => \A t \in Owes(f)' : j <= t
    BY <1>2, <2>3, OwesKept
  <2>5. \A f \in Followers : Scheduled(f, committed' + 1) =>
            \A t \in Asked(f)' \cup Answered(f)' : committed' + 1 <= t
    BY <1>2, <1>3, <2>2 DEF Nearer
  <2>6. verified' = verified /\ \A p \in InOrder(verified) :
            p[1].seq = committed + 1 /\ Scheduled(p[2].from, committed + 1) => committed + 1 <= p[2].seq
    BY <1>2 DEF Cleared
  <2>7. Cleared'
    BY <1>2, <1>13, <2>4, <2>5, <2>6 DEF Cleared
  <2> QED  BY <1>5, <1>6, <1>9, <1>11, <2>7 DEF Running
<1> QED  BY <1>2, <1>12, <1>13

-----------------------------------------------------------------------------
(* The steps of Propose. *)

(* A candidate is built. *)
LEMMA RunConstruct ==
    ASSUME Live, ConstructCandidate
    PROVE  Running'
<1> USE LiveFacts
<1>1. /\ up' = up /\ down' = down /\ applied' = applied /\ UNCHANGED <<up, down, holding, verified>>
      /\ holding' = holding /\ localOrderChan' = localOrderChan
      /\ gate = "construct" /\ gate' = "broadcast" /\ todo' = Followers /\ accepted' = {Leader}
      /\ collector' = collector /\ collected' = collected /\ committed' = committed
      /\ abandons' = abandons /\ proposed' = committed + 1 /\ main' = "run"
  BY DEF ConstructCandidate, channels, Live
<1>2. Moved /\ Nearer
  BY <1>1, NothingMoved, MovedNearer
<1>3. Progressing'
  BY <1>1 DEF Progressing
<1>4. proposed <= proposed'
  BY <1>1 DEF Progressing
<1>5. Downward' /\ Upward' /\ Arrived'
  BY <1>1, <1>2, <1>4, DownwardKept, UpwardKept, ArrivedKept
<1>6. Cleared'
  BY <1>1, <1>2, ClearedKept
<1>7. Owing'
  BY <1>1 DEF Owing
<1>8. Current' = Current
  <2>1. Current = 0
    BY <1>1 DEF Current
  <2>2. Current' = N - 1 - Cardinality(Followers)
    BY <1>1 DEF Current
  <2> QED  BY <2>1, <2>2, FollowersFinite
<1>9. Accounted'
  BY <1>1, <1>2, <1>8, AccountedMoved
<1> QED  BY <1>3, <1>5, <1>6, <1>7, <1>9 DEF Running

(* An attempt that is abandoned with at most n-2 of its answers unread. *)
LEMMA AbandonCounts ==
    ASSUME Live, Abandon, committed' = committed, Current \in Nat,
           \A f \in Followers : Owes(f) \subseteq Owes(f)',
           Unread' + Current <= Unread + (N - 2), NEW g \in Followers
    PROVE  Accounted'
<1> USE LiveFacts
<1>1. abandons' = abandons + 1 /\ gate' = "done"
  BY DEF Abandon
<1>2. Current' = 0
  BY <1>1 DEF Current
<1>3. \A a, b \in Int : (a + 1) * b = a * b + b /\ a * b \in Int
  OBVIOUS
<1>4. abandons' * (N - 2) = abandons * (N - 2) + (N - 2) /\ abandons * (N - 2) \in Int
  <2>1. PICK b \in Int : b = N - 2
    OBVIOUS
  <2>2. (abandons + 1) * b = abandons * b + b /\ abandons * b \in Int
    BY <1>3
  <2> QED  BY <1>1, <2>1, <2>2
<1>5. Unread \in Nat /\ Unread' \in Nat
  BY UnreadType, UnreadNatNext DEF Live
<1>6. Unread' + abandons * (N - 2) + Current <= Unread + abandons' * (N - 2) + Current'
  <2>1. \A u, v, x, y, z \in Int : u + x <= v + z => u + y + x <= v + (y + z) + 0
    OBVIOUS
  <2> QED  BY <1>2, <1>4, <1>5, <2>1
<1> QED  BY <1>2, <1>6, AccountedKept

(* A failed send leaves at least the follower it was for without a         *)
(* candidate.                                                              *)
LEMMA RunFailedSend ==
    ASSUME Live, NEW f \in Followers, gate = "broadcast", IsNext(f, todo), Abandon,
           UNCHANGED <<up, down, holding, localOrderChan, verified, applied, collector, collected,
                       committed, proposed>>
    PROVE  Running'
<1> USE LiveFacts
<1>1. /\ up' = up /\ down' = down /\ applied' = applied /\ UNCHANGED <<up, down, holding, verified>>
      /\ holding' = holding /\ localOrderChan' = localOrderChan /\ gate' = "done" /\ main' = "run"
      /\ collector' = collector /\ collected' = collected /\ committed' = committed
      /\ proposed' = proposed
  BY DEF Abandon, Live
<1>2. Moved /\ Nearer
  BY <1>1, NothingMoved, MovedNearer
<1>3. Progressing'
  BY <1>1 DEF Progressing
<1>4. Downward' /\ Upward' /\ Arrived'
  BY <1>1, <1>2, DownwardKept, UpwardKept, ArrivedKept
<1>5. Cleared' /\ Owing'
  BY <1>1, <1>2, ClearedKept, OwingKept
<1>6. Current \in Nat /\ Current <= N - 2
  <2>1. f \in todo /\ IsFiniteSet(todo) /\ Cardinality(todo) \in Nat
    BY FollowersFinite, FS_Subset, FS_CardinalityType DEF IsNext, Live, TypeOK
  <2>2. Cardinality(todo) # 0
    BY <2>1, FS_EmptySet
  <2>3. Current = N - 1 - Cardinality(todo)
    BY DEF Current
  <2>4. Current \in Nat
    BY CurrentType DEF Live
  <2> QED  BY <2>1, <2>2, <2>3, <2>4
<1>7. Unread' = Unread /\ Unread \in Nat /\ \A g \in Followers : Owes(g) \subseteq Owes(g)'
  BY <1>2, UnreadType DEF Moved, Live
<1>8. Unread' + Current <= Unread + (N - 2)
  BY <1>6, <1>7
<1>9. Accounted'
  BY <1>1, <1>6, <1>7, <1>8, AbandonCounts
<1> QED  BY <1>3, <1>4, <1>5, <1>9 DEF Running

(* A follower is sent the candidate. *)
LEMMA RunCandidate ==
    ASSUME Live, NEW f \in Followers, gate = "broadcast", IsNext(f, todo),
           Send(f, [type |-> "candidate", seq |-> committed + 1]), todo' = todo \ {f},
           gate' = IF todo' = {} THEN "wait" ELSE "broadcast",
           UNCHANGED <<up, holding, localOrderChan, verified, applied, accepted, collector,
                       collected, committed, abandons, proposed>>
    PROVE  Running'
<1> USE LiveFacts
<1>0. PICK m : m = [type |-> "candidate", seq |-> committed + 1]
  OBVIOUS
<1>1. /\ up' = up /\ applied' = applied /\ holding' = holding /\ verified' = verified
      /\ localOrderChan' = localOrderChan /\ main' = "run" /\ abandons' = abandons
      /\ collector' = collector /\ collected' = collected /\ committed' = committed
      /\ proposed' = proposed /\ accepted' = accepted /\ gate' \in {"wait", "broadcast"}
      /\ proposed = committed + 1 /\ accepted = {Leader}
  BY DEF Live, Progressing
<1>2. m \in Down /\ m.type = "candidate" /\ m.seq = committed + 1
  BY <1>0 DEF Down
<1>3. /\ down \in [Followers -> Seq(Down)]
      /\ down'[f] = Append(down[f], m) /\ \A g \in Followers \ {f} : down'[g] = down[g]
  BY <1>0 DEF Send, Live, TypeOK
<1>4. Elements(down'[f]) = Elements(down[f]) \cup {m}
  BY <1>2, <1>3, AppendFacts
<1>5. Asked(f)' = Asked(f) \cup {committed + 1}
  <2>1. {x \in Elements(down'[f]) : x.type = "candidate"}
            = {x \in Elements(down[f]) : x.type = "candidate"} \cup {m}
    BY <1>2, <1>4
  <2> QED  BY <1>2, <2>1 DEF Asked
<1>6. \A g \in Followers : /\ g # f => Asked(g)' = Asked(g)
                           /\ Answered(g)' = Answered(g) /\ Waiting(g)' = Waiting(g)
  BY <1>1, <1>3 DEF Asked, Answered, Waiting, IsAck
<1>7. \A g \in Followers : /\ Owes(g) \subseteq Owes(g)'
                           /\ Owes(g)' \subseteq Owes(g) \cup {committed + 1}
                           /\ Asked(g)' \subseteq Asked(g) \cup {committed + 1}
  BY <1>5, <1>6 DEF Owes
<1>8. committed + 1 \in Owes(f)'
  BY <1>5 DEF Owes
<1>9. Progressing'
  BY <1>1 DEF Progressing
<1>10. Downward'
  BY <1>0, <1>1, <1>2, DownwardAppend
<1>11. Upward'
  BY <1>1, <1>6 DEF Upward
<1>12. Arrived'
  <2>1. ASSUME NEW g \in Followers, NEW s \in Nat, s <= committed + 1, Ready(g, s)
        PROVE  Ready(g, s)'
    BY <1>1, <1>6, <1>7, <2>1 DEF Ready
  <2>2. ASSUME NEW g \in Followers, NEW s \in Nat, Ready(g, s)
        PROVE  Ready(g, s)'
    <3>1. s <= applied[g] + 1 /\ applied[g] <= committed
      BY <2>2 DEF Ready, Downward
    <3>2. s <= committed + 1
      BY <3>1
    <3> QED  BY <2>1, <2>2, <3>2
  <2>3. ASSUME NEW x \in {holding'} \cup Elements(localOrderChan'), x.type = "order", x.from \in Followers
        PROVE  Ready(x.from, x.seq)'
    <3>1. x \in {holding} \cup Elements(localOrderChan)
      BY <1>1
    <3>2. x.seq \in Nat /\ Ready(x.from, x.seq)
      BY <2>3, <3>1, Fields DEF Arrived, Live, MessagesTyped
    <3> QED  BY <2>2, <2>3, <3>2
  <2>4. ASSUME NEW r \in collected'
        PROVE  Scheduled(r, committed + 1)' /\ (r \in Followers => Ready(r, committed + 1)')
    <3>1. collected = {}
      BY DEF Progressing, Live, TypeOK
    <3> QED  BY <1>1, <3>1
  <2> QED  BY <2>3, <2>4 DEF Arrived
<1>13. Cleared'
  <2>1. ASSUME NEW g \in Followers, NEW j \in 1 .. committed', Scheduled(g, j), NEW t \in Owes(g)'
        PROVE  j <= t
    <3>1. j \in 1 .. committed /\ t \in Owes(g) \cup {committed + 1}
      BY <1>1, <1>7
    <3> QED  BY <2>1, <3>1 DEF Cleared
  <2>2. ASSUME NEW g \in Followers, Scheduled(g, committed' + 1), NEW t \in Asked(g)' \cup Answered(g)'
        PROVE  committed' + 1 <= t
    <3>1. t \in Asked(g) \cup Answered(g) \/ t = committed + 1
      BY <1>6, <1>7
    <3> QED  BY <1>1, <2>2, <3>1 DEF Cleared
  <2>3. \A p \in InOrder(verified') :
            p[1].seq = committed' + 1 /\ Scheduled(p[2].from, committed' + 1) => committed' + 1 <= p[2].seq
    BY <1>1 DEF Cleared
  <2> QED  BY <1>1, <2>1, <2>2, <2>3 DEF Cleared
<1>14. Owing'
  <2>1. \A g \in Followers \ todo' : committed + 1 \in Owes(g)'
    BY <1>7, <1>8 DEF Owing
  <2>2. gate' = "wait" => todo' = {}
    OBVIOUS
  <2> QED  BY <1>1, <2>1, <2>2 DEF Owing
<1>15. Accounted'
  <2>1. Unread' = Unread + 1 /\ Unread \in Nat
    <3>1. Changed(down', down, Followers, Down, f)
      BY <1>3 DEF Changed, Live, TypeOK
    <3>2. m \in Down => Total(down', "candidate") = Total(down, "candidate") + One(m, "candidate")
      BY <1>3, <3>1, FollowersFinite, FamilyAppend
    <3>3. One(m, "candidate") = 1
      BY <1>2 DEF One
    <3>4. /\ Total(down, "candidate") \in Nat /\ Total(up, "verified") \in Nat
          /\ One(holding, "verified") \in Nat /\ Len(verified) \in Nat /\ Unread \in Nat
      BY UnreadType DEF Live
    <3>5. Unread' = (Total(down, "candidate") + 1) + Total(up, "verified") + One(holding, "verified") + Len(verified)
      BY <1>1, <1>2, <3>2, <3>3 DEF Unread
    <3>6. Unread = Total(down, "candidate") + Total(up, "verified") + One(holding, "verified") + Len(verified)
      BY DEF Unread
    <3>7. PICK a \in Nat, b \in Nat, c \in Nat, d \in Nat :
            /\ a = Total(down, "candidate") /\ b = Total(up, "verified")
            /\ c = One(holding, "verified") /\ d = Len(verified)
      BY <3>4
    <3>9. Unread' = (a + 1) + b + c + d /\ Unread = a + b + c + d
      BY <3>5, <3>6, <3>7
    <3>10. a \in Nat /\ b \in Nat /\ c \in Nat /\ d \in Nat
      BY <3>7
    <3>8. Unread' = Unread + 1
      BY ONLY <3>9, <3>10
    <3> QED  BY <3>4, <3>8
  <2>2. Current' = Current + 1 /\ Current \in Nat
    <3>1. f \in todo /\ IsFiniteSet(todo) /\ Cardinality(todo) \in Nat
      BY FollowersFinite, FS_Subset, FS_CardinalityType DEF IsNext, Live, TypeOK
    <3>2. Cardinality(todo') = Cardinality(todo) - 1
      BY <3>1, FS_RemoveElement
    <3>3. Current = N - 1 - Cardinality(todo)
      BY DEF Current
    <3>4. Current \in Nat
      BY CurrentType DEF Live
    <3>5. CASE todo' = {}
      <4>1. Current' = N - Cardinality(accepted)
        BY <1>1, <3>5 DEF Current
      <4>2. Cardinality(accepted) = 1 /\ Cardinality(todo') = 0
        BY <1>1, <3>5, FS_Singleton, FS_EmptySet
      <4> QED  BY <3>1, <3>2, <3>3, <3>4, <4>1, <4>2
    <3>6. CASE todo' # {}
      <4>1. Current' = N - 1 - Cardinality(todo')
        BY <1>1, <3>6 DEF Current
      <4> QED  BY <3>1, <3>2, <3>3, <3>4, <4>1
    <3> QED  BY <3>5, <3>6
  <2>3. Unread' + abandons * (N - 2) + Current <= Unread + abandons' * (N - 2) + Current'
    <3>1. abandons * (N - 2) \in Int
      OBVIOUS
    <3>2. \A u, a, c \in Int : (u + 1) + a + c <= u + a + (c + 1)
      OBVIOUS
    <3> QED  BY <1>1, <2>1, <2>2, <3>1, <3>2
  <2> QED  BY <1>1, <1>7, <2>2, <2>3, AccountedKept
<1> QED  BY <1>9, <1>10, <1>11, <1>12, <1>13, <1>14, <1>15 DEF Running

(* Either of the two. *)
LEMMA RunSendCandidate ==
    ASSUME Live, NEW f \in Followers, SendCandidate(f)
    PROVE  Running'
<1>1. /\ gate = "broadcast" /\ IsNext(f, todo)
      /\ UNCHANGED <<up, holding, localOrderChan, verified, applied, collector, collected,
                     committed, proposed>>
      /\ \/ /\ Send(f, [type |-> "candidate", seq |-> committed + 1]) /\ todo' = todo \ {f}
            /\ gate' = IF todo' = {} THEN "wait" ELSE "broadcast"
            /\ accepted' = accepted /\ abandons' = abandons
         \/ Abandon /\ down' = down
  BY DEF SendCandidate, followerVars
<1>2. CASE Abandon /\ down' = down
  BY <1>1, <1>2, RunFailedSend
<1>3. CASE /\ Send(f, [type |-> "candidate", seq |-> committed + 1]) /\ todo' = todo \ {f}
           /\ gate' = IF todo' = {} THEN "wait" ELSE "broadcast"
           /\ accepted' = accepted /\ abandons' = abandons
  BY <1>1, <1>3, RunCandidate
<1> QED  BY <1>1, <1>2, <1>3

(* A follower is sent the commit. *)
LEMMA RunSendCommit ==
    ASSUME Live, NEW f \in Followers, SendCommit(f)
    PROVE  Running'
<1> USE LiveFacts
<1>0. PICK m : m = [type |-> "commit", seq |-> committed]
  OBVIOUS
<1>1. /\ Send(f, m) /\ UNCHANGED <<up, holding, verified>>
      /\ up' = up /\ applied' = applied /\ holding' = holding /\ localOrderChan' = localOrderChan
      /\ gate = "commit" /\ gate' \in {"commit", "done"} /\ main' = "run"
      /\ collector' = collector /\ collected' = collected /\ committed' = committed
      /\ proposed' = proposed /\ abandons' = abandons /\ accepted' = accepted
  BY <1>0 DEF SendCommit, followerVars, counters, Live
<1>2. m \in Down /\ m.type = "commit" /\ m.seq = committed
  BY <1>0 DEF Down
<1>3. Moved /\ Nearer
  BY <1>1, <1>2, ContentMoves, MovedNearer DEF Live
<1>4. Progressing'
  BY <1>1 DEF Progressing
<1>5. Downward'
  BY <1>1, <1>2, DownwardAppend
<1>6. Upward' /\ Arrived'
  BY <1>1, <1>3, UpwardKept, ArrivedKept
<1>7. Cleared' /\ Owing'
  BY <1>1, <1>3, ClearedKept, OwingKept
<1>8. Current' = Current
  BY <1>1 DEF Current
<1>9. Accounted'
  BY <1>1, <1>3, <1>8, AccountedMoved
<1> QED  BY <1>4, <1>5, <1>6, <1>7, <1>9 DEF Running

(* One answer has been read: what its follower owes changes only for the     *)
(* fragment it is about.                                                     *)
Read(ack) ==
    /\ ack \in Ack /\ ack \in Elements(verified) /\ verified' = Tail(verified)
    /\ \A f \in Followers :
        /\ Asked(f)' = Asked(f) /\ Answered(f)' = Answered(f) /\ Waiting(f)' \subseteq Waiting(f)
        /\ Owes(f)' \subseteq Owes(f)
        /\ \A s \in Owes(f) : s \in Owes(f)' \/ (f = ack.from /\ s = ack.seq)
    /\ InOrder(verified') \subseteq InOrder(verified)
    /\ \A x \in Elements(verified') : <<ack, x>> \in InOrder(verified)
    /\ Unread = Unread' + 1

(* Propose takes the head of hosting.verified. *)
LEMMA ReadMoves ==
    ASSUME Live, verified # <<>>, verified' = Tail(verified), UNCHANGED <<up, down, holding>>
    PROVE  Read(Head(verified))
<1> USE LiveFacts
<1>0. PICK ack : ack = Head(verified)
  OBVIOUS
<1>1. up' = up /\ down' = down /\ holding' = holding
  OBVIOUS
<1>2. /\ verified \in Seq(Ack \cup FinishAck) /\ Elements(verified) = {ack} \cup Elements(verified')
      /\ InOrder(verified') \subseteq InOrder(verified)
      /\ \A x \in Elements(verified') : <<ack, x>> \in InOrder(verified)
  BY <1>0, TailFacts DEF Live, TypeOK
<1>3. ack \in Ack /\ ack \in Elements(verified)
  BY <1>2 DEF Live, MessagesTyped
<1>4. ASSUME NEW f \in Followers
      PROVE  /\ Asked(f)' = Asked(f) /\ Answered(f)' = Answered(f) /\ Waiting(f)' \subseteq Waiting(f)
             /\ \A s \in Waiting(f) : s \in Waiting(f)' \/ (f = ack.from /\ s = ack.seq)
  <2>1. Asked(f)' = Asked(f) /\ Answered(f)' = Answered(f)
    BY <1>1 DEF Asked, Answered, IsAck
  <2>2. Waiting(f)' \subseteq Waiting(f)
    BY <1>2 DEF Waiting, IsAck
  <2>3. ASSUME NEW s \in Waiting(f)  PROVE s \in Waiting(f)' \/ (f = ack.from /\ s = ack.seq)
    <3>1. PICK x \in Elements(verified) : IsAck(x, f) /\ x.seq = s
      BY DEF Waiting
    <3>2. CASE x = ack
      BY <3>1, <3>2 DEF IsAck
    <3>3. CASE x # ack
      <4>1. x \in Elements(verified')
        BY <1>2, <3>3
      <4> QED  BY <3>1, <4>1 DEF Waiting, IsAck
    <3> QED  BY <3>2, <3>3
  <2> QED  BY <2>1, <2>2, <2>3
<1>5. \A f \in Followers : /\ Owes(f)' \subseteq Owes(f)
                           /\ \A s \in Owes(f) : s \in Owes(f)' \/ (f = ack.from /\ s = ack.seq)
  BY <1>4 DEF Owes
<1>6. Unread = Unread' + 1
  <2>1. Len(verified) \in Nat /\ Len(verified') = Len(verified) - 1
    BY <1>2
  <2>2. PICK a \in Int, b \in Int, c \in Int, d \in Int :
            /\ a = Total(down, "candidate") /\ b = Total(up, "verified")
            /\ c = One(holding, "verified") /\ d = Len(verified)
    BY UnreadType DEF Live
  <2>3. Unread = a + b + c + d /\ Unread' = a + b + c + (d - 1)
    BY <1>1, <2>1, <2>2 DEF Unread
  <2>4. a \in Int /\ b \in Int /\ c \in Int /\ d \in Int
    BY <2>2
  <2>5. Unread = Unread' + 1
    BY ONLY <2>3, <2>4
  <2> QED  BY <2>5
<1> QED  BY <1>0, <1>2, <1>3, <1>4, <1>5, <1>6 DEF Read

(* It may have been one of the debts. *)
LEMMA DebtRead ==
    ASSUME Live, NEW ack, Read(ack), NEW debts, Debts(debts), committed' = committed
    PROVE  LET rest == debts \ {<<ack.from, ack.seq>>}
           IN  /\ IsFiniteSet(rest) /\ Cardinality(rest) \in Nat
               /\ Cardinality(debts) \in Nat /\ Cardinality(rest) + 1 >= Cardinality(debts)
               /\ ack.seq = committed + 1 => rest = debts
               /\ rest \subseteq Followers \X (1 .. committed')
               /\ \A p \in rest : p[2] \in Owes(p[1])'
               /\ \A s \in Nat : Cardinality(Of(rest, s)) <= F
<1> USE LiveFacts
<1> DEFINE rest == debts \ {<<ack.from, ack.seq>>}
<1>1. /\ IsFiniteSet(debts) /\ Cardinality(debts) \in Nat /\ IsFiniteSet(rest)
      /\ Cardinality(rest) \in Nat
  BY FS_Subset, FS_CardinalityType DEF Debts
<1>2. Cardinality(rest) + 1 >= Cardinality(debts)
  <2>1. CASE <<ack.from, ack.seq>> \in debts
    <3>1. Cardinality(rest) = Cardinality(debts) - 1
      BY <1>1, <2>1, FS_RemoveElement
    <3> HIDE DEF rest
    <3> QED  BY <1>1, <3>1
  <2>2. CASE <<ack.from, ack.seq>> \notin debts
    <3>1. rest = debts
      BY <2>2
    <3>2. \A m, n \in Nat : m = n => m + 1 >= n
      OBVIOUS
    <3> HIDE DEF rest
    <3> QED  BY <1>1, <3>1, <3>2
  <2> QED  BY <2>1, <2>2
<1>3. ack.seq = committed + 1 => rest = debts
  <2> SUFFICES ASSUME ack.seq = committed + 1, <<ack.from, ack.seq>> \in debts  PROVE FALSE
    OBVIOUS
  <2>1. <<ack.from, ack.seq>>[2] \in 1 .. committed
    BY DEF Debts
  <2> QED  BY <2>1
<1>4. rest \subseteq Followers \X (1 .. committed')
  BY DEF Debts
<1>6. ASSUME NEW p \in rest  PROVE p[2] \in Owes(p[1])'
  <2>1. p \in Followers \X (1 .. committed) /\ p[2] \in Owes(p[1]) /\ p # <<ack.from, ack.seq>>
    BY DEF Debts
  <2>2. p[1] \in Followers /\ p = <<p[1], p[2]>>
    BY <2>1
  <2>3. p[2] \in Owes(p[1])' \/ (p[1] = ack.from /\ p[2] = ack.seq)
    BY <2>1, <2>2 DEF Read
  <2> QED  BY <2>1, <2>2, <2>3
<1>5. ASSUME NEW s \in Nat  PROVE Cardinality(Of(rest, s)) <= F
  <2>1. Of(rest, s) \subseteq Of(debts, s) /\ Of(debts, s) \subseteq debts
    BY DEF Of
  <2>2. IsFiniteSet(Of(debts, s)) /\ Cardinality(Of(debts, s)) \in Nat
    BY <1>1, <2>1, FS_Subset, FS_CardinalityType
  <2>3. Cardinality(Of(rest, s)) \in Nat /\ Cardinality(Of(rest, s)) <= Cardinality(Of(debts, s))
    BY <2>1, <2>2, FS_Subset, FS_CardinalityType
  <2>4. Cardinality(Of(debts, s)) <= F
    BY DEF Debts
  <2> QED  BY <2>2, <2>3, <2>4
<1> QED  BY <1>1, <1>2, <1>3, <1>4, <1>5, <1>6

(* It is stale, or counted, or a rejection that ends the attempt. *)
LEMMA RunRead ==
    ASSUME Live, ReceiveVerified
    PROVE  Running'
<1> USE LiveFacts
<1>0. PICK ack : ack = Head(verified)
  OBVIOUS
<1>1. /\ up' = up /\ down' = down /\ applied' = applied /\ UNCHANGED <<up, down, holding>>
      /\ holding' = holding /\ localOrderChan' = localOrderChan /\ gate = "wait"
      /\ verified # <<>> /\ verified' = Tail(verified) /\ main' = "run"
      /\ collector' = collector /\ collected' = collected /\ committed' = committed
      /\ proposed' = proposed
      /\ \/ /\ ~Counts(ack) /\ gate' = gate /\ accepted' = accepted /\ abandons' = abandons
         \/ /\ Counts(ack) /\ gate' = gate /\ accepted' = accepted \cup {ack.from}
            /\ abandons' = abandons
         \/ Counts(ack) /\ Abandon
  BY <1>0 DEF ReceiveVerified, followerVars, Live
<1>2. Read(ack) /\ ack \in Ack /\ ack.from \in Followers /\ ack.seq \in Nat /\ ack.type = "verified"
  BY <1>0, <1>1, ReadMoves, Fields DEF Read
<1>3. Nearer
  BY <1>2 DEF Read, Nearer
<1>4. proposed = committed + 1 /\ Leader \in accepted
  BY <1>1 DEF Progressing
<1>5. gate' = "wait" \/ gate' = "done"
  BY <1>1 DEF Abandon
<1>6. gate' = "wait" => accepted' = accepted \/ accepted' = accepted \cup {ack.from}
  BY <1>1 DEF Abandon
<1>7. Progressing'
  BY <1>1, <1>4, <1>5, <1>6 DEF Progressing
<1>8. Downward' /\ Upward' /\ Arrived'
  BY <1>1, <1>3, DownwardKept, UpwardKept, ArrivedKept
<1>9. Cleared'
  <2>1. \A f \in Followers : \A j \in 1 .. committed' : Scheduled(f, j) => \A t \in Owes(f)' : j <= t
    <3>1. \A f \in Followers : Owes(f)' \subseteq Owes(f)
      BY <1>2 DEF Read
    <3> QED  BY <1>1, <3>1, OwesKept
  <2>2. \A f \in Followers : Scheduled(f, committed' + 1) =>
            \A t \in Asked(f)' \cup Answered(f)' : committed' + 1 <= t
    BY <1>1, <1>3, <1>4 DEF Cleared, Nearer
  <2>3. \A p \in InOrder(verified') :
            p[1].seq = committed' + 1 /\ Scheduled(p[2].from, committed' + 1) => committed' + 1 <= p[2].seq
    BY <1>1, <1>2 DEF Cleared, Read
  <2>4. ASSUME gate' = "wait", accepted' # {Leader}, NEW f \in Followers,
               Scheduled(f, committed' + 1), NEW t \in Waiting(f)'
        PROVE  committed' + 1 <= t
    <3>1. CASE accepted # {Leader}
      BY <1>1, <1>2, <2>4, <3>1 DEF Cleared, Read
    <3>2. CASE accepted = {Leader}
      <4>1. ack.seq = committed + 1
        BY <1>1, <2>4, <3>2 DEF Counts, Abandon
      <4>2. PICK x \in Elements(verified') : IsAck(x, f) /\ x.seq = t
        BY DEF Waiting
      <4>3. <<ack, x>> \in InOrder(verified) /\ <<ack, x>>[1] = ack /\ <<ack, x>>[2] = x
        BY <1>2, <4>2 DEF Read
      <4>4. x.from = f
        BY <4>2 DEF IsAck
      <4> QED  BY <1>1, <2>4, <4>1, <4>2, <4>3, <4>4 DEF Cleared
    <3> QED  BY <3>1, <3>2
  <2> QED  BY <2>1, <2>2, <2>3, <2>4 DEF Cleared
<1>10. Owing'
  <2>1. ASSUME gate' = "wait", NEW f \in Followers \ accepted'  PROVE committed + 1 \in Owes(f)'
    <3>1. f \notin accepted /\ committed + 1 \in Owes(f)
      BY <1>1, <1>6, <2>1 DEF Owing
    <3>2. ~(f = ack.from /\ committed + 1 = ack.seq)
      <4> SUFFICES ASSUME f = ack.from, committed + 1 = ack.seq  PROVE FALSE
        OBVIOUS
      <4>1. Counts(ack)
        BY <3>1 DEF Counts
      <4>2. accepted' = accepted \cup {ack.from}
        BY <1>1, <2>1, <4>1 DEF Abandon
      <4> QED  BY <2>1, <4>2
    <3> QED  BY <1>2, <3>1, <3>2 DEF Read
  <2> QED  BY <1>1, <1>5, <2>1 DEF Owing
<1>11. Accounted'
  <2>1. PICK debts : Debts(debts)
    BY DEF Accounted
  <2>2. PICK rest : rest = debts \ {<<ack.from, ack.seq>>}
    OBVIOUS
  <2>3. /\ IsFiniteSet(rest) /\ Cardinality(rest) \in Nat
        /\ Cardinality(debts) \in Nat /\ Cardinality(rest) + 1 >= Cardinality(debts)
        /\ ack.seq = committed + 1 => rest = debts
        /\ rest \subseteq Followers \X (1 .. committed')
        /\ \A p \in rest : p[2] \in Owes(p[1])'
        /\ \A s \in Nat : Cardinality(Of(rest, s)) <= F
    BY <1>1, <1>2, <2>1, <2>2, DebtRead
  <2>4. /\ Unread <= abandons * (N - 2) + Cardinality(debts) + Current
        /\ Unread = Unread' + 1 /\ Unread \in Nat /\ Unread' \in Nat
    BY <1>2, <2>1, UnreadType, UnreadNatNext DEF Debts, Read, Live
  <2>5. PICK a \in Int : a = abandons * (N - 2)
    OBVIOUS
  <2>6. /\ IsFiniteSet(accepted) /\ Cardinality(accepted) \in Nat /\ Cardinality(accepted) >= 1
        /\ Current = N - Cardinality(accepted) /\ Current \in Nat
    <3>1. IsFiniteSet(accepted) /\ Cardinality(accepted) \in Nat
      BY FollowersFinite, FS_Subset, FS_CardinalityType DEF Live, TypeOK
    <3>2. Cardinality(accepted) # 0
      BY <1>4, <3>1, FS_EmptySet
    <3>3. Current \in Nat
      BY <1>4, CurrentType DEF Live
    <3> QED  BY <1>1, <3>1, <3>2, <3>3 DEF Current
  <2>7. Unread' <= abandons' * (N - 2) + Cardinality(rest) + Current'
    <3>1. CASE ~Counts(ack) /\ gate' = gate /\ accepted' = accepted /\ abandons' = abandons
      <4>1. Current' = Current /\ abandons' * (N - 2) = a
        BY <1>1, <2>5, <3>1 DEF Current
      <4> QED  BY <2>3, <2>4, <2>5, <2>6, <4>1
    <3>2. CASE Counts(ack) /\ gate' = gate /\ accepted' = accepted \cup {ack.from} /\ abandons' = abandons
      <4>1. ack.from \notin accepted /\ rest = debts /\ abandons' * (N - 2) = a
        BY <2>3, <2>5, <3>2 DEF Counts
      <4>2. Cardinality(accepted') = Cardinality(accepted) + 1
        BY <2>6, <3>2, <4>1, FS_AddElement
      <4>3. Current' = N - Cardinality(accepted')
        BY <1>1, <3>2 DEF Current
      <4>4. Current' = Current - 1
        BY <2>6, <4>2, <4>3
      <4> QED  BY <2>3, <2>4, <2>5, <2>6, <4>1, <4>4
    <3>3. CASE Counts(ack) /\ Abandon
      <4>1. rest = debts /\ gate' = "done" /\ abandons' = abandons + 1
        BY <2>3, <3>3 DEF Counts, Abandon
      <4>2. Current' = 0
        BY <4>1 DEF Current
      <4>3. PICK b \in Int : b = N - 2
        OBVIOUS
      <4>4. \A x, y \in Int : (x + 1) * y = x * y + y
        OBVIOUS
      <4>5. abandons' * (N - 2) = a + b
        BY <2>5, <4>1, <4>3, <4>4
      <4>6. Current <= b + 1
        BY <2>6, <4>3
      <4> QED  BY <2>3, <2>4, <2>5, <2>6, <4>1, <4>2, <4>3, <4>5, <4>6
    <3> QED  BY <1>1, <3>1, <3>2, <3>3
  <2>8. Debts(rest)'
    BY <2>3, <2>7 DEF Debts
  <2> QED  BY <2>8 DEF Accounted
<1> QED  BY <1>7, <1>8, <1>9, <1>10, <1>11 DEF Running

(* At most f answers of a committed fragment are left. *)
LEMMA RunCommit ==
    ASSUME Live, CommitCandidate
    PROVE  Running'
<1> USE LiveFacts
<1>1. /\ up' = up /\ down' = down /\ applied' = applied /\ UNCHANGED <<up, down, holding, verified>>
      /\ holding' = holding /\ localOrderChan' = localOrderChan /\ verified' = verified
      /\ gate = "wait" /\ Quorum /\ gate' = "commit" /\ accepted' = {} /\ main' = "run"
      /\ collector' = collector /\ collected' = collected /\ committed' = committed + 1
      /\ proposed' = proposed /\ abandons' = abandons
  BY DEF CommitCandidate, channels, followerVars, counters, Live
<1>2. Moved /\ Nearer
  BY <1>1, NothingMoved, MovedNearer
<1>3. proposed = committed + 1 /\ Leader \in accepted
  BY <1>1 DEF Progressing
<1>4. Progressing'
  BY <1>1, <1>3 DEF Progressing
<1>5. collected' = {}
  BY <1>1 DEF Progressing, Live, TypeOK
<1>6. Downward' /\ Upward' /\ Arrived'
  BY <1>1, <1>2, <1>5, DownwardKept, UpwardKept, ArrivedKept
<1>7. /\ IsFiniteSet(accepted) /\ Cardinality(accepted) \in Nat /\ Cardinality(accepted) >= N - F
      /\ accepted \subseteq Replicas
  BY <1>1, FollowersFinite, FS_Subset, FS_CardinalityType DEF Live, TypeOK, Quorum
<1>8. \A f \in Followers : Owes(f)' = Owes(f)
  BY <1>2 DEF Moved
<1>9. Cleared'
  <2>1. ASSUME NEW f \in Followers, NEW j \in 1 .. committed', Scheduled(f, j), NEW t \in Owes(f)'
        PROVE  j <= t
    <3>1. CASE j \in 1 .. committed
      BY <1>8, <2>1, <3>1 DEF Cleared
    <3>2. CASE j = committed + 1
      <4>1. accepted # {Leader}
        <5> SUFFICES ASSUME accepted = {Leader}  PROVE FALSE
          OBVIOUS
        <5>1. Cardinality(accepted) = 1
          BY FS_Singleton
        <5>2. N = 1
          BY <1>7, <5>1
        <5>3. Cardinality(Followers) = 0
          BY <5>2, FollowersFinite
        <5> QED  BY <2>1, <5>3, FollowersFinite, FS_EmptySet
      <4>2. t \in Asked(f) \cup Answered(f) \/ t \in Waiting(f)
        BY <1>8, <2>1 DEF Owes
      <4> QED  BY <1>1, <1>3, <2>1, <3>2, <4>1, <4>2 DEF Cleared
    <3> QED  BY <1>1, <3>1, <3>2
  <2>2. ~(gate' = "construct" \/ proposed' = committed' + 1)
    BY <1>1, <1>3
  <2>3. ASSUME NEW p \in InOrder(verified')  PROVE p[1].seq # committed' + 1
    <3>1. PICK k \in (DOMAIN verified) \X (DOMAIN verified) : p = <<verified[k[1]], verified[k[2]]>>
      BY <1>1 DEF InOrder
    <3>2. p[1] \in Elements(verified)
      BY <3>1 DEF Elements
    <3>3. p[1] \in Ack /\ p[1].type = "verified" /\ p[1].from \in Followers /\ p[1].seq \in Nat
      BY <3>2, Fields DEF Live, MessagesTyped
    <3>4. p[1].seq \in Waiting(p[1].from)
      BY <3>2, <3>3 DEF Waiting, IsAck
    <3>5. p[1].seq <= proposed
      BY <3>3, <3>4 DEF Upward
    <3> QED  BY <1>1, <1>3, <3>3, <3>5
  <2>4. gate' # "wait"
    BY <1>1
  <2> QED  BY <2>1, <2>2, <2>3, <2>4 DEF Cleared
<1>10. Owing'
  BY <1>1 DEF Owing
<1>11. Accounted'
  <2>1. PICK debts : Debts(debts)
    BY DEF Accounted
  <2>2. PICK new : new = {<<f, committed + 1>> : f \in Followers \ accepted}
    OBVIOUS
  <2>3. Followers \ accepted = Replicas \ accepted
    BY <1>3 DEF Followers
  <2>4. /\ IsFiniteSet(Followers \ accepted)
        /\ Cardinality(Followers \ accepted) = N - Cardinality(accepted)
    <3>2. /\ IsFiniteSet(Replicas \ accepted)
          /\ Cardinality(Replicas \ accepted) = Cardinality(Replicas) - Cardinality(Replicas \cap accepted)
      BY FollowersFinite, FS_Difference
    <3>3. Replicas \cap accepted = accepted
      BY <1>7
    <3> QED  BY <2>3, <3>2, <3>3, FollowersFinite
  <2>5. IsFiniteSet(new) /\ Cardinality(new) = N - Cardinality(accepted)
    <3> DEFINE pair == [f \in Followers \ accepted |-> <<f, committed + 1>>]
    <3>1. pair \in Bijection(Followers \ accepted, new)
      <4>1. \A f \in Followers \ accepted : pair[f] = <<f, committed + 1>> /\ pair[f] \in new
        BY <2>2
      <4>2. \A f, g \in Followers \ accepted : pair[f] = pair[g] => f = g
        BY <4>1
      <4>3. \A p \in new : \E f \in Followers \ accepted : pair[f] = p
        BY <2>2
      <4>4. pair \in [Followers \ accepted -> new]
        BY <4>1
      <4> HIDE DEF pair
      <4> QED  BY <4>2, <4>3, <4>4 DEF Bijection, Injection, Surjection, IsInjective
    <3> HIDE DEF pair
    <3> QED  BY <2>4, <3>1, FS_Bijection DEF ExistsBijection
  <2>6. debts \cap new = {} /\ \A s \in Nat : IF s = committed + 1 THEN Of(debts \cup new, s) = new
                                                                   ELSE Of(debts \cup new, s) = Of(debts, s)
    <3>1. \A p \in debts : p[2] \in 1 .. committed
      BY <2>1 DEF Debts
    <3>2. \A p \in debts : p[2] # committed + 1
      BY <3>1
    <3>3. \A p \in new : p[2] = committed + 1
      BY <2>2
    <3> QED  BY <3>2, <3>3 DEF Of
  <2>7. /\ IsFiniteSet(debts) /\ Cardinality(debts) \in Nat
        /\ IsFiniteSet(debts \cup new)
        /\ Cardinality(debts \cup new) = Cardinality(debts) + Cardinality(new)
    <3>1. IsFiniteSet(debts) /\ Cardinality(debts) \in Nat /\ Cardinality(new) \in Nat
      BY <2>1, <2>5, FS_CardinalityType DEF Debts
    <3>2. Cardinality(debts \cup new) = Cardinality(debts) + Cardinality(new) - Cardinality({})
      BY <2>5, <2>6, <3>1, FS_Union
    <3>3. IsFiniteSet(debts \cup new)
      BY <2>5, <3>1, FS_Union
    <3> QED  BY <3>1, <3>2, <3>3, FS_EmptySet
  <2>8. debts \cup new \subseteq Followers \X (1 .. committed')
    <3>1. debts \subseteq Followers \X (1 .. committed)
      BY <2>1 DEF Debts
    <3>2. committed + 1 \in 1 .. committed' /\ 1 .. committed \subseteq 1 .. committed'
      BY <1>1
    <3>3. new \subseteq Followers \X (1 .. committed')
      BY <2>2, <3>2
    <3> QED  BY <3>1, <3>2, <3>3
  <2>12. \A p \in debts \cup new : p[2] \in Owes(p[1])'
    <3>1. ASSUME NEW p \in debts  PROVE p[2] \in Owes(p[1])'
      <4>1. p[1] \in Followers /\ p[2] \in Owes(p[1])
        BY <2>1 DEF Debts
      <4> QED  BY <1>8, <4>1
    <3>2. ASSUME NEW p \in new  PROVE p[2] \in Owes(p[1])'
      <4>1. PICK f \in Followers \ accepted : p = <<f, committed + 1>>
        BY <2>2
      <4>2. p[1] = f /\ p[2] = committed + 1
        BY <4>1
      <4>3. committed + 1 \in Owes(f)
        BY <1>1, <4>1 DEF Owing
      <4> QED  BY <1>8, <4>1, <4>2, <4>3
    <3> QED  BY <3>1, <3>2
  <2>9. \A s \in Nat : Cardinality(Of(debts \cup new, s)) <= F
    <3>1. Cardinality(new) <= F
      BY <1>7, <2>5
    <3> QED  BY <2>1, <2>6, <3>1 DEF Debts
  <2>10. Unread' <= abandons' * (N - 2) + Cardinality(debts \cup new) + Current'
    <3>1. Current' = 0 /\ Current = N - Cardinality(accepted)
      BY <1>1 DEF Current
    <3>2. Unread' = Unread /\ Unread \in Nat /\ Unread <= abandons * (N - 2) + Cardinality(debts) + Current
      BY <1>2, <2>1, UnreadType DEF Moved, Debts, Live
    <3>3. PICK a \in Int : a = abandons * (N - 2)
      OBVIOUS
    <3> QED  BY <1>1, <1>7, <2>5, <2>7, <3>1, <3>2, <3>3
  <2>11. Debts(debts \cup new)'
    BY <2>7, <2>8, <2>9, <2>10, <2>12 DEF Debts
  <2> QED  BY <2>11 DEF Accounted
<1> QED  BY <1>4, <1>6, <1>9, <1>10, <1>11 DEF Running

(* Only Expire ends the time, and nothing leaves the run before. *)
LEMMA BeforeTheDeadline ==
    ASSUME [Next]_vars, ~expired'
    PROVE  ~expired /\ (main = "run" => main' = "run")
<1>1. CASE UNCHANGED vars
  BY <1>1 DEF vars
<1>2. CASE WorkerStep
  BY <1>2 DEF WorkerStep, Unblock, HandleMessage
<1>3. CASE CollectorStep
  BY <1>3 DEF CollectorStep, CollectOrder, DrainOrder
<1>4. CASE ProposerStep
  BY <1>4 DEF ProposerStep, ConstructCandidate, ReceiveVerified, AbandonExpired, CommitCandidate,
              RoundDone, SendCandidate, SendCommit
<1>5. CASE MainStep
  BY <1>5 DEF MainStep, CancelPipeline, Finish, ReceiveFinish, ShutDown, SendFinish
<1>6. CASE SubmitterStep
  BY <1>6 DEF SubmitterStep, SendContent
<1>7. CASE StopCollector \/ StopProposer \/ Expire
  BY <1>7 DEF StopCollector, StopProposer, Expire
<1>8. CASE \E r \in Replicas : SendLocalOrder(r)
  BY <1>8 DEF SendLocalOrder
<1>9. CASE \E f \in Followers : HandleDown(f)
  BY <1>9 DEF HandleDown
<1> QED
  BY <1>1, <1>2, <1>3, <1>4, <1>5, <1>6, <1>7, <1>8, <1>9 DEF Next

(* The types of the messages, as an implication. *)
LEMMA RunMessages == IInv /\ main = "run" => MessagesTyped
  BY MessagesHaveTypes

(* And after a step. *)
LEMMA RunMessagesNext == (IInv /\ main = "run")' => MessagesTyped'
  BY RunMessages, PTL

(* Every step keeps the invariant. *)
LEMMA BacklogStep == Backlog /\ [Next]_vars => Backlog'
<1> SUFFICES ASSUME Backlog, [Next]_vars PROVE Backlog'
  OBVIOUS
<1>1. IInv /\ IInv'
  BY StepCorrect DEF Backlog
<1> SUFFICES ASSUME ~expired' PROVE Running'
  BY <1>1 DEF Backlog
<1>2. ~expired /\ Running /\ main = "run" /\ main' = "run"
  BY BeforeTheDeadline DEF Backlog, Running, Progressing
<1>3. MessagesTyped /\ MessagesTyped'
  BY <1>1, <1>2, RunMessages, RunMessagesNext
<1>4. Live
  BY <1>1, <1>2, <1>3 DEF Live, IInv
<1>5. CASE UNCHANGED vars
  <2>1. /\ UNCHANGED <<up, down, holding, verified>>
        /\ UNCHANGED <<collector, collected, gate, todo, accepted, committed>>
        /\ UNCHANGED <<abandons, proposed>>
        /\ up' = up /\ down' = down /\ applied' = applied /\ holding' = holding
        /\ localOrderChan' = localOrderChan /\ collected' = collected /\ committed' = committed
        /\ proposed' = proposed
    BY <1>5 DEF vars, channels, stages, counters, followerVars
  <2>2. Moved /\ Nearer
    BY <2>1, NothingMoved, MovedNearer
  <2>3. Progressing' /\ Cleared' /\ Owing' /\ Accounted'
    BY <1>4, <2>1, <2>2, SettledKept
  <2>4. Downward' /\ Upward' /\ Arrived'
    BY <1>4, <2>1, <2>2, LiveFacts, DownwardKept, UpwardKept, ArrivedKept
  <2> QED  BY <2>3, <2>4 DEF Running
<1>6. CASE WorkerStep
  BY <1>4, <1>6, RunWorker, RunUnblock DEF WorkerStep
<1>7. CASE CollectorStep
  BY <1>4, <1>7, RunCollect, RunDrain DEF CollectorStep
<1>8. CASE ProposerStep
  <2>1. ~AbandonExpired
    BY <1>2 DEF AbandonExpired
  <2> QED  BY <1>4, <1>8, <2>1, RunConstruct, RunRead, RunCommit, RunRound, RunSendCandidate, RunSendCommit
           DEF ProposerStep
<1>9. CASE MainStep
  BY <1>2, <1>9 DEF MainStep, CancelPipeline, Finish, ReceiveFinish, ShutDown, SendFinish
<1>10. CASE SubmitterStep
  BY <1>4, <1>10, RunContent DEF SubmitterStep
<1>11. CASE StopCollector \/ StopProposer \/ Expire
  BY <1>2, <1>11 DEF StopCollector, StopProposer, Expire
<1>12. CASE \E r \in Replicas : SendLocalOrder(r)
  BY <1>4, <1>12, RunOrder
<1>13. CASE \E f \in Followers : HandleDown(f)
  BY <1>4, <1>13, RunFollower
<1> QED
  BY <1>5, <1>6, <1>7, <1>8, <1>9, <1>10, <1>11, <1>12, <1>13 DEF Next

-----------------------------------------------------------------------------
(* How many debts there can be. *)

(* The place of a replica in the rotation for a fragment. *)
Place(r, s) == (r + N - (s % N)) % N

(* The remainder of a number is the one given. *)
LEMMA Remainder ==
    ASSUME NEW n \in Nat \ {0}, NEW k \in Int, NEW e \in 0 .. n - 1
    PROVE  (k * n + e) % n = e
  OBVIOUS

(* Places in the rotation are distinct. *)
LEMMA Places ==
    ASSUME NEW s \in Nat
    PROVE  /\ \A r \in Replicas :
                /\ Place(r, s) \in 0 .. N - 1 /\ s % N \in 0 .. N - 1
                /\ Place(r, s) = IF r >= s % N THEN r - (s % N) ELSE r + N - (s % N)
           /\ \A q, r \in Replicas : Place(q, s) = Place(r, s) => q = r
<1>1. N \in Nat \ {0}
  BY ReplicaAssumption
<1>2. s % N \in 0 .. N - 1
  BY <1>1
<1>3. PICK d \in 0 .. N - 1 : d = s % N
  BY <1>2
<1>4. \A r \in Replicas : Place(r, s) = IF r >= d THEN r - d ELSE r + N - d
  BY <1>1, <1>3 DEF Replicas, Place
<1>5. \A r \in Replicas : Place(r, s) \in 0 .. N - 1
  BY <1>1, <1>3, <1>4 DEF Replicas
<1>6. ASSUME NEW q \in Replicas, NEW r \in Replicas, Place(q, s) = Place(r, s)
      PROVE  q = r
  <2>1. /\ q \in 0 .. N - 1 /\ r \in 0 .. N - 1
        /\ (IF q >= d THEN q - d ELSE q + N - d) = (IF r >= d THEN r - d ELSE r + N - d)
    BY <1>4, <1>6 DEF Replicas
  <2> QED  BY <1>1, <1>3, <2>1
<1> QED  BY <1>2, <1>3, <1>4, <1>5, <1>6

(* Who is i places before the end of the rotation was first i fragments ago. *)
LEMMA FirstBefore ==
    ASSUME NEW s \in Nat, NEW i \in 1 .. N - 1, i <= s, NEW r \in Replicas, Place(r, s) = N - i
    PROVE  Place(r, s - i) = 0
<1>1. N \in Nat \ {0} /\ i \in Nat
  BY ReplicaAssumption
<1>2. PICK d \in 0 .. N - 1 : d = s % N
  BY <1>1
<1>3. PICK k \in Nat : s = k * N + d
  <2>1. s = (s \div N) * N + (s % N) /\ s \div N \in Nat
    BY <1>1
  <2> QED  BY <1>2, <2>1
<1>4. r \in 0 .. N - 1 /\ (IF r >= d THEN r - d ELSE r + N - d) = N - i
  BY <1>2, Places DEF Replicas
<1>5. r = IF d >= i THEN d - i ELSE d - i + N
  BY <1>1, <1>4
<1>6. (s - i) % N = r
  <2>1. CASE d >= i
    <3>1. s - i = k * N + r
      <4>1. PICK z \in Int : z = k * N
        BY <1>1, <1>3
      <4>2. s = z + d /\ r = d - i
        BY <1>3, <1>5, <2>1, <4>1
      <4> QED  BY <1>1, <1>2, <4>1, <4>2
    <3> QED  BY <1>1, <1>4, <3>1, Remainder
  <2>2. CASE d < i
    <3>1. \A x, y \in Int : (x - 1) * y = x * y - y
      OBVIOUS
    <3>2. (k - 1) * N = k * N - N
      BY <1>1, <3>1
    <3>3. s - i = (k - 1) * N + r
      <4>1. PICK z \in Int : z = k * N
        BY <1>1, <1>3
      <4>2. s = z + d /\ r = d - i + N /\ (k - 1) * N = z - N
        BY <1>1, <1>2, <1>3, <1>5, <2>2, <3>2, <4>1
      <4> QED  BY <1>1, <1>2, <4>2
    <3> QED  BY <1>1, <1>4, <3>3, Remainder
  <2> QED  BY <1>1, <2>1, <2>2
<1>7. (r + N - r) % N = 0
  BY <1>1, <1>4
<1> QED  BY <1>6, <1>7 DEF Place

(* A triangle is half of its rectangle. *)
Triangle == {p \in (0 .. F - 1) \X (0 .. F) : p[1] + p[2] <= F - 1}

(* Turned over, it covers the other half. *)
LEMMA TriangleSize ==
    IsFiniteSet(Triangle) /\ Cardinality(Triangle) \in Nat /\ 2 * Cardinality(Triangle) <= F * (F + 1)
<1> DEFINE rectangle == (0 .. F - 1) \X (0 .. F)
           turn == [p \in Triangle |-> <<F - 1 - p[1], F - p[2]>>]
           other == {<<F - 1 - p[1], F - p[2]>> : p \in Triangle}
<1>1. F \in Nat
  BY ReplicaAssumption
<1>2. IsFiniteSet(rectangle) /\ Cardinality(rectangle) = F * (F + 1)
  <2>1. IsFiniteSet(0 .. F - 1) /\ Cardinality(0 .. F - 1) = F
    BY <1>1, FS_Interval
  <2>2. IsFiniteSet(0 .. F) /\ Cardinality(0 .. F) = F + 1
    BY <1>1, FS_Interval
  <2>3. /\ IsFiniteSet((0 .. F - 1) \X (0 .. F))
        /\ Cardinality((0 .. F - 1) \X (0 .. F)) = Cardinality(0 .. F - 1) * Cardinality(0 .. F)
    BY <2>1, <2>2, FS_Product
  <2> QED  BY <2>1, <2>2, <2>3
<1>3. IsFiniteSet(Triangle) /\ Cardinality(Triangle) \in Nat
  BY <1>2, FS_Subset, FS_CardinalityType DEF Triangle
<1>4. \A p \in Triangle : p[1] \in 0 .. F - 1 /\ p[2] \in 0 .. F /\ p[1] + p[2] <= F - 1 /\ p = <<p[1], p[2]>>
  BY DEF Triangle
<1>5. turn \in Bijection(Triangle, other)
  <2>1. \A p \in Triangle : turn[p] = <<F - 1 - p[1], F - p[2]>> /\ turn[p] \in other
    OBVIOUS
  <2>2. ASSUME NEW p \in Triangle, NEW q \in Triangle, turn[p] = turn[q]  PROVE p = q
    <3>1. F - 1 - p[1] = F - 1 - q[1] /\ F - p[2] = F - q[2]
      BY <2>1, <2>2
    <3>2. p[1] = q[1] /\ p[2] = q[2]
      BY <1>1, <1>4, <3>1
    <3> QED  BY <1>4, <3>2
  <2>3. \A q \in other : \E p \in Triangle : turn[p] = q
    OBVIOUS
  <2>4. turn \in [Triangle -> other]
    BY <2>1
  <2> HIDE DEF turn, other
  <2> QED  BY <2>2, <2>3, <2>4 DEF Bijection, Injection, Surjection, IsInjective
<1>6. IsFiniteSet(other) /\ Cardinality(other) = Cardinality(Triangle)
  <2> HIDE DEF turn, other
  <2> QED  BY <1>3, <1>5, FS_Bijection DEF ExistsBijection
<1>7. Triangle \cap other = {}
  <2> SUFFICES ASSUME NEW p \in Triangle, <<F - 1 - p[1], F - p[2]>> \in Triangle  PROVE FALSE
    OBVIOUS
  <2>1. <<F - 1 - p[1], F - p[2]>>[1] + <<F - 1 - p[1], F - p[2]>>[2] <= F - 1
    BY <1>4
  <2>2. (F - 1 - p[1]) + (F - p[2]) <= F - 1
    BY <2>1
  <2> QED  BY <1>1, <1>4, <2>2
<1>8. Triangle \cup other \subseteq rectangle
  <2>1. \A p \in Triangle : <<F - 1 - p[1], F - p[2]>> \in rectangle
    BY <1>1, <1>4
  <2> QED  BY <2>1 DEF Triangle
<1>9. Cardinality(Triangle \cup other) = Cardinality(Triangle) + Cardinality(other) - Cardinality({})
  <2> HIDE DEF other
  <2> QED  BY <1>3, <1>6, <1>7, FS_Union
<1>10. Cardinality(Triangle \cup other) <= F * (F + 1)
  <2> HIDE DEF other, rectangle
  <2> QED  BY <1>2, <1>8, FS_Subset
<1> HIDE DEF other
<1> QED  BY <1>3, <1>6, <1>9, <1>10, FS_EmptySet

(* A follower owes an answer for an older fragment only if it was left out *)
(* of every batch since: its place in the rotation and the age of the      *)
(* fragment lie in the triangle.                                           *)
LEMMA DebtsBounded ==
    ASSUME TypeOK, Cleared, NEW debts, Debts(debts)
    PROVE  Cardinality(debts) \in Nat /\ 2 * Cardinality(debts) <= F * (F + 3)
<1> DEFINE c == committed
           last == Of(debts, c)
           older == debts \ last
           spot == [p \in older |-> <<Place(p[1], c) - (N - F), c - p[2] - 1>>]
<1>1. N \in Nat \ {0} /\ F \in Nat /\ N >= 4*F + 1 /\ c \in Nat
  BY ReplicaAssumption DEF TypeOK
<1>2. IsFiniteSet(debts) /\ IsFiniteSet(last) /\ IsFiniteSet(older) /\ Cardinality(last) <= F
  BY <1>1, FS_Subset DEF Debts, Of
<1>3. ASSUME NEW p \in older
      PROVE  /\ p[1] \in Replicas /\ p[2] \in 1 .. c - 1 /\ p = <<p[1], p[2]>>
             /\ Place(p[1], c) \in N - F .. N - 1
             /\ (Place(p[1], c) - (N - F)) + (c - p[2] - 1) <= F - 1
  <2>1. p \in Followers \X (1 .. c) /\ p[2] # c /\ p[2] \in Owes(p[1])
    BY DEF Debts, Of
  <2>2. p[1] \in Followers /\ p[1] \in Replicas /\ p[2] \in 1 .. c - 1 /\ p = <<p[1], p[2]>>
    BY <1>1, <2>1, FollowersFinite
  <2>3. \A j \in p[2] + 1 .. c : ~Scheduled(p[1], j)
    <3> SUFFICES ASSUME NEW j \in p[2] + 1 .. c, Scheduled(p[1], j)  PROVE FALSE
      OBVIOUS
    <3>1. j \in 1 .. c
      BY <1>1, <2>2
    <3>2. j <= p[2]
      BY <2>1, <2>2, <3>1 DEF Cleared
    <3> QED  BY <1>1, <2>2, <3>2
  <2>4. Place(p[1], c) \in 0 .. N - 1
    BY <1>1, <2>2, Places
  <2>5. Place(p[1], c) >= N - F
    <3>1. c \in p[2] + 1 .. c
      BY <1>1, <2>2
    <3>2. ~Scheduled(p[1], c)
      BY <2>3, <3>1
    <3> QED  BY <1>1, <2>4, <3>2 DEF Scheduled, Place
  <2>6. ASSUME (Place(p[1], c) - (N - F)) + (c - p[2] - 1) > F - 1
        PROVE  FALSE
    <3> DEFINE i == N - Place(p[1], c)
    <3>1. i \in 1 .. N - 1 /\ i <= c /\ c - i \in p[2] + 1 .. c /\ Place(p[1], c) = N - i
      BY <1>1, <2>2, <2>4, <2>5, <2>6
    <3> HIDE DEF i
    <3>2. Place(p[1], c - i) = 0
      BY <1>1, <2>2, <3>1, FirstBefore
    <3>3. Scheduled(p[1], c - i)
      BY <1>1, <3>2 DEF Scheduled, Place
    <3> QED  BY <2>3, <3>1, <3>3
  <2>7. (Place(p[1], c) - (N - F)) + (c - p[2] - 1) <= F - 1
    BY <1>1, <2>2, <2>4, <2>6
  <2> QED  BY <1>1, <2>2, <2>4, <2>5, <2>7
<1>4. spot \in Injection(older, Triangle)
  <2>1. ASSUME NEW p \in older
        PROVE  <<Place(p[1], c) - (N - F), c - p[2] - 1>> \in Triangle
    <3>1. PICK x \in Int, y \in Int : x = Place(p[1], c) - (N - F) /\ y = c - p[2] - 1
      BY <1>1, <1>3
    <3>2. x \in 0 .. F - 1 /\ y \in 0 .. F /\ x + y <= F - 1
      BY <1>1, <1>3, <3>1
    <3>3. <<x, y>> \in Triangle
      BY <3>2 DEF Triangle
    <3> QED  BY <3>1, <3>3
  <2>2. ASSUME NEW p \in older, NEW q \in older,
               <<Place(p[1], c) - (N - F), c - p[2] - 1>> = <<Place(q[1], c) - (N - F), c - q[2] - 1>>
        PROVE  p = q
    <3>1. Place(p[1], c) - (N - F) = Place(q[1], c) - (N - F) /\ c - p[2] - 1 = c - q[2] - 1
      BY <2>2
    <3>2. Place(p[1], c) = Place(q[1], c) /\ p[2] = q[2]
      BY <1>1, <1>3, <3>1
    <3>3. p[1] = q[1]
      BY <1>1, <1>3, <3>2, Places
    <3> QED  BY <1>3, <3>2, <3>3
  <2> HIDE DEF older, c
  <2>3. \A p \in older : spot[p] = <<Place(p[1], c) - (N - F), c - p[2] - 1>>
    OBVIOUS
  <2>4. spot \in [older -> Triangle]
    BY <2>1
  <2> HIDE DEF spot
  <2> QED  BY <2>2, <2>3, <2>4 DEF Injection, IsInjective
<1>5. Cardinality(older) <= Cardinality(Triangle)
  <2> HIDE DEF older, spot
  <2> QED  BY <1>2, <1>4, TriangleSize, FS_Injection
<1>6. Cardinality(debts) = Cardinality(last) + Cardinality(older)
  <2>1. last \cup older = debts /\ last \cap older = {}
    BY DEF Of
  <2> HIDE DEF last, older
  <2>2. Cardinality(last \cup older) = Cardinality(last) + Cardinality(older) - Cardinality(last \cap older)
    BY <1>2, FS_Union
  <2>3. Cardinality(last) \in Nat /\ Cardinality(older) \in Nat
    BY <1>2, FS_CardinalityType
  <2>4. Cardinality(debts) = Cardinality(last) + Cardinality(older) - 0
    BY <2>1, <2>2, FS_EmptySet
  <2> QED  BY <2>3, <2>4
<1>7. /\ Cardinality(last) \in Nat /\ Cardinality(older) \in Nat /\ Cardinality(debts) \in Nat
  BY <1>2, FS_CardinalityType
<1> HIDE DEF last, older
<1>8. F * (F + 3) = F * (F + 1) + 2 * F /\ F * (F + 1) \in Int
  BY <1>1
<1>9. 2 * Cardinality(debts) <= F * (F + 3)
  <2>1. PICK z \in Int : z = F * (F + 1)
    BY <1>8
  <2>2. 2 * Cardinality(Triangle) <= z /\ Cardinality(Triangle) \in Nat
    BY <2>1, TriangleSize
  <2>3. 2 * Cardinality(debts) <= z + 2 * F
    BY <1>1, <1>2, <1>5, <1>6, <1>7, <2>1, <2>2
  <2> QED  BY <1>8, <2>1, <2>3
<1> QED  BY <1>7, <1>9

(* A worker that stands still has more than the full channel unread. *)
LEMMA BacklogImplies == Backlog => WedgeNeedsRetries
<1> SUFFICES ASSUME Backlog, Wedged PROVE abandons * (N - 2) + (F * (F + 3)) \div 2 > 2 * N
  BY DEF WedgeNeedsRetries
<1>1. TypeOK /\ Running /\ gate = "idle" /\ holding.type = "verified" /\ Len(verified) >= 2 * N
  <2>1. Len(verified) \in Nat /\ 2 * N \in Nat
    BY ReplicaAssumption DEF Backlog, IInv, TypeOK
  <2> QED  BY <2>1 DEF Wedged, Backlog, IInv, HasRoom, Capacity
<1>2. N \in Nat /\ F \in Nat /\ abandons \in Nat
  BY <1>1, ReplicaAssumption DEF TypeOK
<1>3. Unread >= 2 * N + 1
  <2>1. One(holding, "verified") = 1
    BY <1>1 DEF One
  <2>2. PICK a \in Nat, b \in Nat, d \in Nat :
            a = Total(down, "candidate") /\ b = Total(up, "verified") /\ d = Len(verified)
    BY <1>1, UnreadType
  <2>3. Unread = a + b + 1 + d /\ d >= 2 * N
    BY <1>1, <2>1, <2>2 DEF Unread
  <2>4. a \in Nat /\ b \in Nat /\ d \in Nat
    BY <2>2
  <2> QED  BY <1>2, <2>3, <2>4
<1>4. PICK debts : Debts(debts)
  BY <1>1 DEF Running, Accounted
<1>5. Cardinality(debts) \in Nat /\ 2 * Cardinality(debts) <= F * (F + 3)
  BY <1>1, <1>4, DebtsBounded DEF Running
<1>6. Unread <= abandons * (N - 2) + Cardinality(debts)
  <2>1. Current = 0
    BY <1>1 DEF Current
  <2>2. PICK a \in Int : a = abandons * (N - 2)
    BY <1>2
  <2> QED  BY <1>4, <1>5, <2>1, <2>2 DEF Debts
<1>7. Cardinality(debts) <= (F * (F + 3)) \div 2
  <2>1. PICK z \in Int : z = F * (F + 3)
    BY <1>2
  <2>2. \A m \in Nat : 2 * m <= z => m <= z \div 2
    OBVIOUS
  <2> QED  BY <1>5, <2>1, <2>2
<1>8. Unread \in Nat
  BY <1>1, UnreadType
<1> QED
  <2>1. PICK a \in Int, b \in Int : a = abandons * (N - 2) /\ b = (F * (F + 3)) \div 2
    BY <1>2
  <2> QED  BY <1>2, <1>3, <1>5, <1>6, <1>7, <1>8, <2>1

(* Until the deadline the worker stands still behind a full channel only     *)
(* after so many abandoned attempts, and how many is counted from the room   *)
(* of the channel, the number of replicas and of the faulty ones.            *)
THEOREM WedgeNeedsRetriesHolds == Spec => []WedgeNeedsRetries
<1>1. Init => Backlog
  BY InitBacklog
<1>2. Backlog /\ [Next]_vars => Backlog'
  BY BacklogStep
<1>3. Backlog => WedgeNeedsRetries
  BY BacklogImplies
<1> QED
  BY <1>1, <1>2, <1>3, PTL DEF Spec
=============================================================================
