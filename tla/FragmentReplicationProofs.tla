---------------------- MODULE FragmentReplicationProofs ----------------------
(***************************************************************************)
(* Proofs about FragmentReplication for every number of replicas, every    *)
(* set of transactions and every bound.                                    *)
(***************************************************************************)
EXTENDS FragmentReplication, FiniteSetTheorems, SequenceTheorems, WellFoundedInduction, TLAPS

-----------------------------------------------------------------------------
(* The operators the model is built from. *)

(* A non-empty set of naturals has a least element. *)
LEMMA LeastNat ==
    ASSUME NEW S \in SUBSET Nat, S # {}
    PROVE  \E x \in S : \A y \in S : x <= y
<1> DEFINE R == {ss \in Nat \X Nat : ss[1] < ss[2]}
<1>1. IsWellFoundedOn(R, Nat)
  BY NatLessThanWellFounded DEF OpToRel
<1>2. \A x, y \in Nat : y < x => <<y, x>> \in R
  OBVIOUS
<1> HIDE DEF R
<1>3. PICK x \in S : \A y \in S : ~(<<y, x>> \in R)
  BY <1>1, WFMin
<1>4. \A y \in S : x <= y
  <2> TAKE y \in S
  <2>1. x \in Nat /\ y \in Nat  OBVIOUS
  <2>2. ~(y < x)  BY <1>2, <1>3, <2>1, Zenon
  <2> QED  BY <2>1, <2>2
<1> QED  BY <1>4

(* Nth picks, for every rank of a finite set of naturals, an element of it. *)
LEMMA NthInSet ==
    ASSUME NEW n \in Nat, NEW S \in SUBSET (1 .. n),
           NEW i \in 1 .. Cardinality(S)
    PROVE  Nth(S, i) \in S /\ Cardinality({y \in S : y <= Nth(S, i)}) = i
<1> DEFINE Below(m) == {y \in S : y <= m}
           Enough == {m \in Nat : Cardinality(Below(m)) >= i}
<1>1. IsFiniteSet(S) /\ Cardinality(S) \in Nat /\ \A y \in S : y \in 1 .. n
  <2>1. IsFiniteSet(1 .. n)  BY FS_Interval
  <2>2. IsFiniteSet(S)  BY <2>1, FS_Subset
  <2> QED  BY <2>2, FS_CardinalityType
<1>2. ASSUME NEW m \in Nat  PROVE  IsFiniteSet(Below(m)) /\ Cardinality(Below(m)) \in Nat
  <2>1. Below(m) \in SUBSET S  OBVIOUS
  <2> HIDE DEF Below
  <2>2. IsFiniteSet(Below(m))  BY <1>1, <2>1, FS_Subset
  <2> QED  BY <2>2, FS_CardinalityType
<1>3. n \in Enough
  <2>1. \A y \in S : y <= n  BY <1>1
  <2>2. Below(n) = S  BY <2>1, Zenon
  <2> QED  BY <1>1, <2>2
<1>4. PICK m \in Enough : \A k \in Enough : m <= k
  <2> HIDE DEF Enough
  <2>1. Enough \in SUBSET Nat  BY DEF Enough
  <2> QED  BY <1>3, <2>1, LeastNat
<1>5. m # 0
  <2>0. \A y \in S : ~(y <= 0)  BY <1>1
  <2>1. Below(0) = {}  BY <2>0, Zenon
  <2>2. Cardinality(Below(0)) = 0  BY <2>1, FS_EmptySet
  <2> QED  BY <1>4, <2>2
<1>6. m - 1 \in Nat /\ ~(m - 1 \in Enough)
  <2> m \in Nat  OBVIOUS
  <2> HIDE DEF Enough
  <2> QED  BY <1>4, <1>5
<1>7. Cardinality(Below(m - 1)) < i
  <2>1. Cardinality(Below(m - 1)) \in Nat  BY <1>2, <1>6
  <2> HIDE DEF Below
  <2> QED  BY <1>6, <2>1
<1>8. CASE m \in S
  <2>0. (\A y \in S : y <= m <=> y <= m - 1 \/ y = m) /\ ~(m <= m - 1)
    BY <1>1, <1>6
  <2>1. Below(m) = Below(m - 1) \cup {m} /\ m \notin Below(m - 1)
    BY <2>0, <1>8, Zenon
  <2>2. Cardinality(Below(m)) = Cardinality(Below(m - 1)) + 1
    <3> HIDE DEF Below
    <3> QED  BY <1>2, <1>6, <2>1, FS_AddElement
  <2>3. Cardinality(Below(m)) = i
    <3>1. Cardinality(Below(m - 1)) \in Nat /\ Cardinality(Below(m)) >= i
      BY <1>2, <1>4, <1>6
    <3> HIDE DEF Below
    <3> QED  BY <1>7, <2>2, <3>1
  <2> QED  BY <1>8, <2>3 DEF Nth
<1>9. CASE m \notin S
  <2>0. \A y \in S : y <= m <=> y <= m - 1
    BY <1>1, <1>6, <1>9
  <2>1. Below(m) = Below(m - 1)  BY <2>0, Zenon
  <2> QED  BY <1>2, <1>4, <1>7, <2>1
<1> QED  BY <1>8, <1>9

(* What is left of a sequence is a sequence over the same elements. *)
LEMMA WithoutType ==
    ASSUME NEW T, NEW seq \in Seq(T), NEW S
    PROVE  Without(seq, S) \in Seq(T)
<1> DEFINE kept == {i \in DOMAIN seq : seq[i] \notin S}
<1>1. Len(seq) \in Nat /\ kept \in SUBSET (1 .. Len(seq))
  OBVIOUS
<1>2. IsFiniteSet(kept) /\ Cardinality(kept) \in Nat
  <2> HIDE DEF kept
  <2>1. IsFiniteSet(1 .. Len(seq))  BY <1>1, FS_Interval
  <2>2. IsFiniteSet(kept)  BY <1>1, <2>1, FS_Subset
  <2> QED  BY <2>2, FS_CardinalityType
<1>3. \A i \in 1 .. Cardinality(kept) : Nth(kept, i) \in kept
  <2> HIDE DEF kept
  <2> QED  BY <1>1, NthInSet
<1>4. \A i \in 1 .. Cardinality(kept) : seq[Nth(kept, i)] \in T
  BY <1>3
<1>5. Without(seq, S) = [i \in 1 .. Cardinality(kept) |-> seq[Nth(kept, i)]]
  BY DEF Without
<1> HIDE DEF kept
<1> QED  BY <1>2, <1>4, <1>5

-----------------------------------------------------------------------------
(* Type correctness. *)

LEMMA MessageTypes ==
    /\ \A tx \in Txs : [type |-> "tx", tx |-> tx] \in Message
    /\ \A h \in History : [type |-> "candidate", history |-> h] \in Message
    /\ \A h \in History : [type |-> "commit", history |-> h] \in Message
    /\ [type |-> "finish"] \in Message
    /\ \A m \in Message : m.type = "tx" => m.tx \in Txs
    /\ \A m \in Message : m.type \in {"candidate", "commit"} => m.history \in History
  BY DEF Message

LEMMA AckTypes ==
    /\ \A h \in History, b \in BOOLEAN :
            [type |-> "verified", history |-> h, accepted |-> b] \in Ack
    /\ [type |-> "finish"] \in Ack
    /\ \A ack \in Ack : ack.type = "verified" => ack.history \in History
  BY DEF Ack

LEMMA NoOrderType == NoOrder \in LocalOrder
  BY ReplicaAssumption DEF NoOrder, LocalOrder, Heads

LEMMA LogHeadType ==
    ASSUME NEW history \in History, NEW r
    PROVE  LogHead(history, r) \in Heads
<1>1. ASSUME NEW k \in DOMAIN history, NEW order \in history[k]
      PROVE  <<k, order.txs>> \in Nat \X Seq(Txs)
  <2>1. k \in 1 .. Len(history) /\ history[k] \in Fragment
    BY DEF History
  <2>2. order \in LocalOrder  BY <2>1 DEF Fragment
  <2> QED  BY <2>1, <2>2 DEF LocalOrder
<1>2. OrdersOf(history, r) \subseteq Nat \X Seq(Txs)
  <2> SUFFICES ASSUME NEW entry \in OrdersOf(history, r)
               PROVE  entry \in Nat \X Seq(Txs)
    OBVIOUS
  <2>1. PICK k \in DOMAIN history :
            entry \in {<<k, order.txs>> : order \in {o \in history[k] : o.replica = r}}
    BY DEF OrdersOf
  <2>2. PICK order \in history[k] : entry = <<k, order.txs>>
    BY <2>1
  <2> QED  BY <1>1, <2>2
<1> QED  BY <1>2, Zenon DEF LogHead, Heads

LEMMA ReversedType ==
    ASSUME NEW T, NEW chunk \in Seq(T)
    PROVE  Reversed(chunk) \in Seq(T)
<1>1. Len(chunk) \in Nat /\ DOMAIN chunk = 1 .. Len(chunk)
      /\ \A i \in 1 .. Len(chunk) : chunk[Len(chunk) - i + 1] \in T
  OBVIOUS
<1>2. Reversed(chunk) = [i \in 1 .. Len(chunk) |-> chunk[Len(chunk) - i + 1]]
  BY <1>1 DEF Reversed
<1> QED  BY <1>1, <1>2

LEMMA FreshOrderType ==
    ASSUME TypeOK, NEW r \in Replicas
    PROVE  FreshOrder(r) \in LocalOrder
<1> DEFINE size == IF Len(receiptQueue[r]) < LoMax THEN Len(receiptQueue[r]) ELSE LoMax
           ids == SubSeq(receiptQueue[r], 1, size)
<1>1. receiptQueue[r] \in Seq(Txs) /\ committed[r] \in History
  BY DEF TypeOK
<1>2. size \in Nat /\ \A i \in 1 .. size : receiptQueue[r][i] \in Txs
  BY <1>1, BoundAssumption
<1>3. ids \in Seq(Txs)
  <2> HIDE DEF size
  <2> QED  BY <1>2, SubSeqProperties
<1>4. Chunk(r, ids) \in Seq(Txs)
  <2> HIDE DEF ids
  <2> QED  BY <1>3, ReversedType DEF Chunk
<1>5. Len(committed[r]) + 1 \in Nat
  BY <1>1 DEF History
<1> HIDE DEF ids
<1> QED  BY <1>1, <1>4, <1>5, LogHeadType DEF FreshOrder, LocalOrder, ids

LEMMA RetainedOrderType ==
    ASSUME TypeOK, NEW r \in Replicas
    PROVE  RetainedOrder(r) \in LocalOrder
<1>1. localOrderPending[r] \in LocalOrder /\ Len(committed[r]) + 1 \in Nat
  BY DEF TypeOK, History
<1> QED  BY <1>1 DEF RetainedOrder, LocalOrder

(* What CommitPending leaves is well typed. *)
LEMMA CommitPendingType ==
    ASSUME TypeOK, NEW r \in Replicas, CommitPending(r)
    PROVE  /\ committed' \in [Replicas -> History]
           /\ pending' \in [Replicas -> History]
           /\ received' \in [Replicas -> Seq(Txs)]
           /\ receiptQueue' \in [Replicas -> Seq(Txs)]
           /\ localOrderPending' \in [Replicas -> LocalOrder]
<1>1. committed' \in [Replicas -> History] /\ pending' \in [Replicas -> History]
  BY DEF TypeOK, CommitPending, NoCandidate, History
<1>2. received' \in [Replicas -> Seq(Txs)]
  BY DEF TypeOK, CommitPending
<1>3. receiptQueue' \in [Replicas -> Seq(Txs)]
  <2> DEFINE ids == UNION {Ids(order.txs) : order \in OwnOrders(r)}
  <2>1. receiptQueue' = [receiptQueue EXCEPT ![r] = Without(receiptQueue[r], ids)]
    BY DEF CommitPending
  <2>2. Without(receiptQueue[r], ids) \in Seq(Txs)
    <3> HIDE DEF ids
    <3> QED  BY WithoutType DEF TypeOK
  <2> HIDE DEF ids
  <2> QED  BY <2>1, <2>2 DEF TypeOK
<1>4. localOrderPending' \in [Replicas -> LocalOrder]
  BY NoOrderType DEF TypeOK, CommitPending
<1> QED  BY <1>1, <1>2, <1>3, <1>4

LEMMA InitTypeOK == Init => TypeOK
<1> SUFFICES ASSUME Init PROVE TypeOK  OBVIOUS
<1>1. /\ <<>> \in History /\ <<>> \in Seq(Txs) /\ <<>> \in Seq(Message) /\ <<>> \in Seq(Ack)
      /\ 0 \in Nat
  BY DEF History
<1> QED  BY <1>1, NoOrderType DEF Init, TypeOK, NoCandidate

LEMMA SendDownType ==
    ASSUME TypeOK, NEW r \in Replicas, NEW m \in Message, SendDown(r, m)
    PROVE  down' \in [Replicas -> Seq(Message)] /\ faults' \in Nat
  BY DEF TypeOK, SendDown

LEMMA SendFailsType ==
    ASSUME TypeOK, SendFails
    PROVE  down' \in [Replicas -> Seq(Message)] /\ faults' \in Nat
  BY DEF TypeOK, SendFails

LEMMA InboxType ==
    ASSUME TypeOK, NEW r \in Replicas, NEW t, Inbox(r, t)
    PROVE  /\ Head(down[r]) \in Message /\ Head(down[r]).type = t
           /\ down' \in [Replicas -> Seq(Message)]
<1>1. down[r] \in Seq(Message) /\ down[r] # <<>>  BY DEF TypeOK, Inbox
<1>2. Head(down[r]) \in Message /\ Tail(down[r]) \in Seq(Message)  BY <1>1
<1> QED  BY <1>2 DEF Inbox, TypeOK

(* The submitter and the deadline. *)
LEMMA SubmitterTypeOK ==
    ASSUME TypeOK, SubmitterStep \/ Expire
    PROVE  TypeOK'
<1>1. ASSUME NEW tx \in Txs, SubmitTransaction(tx)  PROVE TypeOK'
  BY <1>1 DEF TypeOK, SubmitTransaction, replicaVars, networkVars, leaderVars
<1>2. ASSUME NEW tx \in Txs, NEW r \in Replicas, SendTransaction(tx, r)  PROVE TypeOK'
  <2>1. down' \in [Replicas -> Seq(Message)] /\ faults' \in Nat
    BY <1>2, MessageTypes, SendDownType, SendFailsType DEF SendTransaction
  <2> QED  BY <1>2, <2>1 DEF TypeOK, SendTransaction, replicaVars, leaderVars
<1>3. ASSUME Expire  PROVE TypeOK'
  BY <1>3 DEF TypeOK, Expire, replicaVars, networkVars, leaderVars
<1> QED  BY <1>1, <1>2, <1>3 DEF SubmitterStep

(* The ticker and the collector. *)
LEMMA LocalOrderTypeOK ==
    ASSUME TypeOK, NEW r \in Replicas, GenerateAndSendLocalOrder(r) \/ CollectorStep(r)
    PROVE  TypeOK'
<1>1. ASSUME GenerateAndSendLocalOrder(r)  PROVE TypeOK'
  <2> DEFINE order == IF Retained(r) THEN RetainedOrder(r) ELSE FreshOrder(r)
  <2>1. order \in LocalOrder  BY FreshOrderType, RetainedOrderType
  <2> HIDE DEF order
  <2>2. localOrderPending' = [localOrderPending EXCEPT ![r] = order]
    BY <1>1 DEF GenerateAndSendLocalOrder, order
  <2>3. localOrderPending' \in [Replicas -> LocalOrder]
    BY <2>1, <2>2 DEF TypeOK
  <2>4. localOrders' \in SUBSET LocalOrder /\ faults' \in Nat
    BY <1>1, <2>1 DEF GenerateAndSendLocalOrder, TypeOK, SendFails, order
  <2> QED  BY <1>1, <2>3, <2>4 DEF TypeOK, GenerateAndSendLocalOrder, leaderVars, submitVars
<1>2. ASSUME NEW order \in localOrders, CollectLocalOrder(order)  PROVE TypeOK'
  BY <1>2 DEF TypeOK, CollectLocalOrder, replicaVars, submitVars
<1>3. ASSUME NEW order \in localOrders, DropLocalOrder(order)  PROVE TypeOK'
  BY <1>3 DEF TypeOK, DropLocalOrder, replicaVars, leaderVars, submitVars
<1> QED  BY <1>1, <1>2, <1>3 DEF CollectorStep

LEMMA AbandonType ==
    ASSUME TypeOK, AbandonPending
    PROVE  /\ pending' \in [Replicas -> History]
           /\ phase' = "collect" /\ todo' = {} /\ confirmed' = {}
<1>1. <<>> \in History  BY DEF History
<1>2. pending' \in [Replicas -> History]
  BY <1>1 DEF TypeOK, AbandonPending, NoCandidate
<1> QED  BY <1>2 DEF AbandonPending

LEMMA LeaderType == Leader \in Replicas /\ Followers \subseteq Replicas
  BY ReplicaAssumption DEF Followers

(* The proposer stage and the end of the leader's run. *)
LEMMA LeaderTypeOK ==
    ASSUME TypeOK, LeaderStep
    PROVE  TypeOK'
<1> USE LeaderType
<1>1. ASSUME ConstructCandidate  PROVE TypeOK'
  <2>1. Append(committed[Leader], collected) \in History
    BY DEF TypeOK, History, Fragment
  <2> HIDE DEF Applicable
  <2> QED  BY <1>1, <2>1 DEF TypeOK, ConstructCandidate, networkVars, submitVars
<1>2. ASSUME AbandonExpired  PROVE TypeOK'
  BY <1>2, AbandonType DEF TypeOK, AbandonExpired, networkVars, submitVars
<1>3. ASSUME CommitCandidate  PROVE TypeOK'
  BY <1>3, CommitPendingType
     DEF TypeOK, CommitCandidate, CommitTargets, networkVars, submitVars
<1>4. ASSUME EndRound  PROVE TypeOK'
  BY <1>4 DEF TypeOK, EndRound, replicaVars, networkVars, submitVars
<1>5. ASSUME Stop  PROVE TypeOK'
  BY <1>5 DEF TypeOK, Stop, replicaVars, networkVars, submitVars
<1>6. ASSUME ShutDown  PROVE TypeOK'
  BY <1>6 DEF TypeOK, ShutDown, replicaVars, networkVars, submitVars
<1>7. ASSUME NEW f \in Followers, SendCandidate(f)  PROVE TypeOK'
  <2>1. pending[Leader] \in History  BY DEF TypeOK
  <2>2. down' \in [Replicas -> Seq(Message)] /\ faults' \in Nat
    BY <1>7, <2>1, MessageTypes, SendDownType, SendFailsType DEF SendCandidate
  <2>3. /\ pending' \in [Replicas -> History] /\ todo' \in SUBSET Followers
        /\ confirmed' \in SUBSET Replicas /\ phase' \in {"collect", phase}
    BY <1>7, AbandonType DEF TypeOK, SendCandidate
  <2> QED  BY <1>7, <2>2, <2>3 DEF TypeOK, SendCandidate, submitVars
<1>8. ASSUME NEW f \in Followers, SendCommit(f)  PROVE TypeOK'
  <2>1. committed[Leader] \in History  BY DEF TypeOK
  <2>2. down' \in [Replicas -> Seq(Message)] /\ faults' \in Nat
    BY <1>8, <2>1, MessageTypes, SendDownType, SendFailsType DEF SendCommit
  <2> QED  BY <1>8, <2>2 DEF TypeOK, SendCommit, replicaVars, submitVars
<1>9. ASSUME NEW f \in Followers, SendFinish(f)  PROVE TypeOK'
  <2>1. down' \in [Replicas -> Seq(Message)] /\ faults' \in Nat
    BY <1>9, MessageTypes, SendDownType, SendFailsType DEF SendFinish
  <2> QED  BY <1>9, <2>1 DEF TypeOK, SendFinish, replicaVars, submitVars
<1> QED  BY <1>1, <1>2, <1>3, <1>4, <1>5, <1>6, <1>7, <1>8, <1>9 DEF LeaderStep

(* The acknowledgements the leader reads and the connections that break. *)
LEMMA AckTypeOK ==
    ASSUME TypeOK, NEW f \in Followers,
           ReceiveVerified(f) \/ ReceiveFinish(f) \/ BreakConnection(f)
    PROVE  TypeOK'
<1> f \in Replicas  BY LeaderType
<1>0. acks[f] \in Seq(Ack) /\ down[f] \in Seq(Message)  BY DEF TypeOK
<1>1. ASSUME ReceiveVerified(f)  PROVE TypeOK'
  <2>1. acks' \in [Replicas -> Seq(Ack)]
    BY <1>0, <1>1 DEF TypeOK, ReceiveVerified
  <2>2. /\ pending' \in [Replicas -> History] /\ todo' \in SUBSET Followers
        /\ confirmed' \in SUBSET Replicas /\ phase' \in {"collect", phase}
    BY <1>1, AbandonType DEF TypeOK, ReceiveVerified, OnRejection
  <2> QED  BY <1>1, <2>1, <2>2 DEF TypeOK, ReceiveVerified, submitVars
<1>2. ASSUME ReceiveFinish(f)  PROVE TypeOK'
  <2>1. acks' \in [Replicas -> Seq(Ack)]
    BY <1>0, <1>2 DEF TypeOK, ReceiveFinish
  <2> QED  BY <1>2, <2>1 DEF TypeOK, ReceiveFinish, replicaVars, submitVars
<1>3. ASSUME BreakConnection(f)  PROVE TypeOK'
  <2>1. \A kept \in 0 .. Len(down[f]) : SubSeq(down[f], 1, kept) \in Seq(Message)
    BY <1>0
  <2>2. \A kept \in 0 .. Len(acks[f]) : SubSeq(acks[f], 1, kept) \in Seq(Ack)
    BY <1>0
  <2>3. down' \in [Replicas -> Seq(Message)]
    BY <1>3, <2>1 DEF TypeOK, BreakConnection
  <2>4. acks' \in [Replicas -> Seq(Ack)]
    BY <1>3, <2>2 DEF TypeOK, BreakConnection
  <2>5. faults' \in Nat
    BY <1>3 DEF TypeOK, BreakConnection
  <2>6. UNCHANGED <<replicaVars, localOrders, leaderVars, submitVars, finished>>
    BY <1>3 DEF BreakConnection
  <2> QED  BY <2>3, <2>4, <2>5, <2>6 DEF TypeOK, replicaVars, leaderVars, submitVars
<1> QED  BY <1>1, <1>2, <1>3

(* The message workers. *)
LEMMA WorkerTypeOK ==
    ASSUME TypeOK, NEW r \in Replicas, WorkerStep(r)
    PROVE  TypeOK'
<1>0. acks[r] \in Seq(Ack)  BY DEF TypeOK
<1>1. ASSUME HandleTransaction(r)  PROVE TypeOK'
  <2>1. Head(down[r]).tx \in Txs /\ down' \in [Replicas -> Seq(Message)]
    BY <1>1, InboxType, MessageTypes DEF HandleTransaction
  <2> DEFINE tx == Head(down[r]).tx
  <2>2. received' \in [Replicas -> Seq(Txs)] /\ receiptQueue' \in [Replicas -> Seq(Txs)]
    <3>1. CASE tx \in Content(r)
      BY <1>1, <3>1 DEF TypeOK, HandleTransaction
    <3>2. CASE tx \notin Content(r)
      <4>1. /\ received' = [received EXCEPT ![r] = Append(received[r], tx)]
            /\ receiptQueue' = [receiptQueue EXCEPT ![r] = Append(receiptQueue[r], tx)]
        BY <1>1, <3>2 DEF HandleTransaction
      <4>2. Append(received[r], tx) \in Seq(Txs) /\ Append(receiptQueue[r], tx) \in Seq(Txs)
        BY <2>1 DEF TypeOK
      <4> HIDE DEF tx
      <4> QED  BY <4>1, <4>2 DEF TypeOK
    <3> QED  BY <3>1, <3>2
  <2> QED  BY <1>1, <2>1, <2>2 DEF TypeOK, HandleTransaction, leaderVars, submitVars
<1>2. ASSUME HandleCandidate(r)  PROVE TypeOK'
  <2> DEFINE history == Head(down[r]).history
  <2>1. history \in History /\ down' \in [Replicas -> Seq(Message)]
    BY <1>2, InboxType, MessageTypes DEF HandleCandidate
  <2>2. pending' \in [Replicas -> History] /\ committed' = committed
    <3> HIDE DEF history, Verifies
    <3> QED  BY <1>2, <2>1 DEF TypeOK, HandleCandidate, KeepCandidate, history
  <2>3. [type |-> "verified", history |-> history, accepted |-> pending'[r] = history] \in Ack
    BY <2>1, AckTypes
  <2>4. acks' \in [Replicas -> Seq(Ack)]
    <3> DEFINE ack == [type |-> "verified", history |-> history, accepted |-> pending'[r] = history]
    <3>1. acks' = [acks EXCEPT ![r] = Append(@, ack)]
      BY <1>2 DEF HandleCandidate
    <3> HIDE DEF ack
    <3>2. ack \in Ack  BY <2>3 DEF ack
    <3> QED  BY <1>0, <3>1, <3>2 DEF TypeOK
  <2> QED  BY <1>2, <2>1, <2>2, <2>4 DEF TypeOK, HandleCandidate, leaderVars, submitVars
<1>3. ASSUME HandleCommit(r)  PROVE TypeOK'
  <2>1. down' \in [Replicas -> Seq(Message)]
    BY <1>3, InboxType DEF HandleCommit
  <2>2. CASE CommitPending(r)
    BY <1>3, <2>1, <2>2, CommitPendingType DEF TypeOK, HandleCommit, leaderVars, submitVars
  <2>3. CASE UNCHANGED replicaVars
    BY <1>3, <2>1, <2>3 DEF TypeOK, HandleCommit, replicaVars, leaderVars, submitVars
  <2> QED  BY <1>3, <2>2, <2>3 DEF HandleCommit
<1>4. ASSUME HandleFinish(r)  PROVE TypeOK'
  <2>1. down' \in [Replicas -> Seq(Message)]
    BY <1>4, InboxType DEF HandleFinish
  <2>2. acks' \in [Replicas -> Seq(Ack)] /\ faults' \in Nat
    <3> DEFINE ack == [type |-> "finish"]
    <3>1. ack \in Ack  BY AckTypes
    <3>2. \/ acks' = [acks EXCEPT ![r] = Append(acks[r], ack)] /\ faults' = faults
          \/ acks' = acks /\ faults' = faults + 1
      BY <1>4 DEF HandleFinish
    <3> HIDE DEF ack
    <3>3. Append(acks[r], ack) \in Seq(Ack)  BY <1>0, <3>1
    <3>4. acks' \in [Replicas -> Seq(Ack)]  BY <3>2, <3>3 DEF TypeOK
    <3> QED  BY <3>2, <3>4 DEF TypeOK
  <2> QED  BY <1>4, <2>1, <2>2 DEF TypeOK, HandleFinish, replicaVars, leaderVars, submitVars
<1> QED  BY <1>1, <1>2, <1>3, <1>4 DEF WorkerStep

LEMMA NextTypeOK == TypeOK /\ [Next]_vars => TypeOK'
<1> SUFFICES ASSUME TypeOK, [Next]_vars PROVE TypeOK'  OBVIOUS
<1>1. CASE UNCHANGED vars
  BY <1>1 DEF TypeOK, vars, replicaVars, networkVars, leaderVars, submitVars
<1>2. CASE Next
  BY <1>2, SubmitterTypeOK, LocalOrderTypeOK, LeaderTypeOK, AckTypeOK, WorkerTypeOK DEF Next
<1> QED  BY <1>1, <1>2

(* Every reachable state is well typed, whatever the sizes and bounds. *)
THEOREM TypeCorrect == Spec => []TypeOK
  BY InitTypeOK, NextTypeOK, PTL DEF Spec

-----------------------------------------------------------------------------
(***************************************************************************)
(* The inductive invariant.  Agreement is not inductive by itself: a       *)
(* follower installs what it has pending when a commit names it, so every  *)
(* commit on its way must name a prefix of the leader's history.  A quorum *)
(* stands behind a commit because every positive acknowledgement, stale or *)
(* not, is backed by its sender for ever.                                  *)
(***************************************************************************)
CandidateExtends ==
    \A r \in Replicas : pending[r] # NoCandidate => Extends(pending[r], committed[r])

PhaseHistory ==
    /\ phase = "propose" => pending[Leader] # NoCandidate
    /\ phase = "commit" => committed[Leader] # <<>>

Elements(s) == {s[i] : i \in DOMAIN s}

Closing == phase \in {"finish", "done"}

(* A commit names a prefix of the leader's history, a positive answer is     *)
(* backed by its sender, and finish markers are for the end of the run.      *)
SoundMessage(message) ==
    /\ message.type = "commit" =>
            message.history # <<>> /\ Prefix(message.history, committed[Leader])
    /\ message.type = "finish" => Closing

SoundAck(f, ack) ==
    /\ ack.type = "verified" /\ ack.accepted => Holds(f, ack.history)
    /\ ack.type = "finish" => Closing

MessagesSound == \A f \in Followers : \A message \in Elements(down[f]) : SoundMessage(message)

AcksSound == \A f \in Followers : \A ack \in Elements(acks[f]) : SoundAck(f, ack)

ConfirmedHold == phase = "propose" => \A r \in confirmed : Holds(r, pending[Leader])

ReplicationInv ==
    /\ TypeOK
    /\ Agreement
    /\ CandidateExtends
    /\ PhaseHistory
    /\ MessagesSound
    /\ AcksSound
    /\ ConfirmedHold
    /\ QuorumBacked

-----------------------------------------------------------------------------
(* Prefixes of histories. *)

LEMMA PrefixReflexive == \A s : Len(s) \in Nat => Prefix(s, s)
  BY DEF Prefix

LEMMA PrefixTransitive ==
    ASSUME NEW S, NEW s \in Seq(S), NEW t \in Seq(S), NEW u \in Seq(S),
           Prefix(s, t), Prefix(t, u)
    PROVE  Prefix(s, u)
<1>1. Len(s) \in Nat /\ Len(t) \in Nat /\ Len(u) \in Nat
  OBVIOUS
<1> QED  BY <1>1 DEF Prefix

LEMMA ExtendsPrefix ==
    ASSUME NEW S, NEW s \in Seq(S), NEW t \in Seq(S), Extends(t, s)
    PROVE  Prefix(s, t) /\ Len(t) = Len(s) + 1
<1>1. Len(s) \in Nat /\ Len(t) = Len(s) + 1 /\ SubSeq(t, 1, Len(s)) = s
  BY DEF Extends
<1>2. \A i \in 1 .. Len(s) : SubSeq(t, 1, Len(s))[i] = t[i]
  BY <1>1
<1> QED  BY <1>1, <1>2 DEF Prefix

(* A history that extends one prefix of a log by one and is a prefix itself *)
(* takes the next entry of the log.                                         *)
LEMMA ExtendsIsNextEntry ==
    ASSUME NEW S, NEW s \in Seq(S), NEW t \in Seq(S), NEW log \in Seq(S),
           Extends(t, s), Prefix(t, log)
    PROVE  Len(s) < Len(log) /\ t = Append(s, log[Len(s) + 1])
<1>1. /\ Len(s) \in Nat /\ Len(log) \in Nat /\ Len(t) = Len(s) + 1
      /\ \A i \in 1 .. Len(s) : s[i] = t[i]
  BY ExtendsPrefix DEF Prefix
<1>2. Len(s) < Len(log) /\ t[Len(s) + 1] = log[Len(s) + 1] /\ log[Len(s) + 1] \in S
  BY <1>1 DEF Prefix
<1>3. Append(s, log[Len(s) + 1]) \in Seq(S)
  BY <1>2
<1>4. \A i \in 1 .. Len(t) : t[i] = Append(s, log[Len(s) + 1])[i]
  BY <1>1, <1>2
<1>5. Len(Append(s, log[Len(s) + 1])) = Len(t)
  BY <1>1, <1>2
<1> QED  BY <1>2, <1>3, <1>4, <1>5, SeqEqual

LEMMA AppendExtends ==
    ASSUME NEW S, NEW s \in Seq(S), NEW e \in S
    PROVE  Extends(Append(s, e), s)
<1>1. Append(s, e) \in Seq(S) /\ Len(Append(s, e)) = Len(s) + 1 /\ Len(s) \in Nat
      /\ \A i \in 1 .. Len(s) : Append(s, e)[i] = s[i]
  OBVIOUS
<1>2. SubSeq(Append(s, e), 1, Len(s)) \in Seq(S)
      /\ Len(SubSeq(Append(s, e), 1, Len(s))) = Len(s)
      /\ \A i \in 1 .. Len(s) : SubSeq(Append(s, e), 1, Len(s))[i] = s[i]
  BY <1>1
<1>3. SubSeq(Append(s, e), 1, Len(s)) = s
  BY <1>2, SeqEqual
<1> QED  BY <1>1, <1>3 DEF Extends

LEMMA SubSeqIsPrefix ==
    ASSUME NEW S, NEW s \in Seq(S), NEW k \in 1 .. Len(s)
    PROVE  SubSeq(s, 1, k) \in Seq(S) /\ Len(SubSeq(s, 1, k)) = k /\ Prefix(SubSeq(s, 1, k), s)
<1>1. /\ SubSeq(s, 1, k) \in Seq(S) /\ Len(SubSeq(s, 1, k)) = k /\ Len(s) \in Nat
      /\ \A i \in 1 .. k : SubSeq(s, 1, k)[i] = s[i]
  OBVIOUS
<1> QED  BY <1>1 DEF Prefix

LEMMA SubSeqOfExtension ==
    ASSUME NEW S, NEW s \in Seq(S), NEW t \in Seq(S), Prefix(s, t), NEW k \in 1 .. Len(s)
    PROVE  SubSeq(t, 1, k) = SubSeq(s, 1, k)
<1>1. k \in 1 .. Len(t) /\ \A i \in 1 .. k : t[i] = s[i]
  BY DEF Prefix
<1>2. /\ SubSeq(s, 1, k) \in Seq(S) /\ Len(SubSeq(s, 1, k)) = k
      /\ SubSeq(t, 1, k) \in Seq(S) /\ Len(SubSeq(t, 1, k)) = k
  BY <1>1, SubSeqIsPrefix
<1>3. \A i \in 1 .. k : SubSeq(t, 1, k)[i] = SubSeq(s, 1, k)[i]
  BY <1>1
<1> QED  BY <1>2, <1>3, SeqEqual

-----------------------------------------------------------------------------
(* What a step leaves on the connections. *)

LEMMA AppendElements ==
    ASSUME NEW S, NEW s \in Seq(S), NEW e \in S
    PROVE  Elements(Append(s, e)) \subseteq Elements(s) \cup {e}
<1>1. \A i \in 1 .. Len(s) + 1 :
            Append(s, e)[i] = e \/ (i \in 1 .. Len(s) /\ Append(s, e)[i] = s[i])
  OBVIOUS
<1>2. DOMAIN s = 1 .. Len(s) /\ DOMAIN Append(s, e) = 1 .. Len(s) + 1
  OBVIOUS
<1> QED  BY <1>1, <1>2, Zenon DEF Elements

LEMMA TailElements ==
    ASSUME NEW S, NEW s \in Seq(S), s # <<>>
    PROVE  Head(s) \in Elements(s) /\ Elements(Tail(s)) \subseteq Elements(s)
<1>1. 1 \in DOMAIN s /\ Head(s) = s[1]
  OBVIOUS
<1>2. \A i \in DOMAIN Tail(s) : i + 1 \in DOMAIN s /\ Tail(s)[i] = s[i + 1]
  OBVIOUS
<1>3. ASSUME NEW x \in Elements(Tail(s))
      PROVE  x \in Elements(s)
  <2>1. PICK i \in DOMAIN Tail(s) : x = Tail(s)[i]
    BY Zenon DEF Elements
  <2> DEFINE j == i + 1
  <2>2. j \in DOMAIN s /\ x = s[j]
    BY <1>2, <2>1
  <2> QED  BY <2>2, Zenon DEF Elements
<1>4. Head(s) \in Elements(s)
  BY <1>1, Zenon DEF Elements
<1> QED  BY <1>3, <1>4

LEMMA CutElements ==
    ASSUME NEW S, NEW s \in Seq(S), NEW k \in 0 .. Len(s)
    PROVE  Elements(SubSeq(s, 1, k)) \subseteq Elements(s)
<1>1. \A i \in DOMAIN SubSeq(s, 1, k) : i \in DOMAIN s /\ SubSeq(s, 1, k)[i] = s[i]
  OBVIOUS
<1> QED  BY <1>1, Zenon DEF Elements

LEMMA SendElements ==
    ASSUME TypeOK, NEW r \in Replicas, NEW m \in Message, SendDown(r, m) \/ SendFails
    PROVE  \A f \in Replicas : Elements(down'[f]) \subseteq Elements(down[f]) \cup {m}
<1> DEFINE sent == Append(down[r], m)
<1>1. down[r] \in Seq(Message) /\ down \in [Replicas -> Seq(Message)]
  BY DEF TypeOK
<1>2. Elements(sent) \subseteq Elements(down[r]) \cup {m}
  BY <1>1, AppendElements
<1>3. down' = [down EXCEPT ![r] = sent] \/ down' = down
  BY DEF SendDown, SendFails
<1> HIDE DEF sent
<1>4. \A f \in Replicas : down'[f] = down[f] \/ (f = r /\ down'[f] = sent)
  BY <1>1, <1>3
<1> QED  BY <1>2, <1>4, Zenon

LEMMA InboxElements ==
    ASSUME TypeOK, NEW r \in Replicas, NEW type, Inbox(r, type)
    PROVE  /\ Head(down[r]) \in Elements(down[r])
           /\ \A f \in Replicas : Elements(down'[f]) \subseteq Elements(down[f])
<1> DEFINE rest == Tail(down[r])
<1>1. down[r] \in Seq(Message) /\ down \in [Replicas -> Seq(Message)]
  BY DEF TypeOK
<1>2. Head(down[r]) \in Elements(down[r]) /\ Elements(rest) \subseteq Elements(down[r])
  BY <1>1, TailElements DEF Inbox
<1>3. down' = [down EXCEPT ![r] = rest]
  BY DEF Inbox
<1> HIDE DEF rest
<1>4. \A f \in Replicas : down'[f] = down[f] \/ (f = r /\ down'[f] = rest)
  BY <1>1, <1>3
<1> QED  BY <1>2, <1>4, Zenon

LEMMA AckElements ==
    ASSUME TypeOK, NEW r \in Replicas, NEW ack \in Ack,
           acks' = [acks EXCEPT ![r] = Append(@, ack)]
    PROVE  \A f \in Replicas :
              Elements(acks'[f]) \subseteq
                  IF f = r THEN Elements(acks[f]) \cup {ack} ELSE Elements(acks[f])
<1> DEFINE sent == Append(acks[r], ack)
<1>1. acks[r] \in Seq(Ack) /\ acks \in [Replicas -> Seq(Ack)]
  BY DEF TypeOK
<1>2. Elements(sent) \subseteq Elements(acks[r]) \cup {ack}
  BY <1>1, AppendElements
<1>3. acks' = [acks EXCEPT ![r] = sent]
  OBVIOUS
<1> HIDE DEF sent
<1>4. \A f \in Replicas : (f # r /\ acks'[f] = acks[f]) \/ (f = r /\ acks'[f] = sent)
  BY <1>1, <1>3
<1> QED  BY <1>2, <1>4, Zenon

LEMMA AckTaken ==
    ASSUME TypeOK, NEW r \in Replicas, acks[r] # <<>>, acks' = [acks EXCEPT ![r] = Tail(@)]
    PROVE  /\ Head(acks[r]) \in Elements(acks[r])
           /\ \A f \in Replicas : Elements(acks'[f]) \subseteq Elements(acks[f])
<1> DEFINE rest == Tail(acks[r])
<1>1. acks[r] \in Seq(Ack) /\ acks \in [Replicas -> Seq(Ack)]
  BY DEF TypeOK
<1>2. Head(acks[r]) \in Elements(acks[r]) /\ Elements(rest) \subseteq Elements(acks[r])
  BY <1>1, TailElements
<1>3. acks' = [acks EXCEPT ![r] = rest]
  OBVIOUS
<1> HIDE DEF rest
<1>4. \A f \in Replicas : acks'[f] = acks[f] \/ (f = r /\ acks'[f] = rest)
  BY <1>1, <1>3
<1> QED  BY <1>2, <1>4, Zenon

LEMMA BreakElements ==
    ASSUME TypeOK, NEW r \in Replicas, BreakConnection(r)
    PROVE  \A f \in Replicas : /\ Elements(down'[f]) \subseteq Elements(down[f])
                               /\ Elements(acks'[f]) \subseteq Elements(acks[f])
<1>1. /\ down[r] \in Seq(Message) /\ down \in [Replicas -> Seq(Message)]
      /\ acks[r] \in Seq(Ack) /\ acks \in [Replicas -> Seq(Ack)]
  BY DEF TypeOK
<1>2. PICK i \in 0 .. Len(down[r]) : down' = [down EXCEPT ![r] = SubSeq(@, 1, i)]
  BY DEF BreakConnection
<1>3. PICK j \in 0 .. Len(acks[r]) : acks' = [acks EXCEPT ![r] = SubSeq(@, 1, j)]
  BY DEF BreakConnection
<1> DEFINE messages == SubSeq(down[r], 1, i)
           answers == SubSeq(acks[r], 1, j)
<1>4. Elements(messages) \subseteq Elements(down[r])
  BY <1>1, <1>2, CutElements
<1>5. Elements(answers) \subseteq Elements(acks[r])
  BY <1>1, <1>3, CutElements
<1>6. down' = [down EXCEPT ![r] = messages] /\ acks' = [acks EXCEPT ![r] = answers]
  BY <1>2, <1>3
<1> HIDE DEF messages, answers
<1>7. \A f \in Replicas : down'[f] = down[f] \/ (f = r /\ down'[f] = messages)
  BY <1>1, <1>6
<1>8. \A f \in Replicas : acks'[f] = acks[f] \/ (f = r /\ acks'[f] = answers)
  BY <1>1, <1>6
<1>9. \A f \in Replicas : Elements(down'[f]) \subseteq Elements(down[f])
  BY <1>4, <1>7, Zenon
<1>10. \A f \in Replicas : Elements(acks'[f]) \subseteq Elements(acks[f])
  BY <1>5, <1>8, Zenon
<1> QED  BY <1>9, <1>10

-----------------------------------------------------------------------------
(* Steps that leave the leader's history alone. *)

LEMMA HoldersFinite ==
    ASSUME NEW S \in SUBSET Replicas, NEW T \in SUBSET S
    PROVE  /\ Cardinality(S) \in Nat /\ Cardinality(T) \in Nat
           /\ Cardinality(T) <= Cardinality(S)
<1>1. IsFiniteSet(Replicas)
  BY FS_Interval, ReplicaAssumption DEF Replicas
<1>2. IsFiniteSet(S)
  BY <1>1, FS_Subset
<1> QED  BY <1>2, FS_Subset, FS_CardinalityType

(* A replica that holds a history holds it after the step. *)
KeepsHolding(f) == \A h \in History : Holds(f, h) => pending'[f] = h \/ Prefix(h, committed'[f])

LEMMA QuorumKept ==
    ASSUME ReplicationInv, TypeOK', committed'[Leader] = committed[Leader],
           \A f \in Followers : KeepsHolding(f)
    PROVE  QuorumBacked'
<1> SUFFICES ASSUME NEW k \in 1 .. Len(committed'[Leader])
             PROVE  Cardinality({r \in Replicas :
                        \/ pending'[r] = SubSeq(committed'[Leader], 1, k)
                        \/ Prefix(SubSeq(committed'[Leader], 1, k), committed'[r])}) >= N - F
  BY DEF QuorumBacked, Holders, Holds
<1> DEFINE h == SubSeq(committed[Leader], 1, k)
           before == Holders(h)
           after == {r \in Replicas : pending'[r] = h \/ Prefix(h, committed'[r])}
<1>1. committed[Leader] \in Seq(Fragment) /\ k \in 1 .. Len(committed[Leader])
  BY LeaderType DEF ReplicationInv, TypeOK, History
<1>2. h \in History /\ Prefix(h, committed'[Leader])
  BY <1>1, SubSeqIsPrefix DEF History
<1>3. Cardinality(before) >= N - F
  BY <1>1 DEF ReplicationInv, QuorumBacked
<1> HIDE DEF h
<1>4. \A r \in Replicas : Holds(r, h) => pending'[r] = h \/ Prefix(h, committed'[r])
  BY <1>2 DEF KeepsHolding, Followers
<1>5. before \subseteq after /\ after \subseteq Replicas
  BY <1>4 DEF Holders
<1>6. Cardinality(after) >= N - F
  BY <1>3, <1>5, HoldersFinite, ReplicaAssumption
<1> QED  BY <1>6 DEF h

LEMMA InvariantKept ==
    ASSUME ReplicationInv, TypeOK', committed'[Leader] = committed[Leader],
           Agreement', CandidateExtends', PhaseHistory', ConfirmedHold',
           \A f \in Followers : KeepsHolding(f),
           Closing => Closing',
           \A f \in Followers : \A message \in Elements(down'[f]) :
                message \in Elements(down[f]) \/ SoundMessage(message)',
           \A f \in Followers : \A ack \in Elements(acks'[f]) :
                ack \in Elements(acks[f]) \/ SoundAck(f, ack)'
    PROVE  ReplicationInv'
<1>1. MessagesSound'
  <2> SUFFICES ASSUME NEW f \in Followers, NEW message \in Elements(down[f]),
                      SoundMessage(message)
               PROVE  SoundMessage(message)'
    BY DEF MessagesSound, ReplicationInv
  <2> QED  BY DEF SoundMessage
<1>2. AcksSound'
  <2> SUFFICES ASSUME NEW f \in Followers, NEW ack \in Elements(acks[f]), SoundAck(f, ack)
               PROVE  SoundAck(f, ack)'
    BY DEF AcksSound, ReplicationInv
  <2>1. f \in Replicas /\ acks[f] \in Seq(Ack)
    BY LeaderType DEF ReplicationInv, TypeOK
  <2>2. ack \in Ack
    BY <2>1 DEF Elements
  <2>3. ack.type = "verified" => ack.history \in History
    BY <2>2, AckTypes
  <2> QED  BY <2>3 DEF SoundAck, Holds, KeepsHolding
<1>3. QuorumBacked'
  BY QuorumKept
<1> QED  BY <1>1, <1>2, <1>3 DEF ReplicationInv

(* The leader's candidate may be given up; no replica installs anything. *)
LEMMA NothingInstalled ==
    ASSUME ReplicationInv, TypeOK', committed' = committed,
           \A f \in Followers : pending'[f] = pending[f],
           pending'[Leader] \in {pending[Leader], NoCandidate},
           phase' = "propose" =>
                /\ phase = "propose" /\ pending'[Leader] = pending[Leader]
                /\ \A r \in confirmed' : Holds(r, pending[Leader]),
           phase' = "commit" => phase = "commit",
           Closing => Closing',
           \A f \in Followers : \A message \in Elements(down'[f]) :
                message \in Elements(down[f]) \/ SoundMessage(message),
           \A f \in Followers : \A ack \in Elements(acks'[f]) :
                ack \in Elements(acks[f]) \/ SoundAck(f, ack)
    PROVE  ReplicationInv'
<1>1. Agreement'
  BY DEF ReplicationInv, Agreement
<1>2. CandidateExtends'
  BY DEF ReplicationInv, CandidateExtends, Followers
<1>3. PhaseHistory'
  BY DEF ReplicationInv, PhaseHistory
<1>4. ConfirmedHold'
  <2> SUFFICES ASSUME phase' = "propose", NEW r \in confirmed'
               PROVE  Holds(r, pending[Leader])'
    BY DEF ConfirmedHold
  <2>1. pending'[Leader] = pending[Leader] /\ Holds(r, pending[Leader]) /\ r \in Replicas
    BY DEF TypeOK
  <2>2. pending'[r] = pending[r]
    BY <2>1 DEF Followers
  <2> QED  BY <2>1, <2>2 DEF Holds
<1>5. \A f \in Followers : KeepsHolding(f)
  BY DEF KeepsHolding, Holds
<1>6. \A f \in Followers : \A message \in Elements(down'[f]) :
            message \in Elements(down[f]) \/ SoundMessage(message)'
  BY DEF SoundMessage
<1>7. \A f \in Followers : \A ack \in Elements(acks'[f]) :
            ack \in Elements(acks[f]) \/ SoundAck(f, ack)'
  BY DEF SoundAck, Holds
<1> QED  BY <1>1, <1>2, <1>3, <1>4, <1>5, <1>6, <1>7, InvariantKept

-----------------------------------------------------------------------------
(* The inductive step. *)

LEMMA NothingAnswered ==
    ASSUME ReplicationInv, TypeOK', UNCHANGED <<committed, pending, acks>>,
           \/ UNCHANGED <<phase, confirmed>>
           \/ phase' \notin {"propose", "commit"} /\ (Closing => Closing'),
           \A f \in Followers : \A message \in Elements(down'[f]) :
                message \in Elements(down[f]) \/ SoundMessage(message)
    PROVE  ReplicationInv'
<1>1. phase' = "propose" => phase = "propose" /\ \A r \in confirmed' : Holds(r, pending[Leader])
  BY DEF ReplicationInv, ConfirmedHold
<1>2. Closing => Closing'
  BY DEF Closing
<1> QED  BY <1>1, <1>2, NothingInstalled

LEMMA MessageSent ==
    ASSUME ReplicationInv, TypeOK', UNCHANGED <<committed, pending, acks, phase, confirmed>>,
           NEW r \in Replicas, NEW m \in Message, SoundMessage(m), SendDown(r, m) \/ SendFails
    PROVE  ReplicationInv'
<1>1. \A f \in Followers : \A message \in Elements(down'[f]) :
            message \in Elements(down[f]) \/ SoundMessage(message)
  BY SendElements, LeaderType DEF ReplicationInv
<1> QED  BY <1>1, NothingAnswered

LEMMA SubmitterPreserves ==
    ASSUME ReplicationInv, TypeOK', SubmitterStep \/ Expire
    PROVE  ReplicationInv'
<1>1. CASE Expire \/ \E tx \in Txs : SubmitTransaction(tx)
  BY <1>1, NothingAnswered DEF Expire, SubmitTransaction, replicaVars, networkVars, leaderVars
<1>2. ASSUME NEW tx \in Txs, NEW r \in Replicas, SendTransaction(tx, r)
      PROVE  ReplicationInv'
  <2> DEFINE m == [type |-> "tx", tx |-> tx]
  <2>1. m \in Message /\ SoundMessage(m)
    BY MessageTypes DEF SoundMessage
  <2> HIDE DEF m
  <2>2. SendDown(r, m) \/ SendFails
    BY <1>2 DEF SendTransaction, m
  <2>3. UNCHANGED <<committed, pending, acks, phase, confirmed>>
    BY <1>2 DEF SendTransaction, replicaVars, leaderVars
  <2> QED  BY <2>1, <2>2, <2>3, MessageSent
<1> QED  BY <1>1, <1>2 DEF SubmitterStep

LEMMA LocalOrderPreserves ==
    ASSUME ReplicationInv, TypeOK', NEW r \in Replicas,
           GenerateAndSendLocalOrder(r) \/ CollectorStep(r)
    PROVE  ReplicationInv'
<1>1. CASE GenerateAndSendLocalOrder(r)
  <2>1. UNCHANGED <<committed, pending, acks, down, phase, confirmed>>
    BY <1>1 DEF GenerateAndSendLocalOrder, leaderVars, SendFails
  <2> QED  BY <2>1, NothingAnswered
<1>2. ASSUME NEW order \in localOrders, CollectLocalOrder(order)
      PROVE  ReplicationInv'
  <2>1. /\ UNCHANGED <<committed, pending, acks, down>>
        /\ phase = "collect" /\ phase' \in {"collect", "construct"}
    BY <1>2 DEF CollectLocalOrder, Wanted, replicaVars
  <2> QED  BY <2>1, NothingAnswered DEF Closing
<1>3. ASSUME NEW order \in localOrders, DropLocalOrder(order)
      PROVE  ReplicationInv'
  BY <1>3, NothingAnswered DEF DropLocalOrder, replicaVars, leaderVars
<1> QED  BY <1>1, <1>2, <1>3 DEF CollectorStep

LEMMA AbandonPreserves ==
    ASSUME ReplicationInv, TypeOK', committed' = committed, phase = "propose", AbandonPending,
           \A f \in Followers : Elements(down'[f]) \subseteq Elements(down[f])
                                /\ Elements(acks'[f]) \subseteq Elements(acks[f])
    PROVE  ReplicationInv'
<1>1. /\ \A f \in Followers : pending'[f] = pending[f]
      /\ pending'[Leader] = NoCandidate
  BY LeaderType DEF AbandonPending, Followers, ReplicationInv, TypeOK
<1>2. phase' = "collect" /\ (Closing => Closing')
  BY DEF AbandonPending, Closing
<1> QED  BY <1>1, <1>2, NothingInstalled

LEMMA ConstructPreserves ==
    ASSUME ReplicationInv, TypeOK', ConstructCandidate
    PROVE  ReplicationInv'
<1>1. CASE phase' = "collect" /\ UNCHANGED <<pending, todo, confirmed>>
  BY <1>1, NothingAnswered DEF ConstructCandidate, networkVars, Closing
<1>2. CASE /\ pending' = [pending EXCEPT ![Leader] = Append(committed[Leader], collected)]
           /\ phase' = "propose" /\ confirmed' = {Leader}
  <2> DEFINE candidate == Append(committed[Leader], collected)
  <2>1. UNCHANGED <<committed, down, acks>> /\ phase = "construct"
    BY <1>2 DEF ConstructCandidate, networkVars
  <2>2. /\ pending'[Leader] = candidate /\ pending \in [Replicas -> History]
        /\ \A f \in Followers : pending'[f] = pending[f]
    BY <1>2, LeaderType DEF ReplicationInv, TypeOK, Followers
  <2>3. Extends(candidate, committed[Leader]) /\ candidate # NoCandidate
    <3>1. committed[Leader] \in Seq(Fragment) /\ collected \in Fragment
      BY LeaderType DEF ReplicationInv, TypeOK, History, Fragment
    <3> QED  BY <3>1, AppendExtends DEF NoCandidate
  <2> HIDE DEF candidate
  <2>4. Agreement'
    BY <2>1 DEF ReplicationInv, Agreement
  <2>5. CandidateExtends'
    BY <2>1, <2>2, <2>3 DEF ReplicationInv, CandidateExtends, Followers
  <2>6. PhaseHistory'
    BY <1>2, <2>2, <2>3 DEF PhaseHistory
  <2>7. ConfirmedHold'
    BY <1>2 DEF ConfirmedHold, Holds
  <2>8. \A f \in Followers : KeepsHolding(f)
    BY <2>1, <2>2 DEF KeepsHolding, Holds
  <2>9. ~Closing
    BY <2>1 DEF Closing
  <2> QED  BY <2>1, <2>4, <2>5, <2>6, <2>7, <2>8, <2>9, InvariantKept
<1> QED  BY <1>1, <1>2 DEF ConstructCandidate

LEMMA CommitPreserves ==
    ASSUME ReplicationInv, TypeOK', CommitCandidate
    PROVE  ReplicationInv'
<1> DEFINE old == committed[Leader]
           new == pending[Leader]
<1>1. /\ committed'[Leader] = new /\ pending'[Leader] = NoCandidate
      /\ \A f \in Followers : committed'[f] = committed[f] /\ pending'[f] = pending[f]
      /\ UNCHANGED <<down, acks>> /\ phase = "propose" /\ phase' = "commit"
  BY LeaderType DEF CommitCandidate, CommitPending, networkVars, Followers, ReplicationInv, TypeOK
<1>2. \A r \in Replicas : committed[r] \in Seq(Fragment) /\ pending[r] \in Seq(Fragment)
  BY DEF ReplicationInv, TypeOK, History
<1>3. new # NoCandidate /\ Extends(new, old)
  BY <1>1, LeaderType DEF ReplicationInv, PhaseHistory, CandidateExtends
<1>4. old \in Seq(Fragment) /\ new \in Seq(Fragment)
  BY <1>2, LeaderType
<1>5. Prefix(old, new) /\ Len(new) = Len(old) + 1 /\ Prefix(new, new)
  BY <1>3, <1>4, ExtendsPrefix, PrefixReflexive
<1> HIDE DEF old, new
<1>6. \A h \in History : Prefix(h, old) => Prefix(h, new)
  BY <1>4, <1>5, PrefixTransitive DEF History
<1>7. Agreement'
  BY <1>1, <1>2, <1>5, <1>6 DEF Agreement, ReplicationInv, Followers, History, old
<1>8. CandidateExtends'
  BY <1>1 DEF CandidateExtends, ReplicationInv, Followers
<1>9. PhaseHistory' /\ ConfirmedHold'
  BY <1>1, <1>3 DEF PhaseHistory, ConfirmedHold, NoCandidate
<1>10. MessagesSound'
  <2> SUFFICES ASSUME NEW f \in Followers, NEW message \in Elements(down[f]),
                      SoundMessage(message)
               PROVE  SoundMessage(message)'
    BY <1>1 DEF MessagesSound, ReplicationInv
  <2>1. f \in Replicas /\ down[f] \in Seq(Message)
    BY LeaderType DEF ReplicationInv, TypeOK
  <2>2. message \in Message
    BY <2>1 DEF Elements
  <2>3. message.type = "commit" => message.history \in History
    BY <2>2, MessageTypes
  <2> QED  BY <1>1, <1>6, <2>3 DEF SoundMessage, Closing, old
<1>11. AcksSound'
  <2> SUFFICES ASSUME NEW f \in Followers, NEW ack \in Elements(acks[f]), SoundAck(f, ack)
               PROVE  SoundAck(f, ack)'
    BY <1>1 DEF AcksSound, ReplicationInv
  <2> QED  BY <1>1 DEF SoundAck, Closing, Holds
<1>12. QuorumBacked'
  <2> SUFFICES ASSUME NEW k \in 1 .. Len(new)
               PROVE  Cardinality({r \in Replicas :
                          \/ pending'[r] = SubSeq(new, 1, k)
                          \/ Prefix(SubSeq(new, 1, k), committed'[r])}) >= N - F
    BY <1>1 DEF QuorumBacked, Holders, Holds
  <2> DEFINE h == SubSeq(new, 1, k)
             after == {r \in Replicas : pending'[r] = h \/ Prefix(h, committed'[r])}
  <2>1. h \in History /\ Prefix(h, new)
    BY <1>4, SubSeqIsPrefix DEF History
  <2>2. \A r \in Replicas : Holds(r, h) => r \in after
    BY <1>1, <2>1 DEF Holds, Followers
  <2>3. CASE k = Len(new)
    <3>1. h = new
      BY <1>4, <2>3
    <3>2. confirmed \subseteq after /\ after \subseteq Replicas
      BY <1>1, <2>2, <3>1 DEF ReplicationInv, ConfirmedHold, TypeOK, new
    <3> QED  BY <3>2, HoldersFinite, ReplicaAssumption DEF CommitCandidate, Verified
  <2>4. CASE k # Len(new)
    <3>1. k \in 1 .. Len(old)
      BY <1>4, <1>5, <2>4
    <3>2. h = SubSeq(old, 1, k)
      BY <1>4, <1>5, <3>1, SubSeqOfExtension
    <3>3. Cardinality(Holders(h)) >= N - F
      BY <3>1, <3>2 DEF ReplicationInv, QuorumBacked, old
    <3>4. Holders(h) \subseteq after /\ after \subseteq Replicas
      BY <2>2 DEF Holders
    <3> QED  BY <3>3, <3>4, HoldersFinite, ReplicaAssumption
  <2> QED  BY <2>3, <2>4
<1> QED  BY <1>7, <1>8, <1>9, <1>10, <1>11, <1>12 DEF ReplicationInv

LEMMA SendCandidatePreserves ==
    ASSUME ReplicationInv, TypeOK', NEW f \in Followers, SendCandidate(f)
    PROVE  ReplicationInv'
<1> DEFINE m == [type |-> "candidate", history |-> pending[Leader]]
<1>1. f \in Replicas /\ m \in Message /\ SoundMessage(m)
  BY LeaderType, MessageTypes DEF ReplicationInv, TypeOK, SoundMessage
<1> HIDE DEF m
<1>2. CASE SendDown(f, m) /\ UNCHANGED <<pending, phase, confirmed>>
  <2>1. UNCHANGED <<committed, acks>>
    BY DEF SendCandidate
  <2> QED  BY <1>1, <1>2, <2>1, MessageSent
<1>3. CASE SendFails /\ AbandonPending
  BY <1>3, AbandonPreserves DEF SendCandidate, SendFails
<1> QED  BY <1>2, <1>3 DEF SendCandidate, m

LEMMA LeaderPreserves ==
    ASSUME ReplicationInv, TypeOK', LeaderStep
    PROVE  ReplicationInv'
<1>1. CASE ConstructCandidate \/ CommitCandidate
  BY <1>1, ConstructPreserves, CommitPreserves
<1>2. CASE AbandonExpired
  BY <1>2, AbandonPreserves DEF AbandonExpired, networkVars
<1>3. CASE EndRound \/ Stop \/ ShutDown
  <2>1. /\ UNCHANGED <<committed, pending, down, acks>>
        /\ phase' \notin {"propose", "commit"} /\ (Closing => Closing')
    BY <1>3 DEF EndRound, Stop, PipelineIdle, ShutDown, replicaVars, networkVars, Closing
  <2> QED  BY <2>1, NothingAnswered
<1>4. ASSUME NEW f \in Followers, SendCommit(f)
      PROVE  ReplicationInv'
  <2> DEFINE m == [type |-> "commit", history |-> committed[Leader]]
  <2>1. committed[Leader] \in History /\ committed[Leader] # <<>> /\ f \in Replicas
    BY <1>4, LeaderType DEF SendCommit, ReplicationInv, PhaseHistory, TypeOK
  <2>2. m \in Message /\ SoundMessage(m)
    BY <2>1, MessageTypes, PrefixReflexive DEF SoundMessage, History
  <2> HIDE DEF m
  <2>3. SendDown(f, m) \/ SendFails
    BY <1>4 DEF SendCommit, m
  <2>4. UNCHANGED <<committed, pending, acks, phase, confirmed>>
    BY <1>4 DEF SendCommit, replicaVars
  <2> QED  BY <2>1, <2>2, <2>3, <2>4, MessageSent
<1>5. ASSUME NEW f \in Followers, SendFinish(f)
      PROVE  ReplicationInv'
  <2> DEFINE m == [type |-> "finish"]
  <2>1. m \in Message /\ SoundMessage(m) /\ f \in Replicas
    BY <1>5, MessageTypes, LeaderType DEF SoundMessage, SendFinish, Closing
  <2> HIDE DEF m
  <2>2. SendDown(f, m) \/ SendFails
    BY <1>5 DEF SendFinish, m
  <2>3. UNCHANGED <<committed, pending, acks, phase, confirmed>>
    BY <1>5 DEF SendFinish, replicaVars
  <2> QED  BY <2>1, <2>2, <2>3, MessageSent
<1> QED  BY <1>1, <1>2, <1>3, <1>4, <1>5, SendCandidatePreserves DEF LeaderStep

LEMMA AnswerPreserves ==
    ASSUME ReplicationInv, TypeOK', NEW f \in Followers,
           ReceiveVerified(f) \/ ReceiveFinish(f) \/ BreakConnection(f)
    PROVE  ReplicationInv'
<1>1. f \in Replicas /\ TypeOK
  BY LeaderType DEF ReplicationInv
<1>2. CASE ReceiveVerified(f)
  <2> DEFINE ack == Head(acks[f])
  <2>1. /\ UNCHANGED <<committed, down>> /\ phase = "propose" /\ acks[f] # <<>>
        /\ acks' = [acks EXCEPT ![f] = Tail(@)]
    BY <1>2 DEF ReceiveVerified
  <2>2. /\ ack \in Elements(acks[f])
        /\ \A r \in Replicas : Elements(acks'[r]) \subseteq Elements(acks[r])
    BY <1>1, <2>1, AckTaken
  <2>3. \A r \in Followers : Elements(acks'[r]) \subseteq Elements(acks[r])
    BY <2>2, LeaderType
  <2>4. ack.type = "verified"
    <3>1. SoundAck(f, ack) /\ ~Closing /\ acks[f] \in Seq(Ack)
      BY <1>1, <2>1, <2>2 DEF ReplicationInv, AcksSound, Closing, TypeOK
    <3>2. ack \in Ack
      BY <2>1, <3>1
    <3> QED  BY <3>1, <3>2 DEF SoundAck, Ack
  <2>5. CASE OnRejection
    BY <2>1, <2>3, <2>5, AbandonPreserves DEF OnRejection
  <2>6. CASE UNCHANGED <<pending, phase>> /\ confirmed' \in {confirmed, confirmed \cup {f}}
                /\ (f \in confirmed' => Holds(f, pending[Leader]))
    <3>1. \A r \in confirmed' : Holds(r, pending[Leader])
      BY <2>1, <2>6 DEF ReplicationInv, ConfirmedHold
    <3>2. Closing => Closing'
      BY <2>6 DEF Closing
    <3> QED  BY <2>1, <2>3, <2>6, <3>1, <3>2, NothingInstalled
  <2>7. CASE ~Counts(f, ack) /\ UNCHANGED <<pending, phase, confirmed>>
    BY <2>1, <2>6, <2>7 DEF ReplicationInv, ConfirmedHold
  <2>8. CASE /\ Counts(f, ack) /\ ack.accepted /\ confirmed' = confirmed \cup {f}
             /\ UNCHANGED <<pending, phase>>
    <3>1. SoundAck(f, ack)
      BY <2>2 DEF ReplicationInv, AcksSound
    <3> QED  BY <2>4, <2>6, <2>8, <3>1 DEF SoundAck, Counts
  <2> QED  BY <1>2, <2>5, <2>7, <2>8 DEF ReceiveVerified
<1>3. CASE ReceiveFinish(f)
  <2>1. /\ UNCHANGED <<committed, pending, down, phase>> /\ phase = "finish"
        /\ acks[f] # <<>> /\ acks' = [acks EXCEPT ![f] = Tail(@)]
    BY <1>3 DEF ReceiveFinish, replicaVars
  <2>2. \A r \in Followers : Elements(acks'[r]) \subseteq Elements(acks[r])
    BY <1>1, <2>1, AckTaken, LeaderType
  <2> QED  BY <2>1, <2>2, NothingInstalled DEF Closing
<1>4. CASE BreakConnection(f)
  <2>1. UNCHANGED <<committed, pending, phase, confirmed>>
    BY <1>4 DEF BreakConnection, replicaVars, leaderVars
  <2>2. \A r \in Followers : /\ Elements(down'[r]) \subseteq Elements(down[r])
                            /\ Elements(acks'[r]) \subseteq Elements(acks[r])
    BY <1>1, <1>4, BreakElements, LeaderType
  <2>3. phase' = "propose" => phase = "propose" /\ \A r \in confirmed' : Holds(r, pending[Leader])
    BY <2>1 DEF ReplicationInv, ConfirmedHold
  <2>4. Closing => Closing'
    BY <2>1 DEF Closing
  <2> QED  BY <2>1, <2>2, <2>3, <2>4, NothingInstalled
<1> QED  BY <1>2, <1>3, <1>4

LEMMA CandidatePreserves ==
    ASSUME ReplicationInv, TypeOK', NEW f \in Followers, HandleCandidate(f)
    PROVE  ReplicationInv'
<1> DEFINE history == Head(down[f]).history
<1>1. f \in Replicas /\ f # Leader /\ TypeOK
  BY LeaderType DEF ReplicationInv, Followers
<1>2. /\ UNCHANGED <<committed, phase, confirmed>>
      /\ \/ pending' = pending
         \/ pending' = [pending EXCEPT ![f] = history] /\ Verifies(f, history)
  BY DEF HandleCandidate, KeepCandidate, leaderVars
<1>3. Inbox(f, "candidate")
  BY DEF HandleCandidate
<1>4. \A r \in Replicas : Elements(down'[r]) \subseteq Elements(down[r])
  BY <1>1, <1>3, InboxElements
<1>5. PICK ack \in Ack : /\ acks' = [acks EXCEPT ![f] = Append(@, ack)]
                         /\ ack.type = "verified"
                         /\ ack.accepted => pending'[f] = ack.history
  <2> DEFINE answer == [type |-> "verified", history |-> history, accepted |-> pending'[f] = history]
  <2>1. down[f] \in Seq(Message) /\ down[f] # <<>> /\ Head(down[f]).type = "candidate"
    BY <1>1, <1>3 DEF TypeOK, Inbox
  <2>2. Head(down[f]) \in Message
    BY <2>1
  <2>3. history \in History
    BY <2>1, <2>2, MessageTypes
  <2>4. answer \in Ack
    BY <2>3, AckTypes
  <2>5. answer.type = "verified" /\ (answer.accepted => pending'[f] = answer.history)
    OBVIOUS
  <2>6. acks' = [acks EXCEPT ![f] = Append(@, answer)]
    BY DEF HandleCandidate
  <2> HIDE DEF answer
  <2> QED  BY <2>4, <2>5, <2>6
<1> HIDE DEF history
<1>6. \A r \in Replicas : pending'[r] = pending[r]
            \/ (r = f /\ pending'[r] = history /\ Extends(history, committed[r]) /\ pending[r] = <<>>)
  BY <1>1, <1>2 DEF TypeOK, Verifies, NoCandidate
<1>7. Agreement'
  BY <1>2 DEF ReplicationInv, Agreement
<1>8. CandidateExtends'
  BY <1>2, <1>6 DEF ReplicationInv, CandidateExtends
<1>9. PhaseHistory'
  BY <1>1, <1>2, <1>6, LeaderType DEF ReplicationInv, PhaseHistory
<1>10. \A r \in Replicas : \A h \in History :
            Holds(r, h) => pending'[r] = h \/ Prefix(h, committed'[r])
  <2>1. \A r \in Replicas : Prefix(<<>>, committed[r])
    BY <1>1 DEF Prefix, TypeOK, History
  <2> QED  BY <1>2, <1>6, <2>1 DEF Holds
<1>11. ConfirmedHold'
  <2>1. pending'[Leader] = pending[Leader] /\ pending[Leader] \in History
    BY <1>1, <1>6, LeaderType DEF TypeOK
  <2> QED  BY <1>1, <1>2, <1>10, <2>1 DEF ReplicationInv, ConfirmedHold, Holds, TypeOK
<1>12. \A r \in Followers : KeepsHolding(r)
  BY <1>10, LeaderType DEF KeepsHolding
<1>13. Closing => Closing'
  BY <1>2 DEF Closing
<1>14. \A r \in Followers : \A a \in Elements(acks'[r]) : a \in Elements(acks[r]) \/ SoundAck(r, a)'
  <2>1. SoundAck(f, ack)'
    BY <1>5 DEF SoundAck, Holds, Closing
  <2>2. \A r \in Replicas : \A a \in Elements(acks'[r]) : a \in Elements(acks[r]) \/ (r = f /\ a = ack)
    BY <1>1, <1>5, AckElements
  <2>3. ASSUME NEW r \in Followers, NEW a \in Elements(acks'[r])
        PROVE  a \in Elements(acks[r]) \/ SoundAck(r, a)'
    <3>1. a \in Elements(acks[r]) \/ (r = f /\ a = ack)
      BY <2>2, LeaderType
    <3> QED  BY <2>1, <3>1
  <2> QED  BY <2>3
<1> QED  BY <1>2, <1>4, <1>7, <1>8, <1>9, <1>11, <1>12, <1>13, <1>14, InvariantKept, LeaderType

LEMMA InstallPreserves ==
    ASSUME ReplicationInv, TypeOK', NEW f \in Followers, HandleCommit(f)
    PROVE  ReplicationInv'
<1> DEFINE old == committed[f]
           new == pending[f]
<1>1. f \in Replicas /\ f # Leader /\ TypeOK
  BY LeaderType DEF ReplicationInv, Followers
<1>2. UNCHANGED <<acks, phase, confirmed>> /\ Inbox(f, "commit")
  BY DEF HandleCommit, leaderVars
<1>3. /\ Head(down[f]) \in Elements(down[f]) /\ Head(down[f]).type = "commit"
      /\ \A r \in Replicas : Elements(down'[r]) \subseteq Elements(down[r])
  BY <1>1, <1>2, InboxElements DEF Inbox
<1>4. CASE UNCHANGED <<committed, pending>>
  BY <1>1, <1>2, <1>3, <1>4, NothingAnswered, LeaderType
<1>5. CASE pending[f] = Head(down[f]).history /\ CommitPending(f)
  <2>1. new # NoCandidate /\ Prefix(new, committed[Leader]) /\ Extends(new, old)
    BY <1>1, <1>3, <1>5 DEF ReplicationInv, MessagesSound, SoundMessage, NoCandidate, CandidateExtends
  <2>2. /\ committed'[f] = new /\ pending'[f] = NoCandidate
        /\ \A r \in Replicas \ {f} : committed'[r] = committed[r] /\ pending'[r] = pending[r]
    BY <1>1, <1>5 DEF CommitPending, TypeOK
  <2>3. old \in Seq(Fragment) /\ new \in Seq(Fragment)
    BY <1>1 DEF TypeOK, History
  <2>4. Prefix(old, new) /\ Prefix(new, new)
    BY <2>1, <2>3, ExtendsPrefix, PrefixReflexive
  <2> HIDE DEF old, new
  <2>5. Agreement'
    BY <1>1, <2>1, <2>2, LeaderType DEF Agreement, ReplicationInv
  <2>6. CandidateExtends'
    BY <2>2 DEF CandidateExtends, ReplicationInv
  <2>7. PhaseHistory'
    BY <1>1, <1>2, <2>2, LeaderType DEF PhaseHistory, ReplicationInv
  <2>8. \A r \in Replicas : \A h \in History :
            Holds(r, h) => pending'[r] = h \/ Prefix(h, committed'[r])
    <3>1. \A h \in History : Prefix(h, old) => Prefix(h, new)
      BY <2>3, <2>4, PrefixTransitive DEF History
    <3> QED  BY <2>2, <2>4, <3>1 DEF Holds, old, new
  <2>9. ConfirmedHold'
    <3>1. pending'[Leader] = pending[Leader] /\ pending[Leader] \in History
      BY <1>1, <2>2, LeaderType DEF TypeOK
    <3> QED  BY <1>1, <1>2, <2>8, <3>1 DEF ReplicationInv, ConfirmedHold, Holds, TypeOK
  <2>10. \A r \in Followers : KeepsHolding(r)
    BY <2>8, LeaderType DEF KeepsHolding
  <2>11. committed'[Leader] = committed[Leader] /\ (Closing => Closing')
    BY <1>1, <1>2, <2>2, LeaderType DEF Closing
  <2> QED  BY <1>2, <1>3, <2>5, <2>6, <2>7, <2>9, <2>10, <2>11, InvariantKept, LeaderType
<1> QED  BY <1>4, <1>5 DEF HandleCommit, replicaVars

LEMMA WorkerPreserves ==
    ASSUME ReplicationInv, TypeOK', NEW r \in Replicas, WorkerStep(r)
    PROVE  ReplicationInv'
<1>1. CASE HandleTransaction(r)
  <2>1. UNCHANGED <<committed, pending, acks, phase, confirmed>> /\ Inbox(r, "tx")
    BY <1>1 DEF HandleTransaction, leaderVars
  <2>2. \A f \in Followers : Elements(down'[f]) \subseteq Elements(down[f])
    BY <2>1, InboxElements, LeaderType DEF ReplicationInv
  <2> QED  BY <2>1, <2>2, NothingAnswered
<1>2. CASE r \in Followers /\ HandleFinish(r)
  <2>1. UNCHANGED <<committed, pending, phase, confirmed>> /\ Inbox(r, "finish")
    BY <1>2 DEF HandleFinish, replicaVars, leaderVars
  <2>2. /\ Head(down[r]) \in Elements(down[r]) /\ Head(down[r]).type = "finish"
        /\ \A f \in Followers : Elements(down'[f]) \subseteq Elements(down[f])
    BY <2>1, InboxElements, LeaderType DEF ReplicationInv, Inbox
  <2>3. Closing
    BY <1>2, <2>2 DEF ReplicationInv, MessagesSound, SoundMessage
  <2> DEFINE ack == [type |-> "finish"]
  <2>4. ack \in Ack /\ \A f \in Followers : SoundAck(f, ack)
    BY <2>3, AckTypes DEF SoundAck
  <2> HIDE DEF ack
  <2>5. acks' = [acks EXCEPT ![r] = Append(@, ack)] \/ UNCHANGED acks
    BY <1>2 DEF HandleFinish, ack
  <2>6. \A f \in Replicas : Elements(acks'[f]) \subseteq Elements(acks[f]) \cup {ack}
    BY <2>4, <2>5, AckElements DEF ReplicationInv
  <2>7. \A f \in Followers : \A a \in Elements(acks'[f]) : a \in Elements(acks[f]) \/ SoundAck(f, a)
    BY <2>4, <2>6, LeaderType
  <2>8. phase' # "propose" /\ phase' # "commit" /\ Closing'
    BY <2>1, <2>3 DEF Closing
  <2> QED  BY <2>1, <2>2, <2>7, <2>8, NothingInstalled
<1> QED  BY <1>1, <1>2, CandidatePreserves, InstallPreserves DEF WorkerStep

LEMMA InitReplication == Init => ReplicationInv
<1> SUFFICES ASSUME Init PROVE ReplicationInv
  OBVIOUS
<1>1. TypeOK
  BY InitTypeOK
<1>2. /\ \A r \in Replicas : committed[r] = <<>> /\ pending[r] = NoCandidate
      /\ \A r \in Replicas : down[r] = <<>> /\ acks[r] = <<>>
      /\ phase = "collect"
  BY DEF Init
<1>3. Agreement /\ QuorumBacked
  BY <1>2, LeaderType DEF Agreement, Prefix, QuorumBacked
<1>4. CandidateExtends /\ PhaseHistory /\ ConfirmedHold
  BY <1>2 DEF CandidateExtends, PhaseHistory, ConfirmedHold
<1>5. MessagesSound /\ AcksSound
  BY <1>2, LeaderType DEF MessagesSound, AcksSound, Elements
<1> QED  BY <1>1, <1>3, <1>4, <1>5 DEF ReplicationInv

LEMMA ReplicationInductive == ReplicationInv /\ [Next]_vars => ReplicationInv'
<1> SUFFICES ASSUME ReplicationInv, [Next]_vars PROVE ReplicationInv'
  OBVIOUS
<1>1. TypeOK'
  BY NextTypeOK DEF ReplicationInv
<1>2. CASE UNCHANGED vars
  BY <1>1, <1>2, NothingAnswered DEF vars, replicaVars, networkVars, leaderVars
<1>3. CASE Next
  BY <1>1, <1>3, SubmitterPreserves, LeaderPreserves, LocalOrderPreserves, WorkerPreserves,
     AnswerPreserves DEF Next
<1> QED  BY <1>2, <1>3

(* The inductive invariant holds of every reachable state.                   *)
THEOREM ReplicationCorrect == Spec => []ReplicationInv
  BY InitReplication, ReplicationInductive, PTL DEF Spec

(* Whatever is lost, rejected, retried or counted late, every replica's      *)
(* installed history is a prefix of the leader's.                            *)
THEOREM AgreementHolds == Spec => []Agreement
  BY ReplicationCorrect, PTL DEF ReplicationInv

(* At every moment n-f replicas hold each committed fragment.                *)
THEOREM QuorumBackedHolds == Spec => []QuorumBacked
  BY ReplicationCorrect, PTL DEF ReplicationInv

-----------------------------------------------------------------------------
(* Refinement of the agreed log. *)

Installs(f) == f \in Followers /\ pending[f] = Head(down[f]).history /\ CommitPending(f)

LEMMA WhatInstalls ==
    ASSUME [Next]_vars
    PROVE  \/ committed' = committed
           \/ CommitCandidate
           \/ \E f \in Followers : Inbox(f, "commit") /\ Installs(f)
<1>1. CASE UNCHANGED vars
  BY <1>1 DEF vars, replicaVars
<1>2. CASE SubmitterStep \/ Expire
  BY <1>2 DEF SubmitterStep, SubmitTransaction, SendTransaction, Expire, replicaVars
<1>3. CASE LeaderStep
  BY <1>3 DEF LeaderStep, ConstructCandidate, AbandonExpired, EndRound, Stop, ShutDown,
     SendCandidate, SendCommit, SendFinish, replicaVars
<1>4. ASSUME NEW r \in Replicas, GenerateAndSendLocalOrder(r) \/ CollectorStep(r)
      PROVE  committed' = committed
  BY <1>4 DEF GenerateAndSendLocalOrder, CollectorStep, CollectLocalOrder, DropLocalOrder,
     replicaVars
<1>5. ASSUME NEW f \in Followers, ReceiveVerified(f) \/ ReceiveFinish(f) \/ BreakConnection(f)
      PROVE  committed' = committed
  BY <1>5 DEF ReceiveVerified, ReceiveFinish, BreakConnection, replicaVars
<1>6. ASSUME NEW r \in Replicas, WorkerStep(r)
      PROVE  committed' = committed \/ (r \in Followers /\ Inbox(r, "commit") /\ Installs(r))
  BY <1>6 DEF WorkerStep, HandleTransaction, HandleCandidate, KeepCandidate, HandleCommit,
     HandleFinish, Installs, replicaVars
<1> QED  BY <1>1, <1>2, <1>3, <1>4, <1>5, <1>6 DEF Next

LEMMA CommitDecides ==
    ASSUME ReplicationInv, CommitCandidate
    PROVE  Agreed!Decide
<1> DEFINE old == committed[Leader]
           new == pending[Leader]
<1>1. /\ committed'[Leader] = new /\ phase = "propose"
      /\ \A f \in Followers : committed'[f] = committed[f]
  BY LeaderType DEF CommitCandidate, CommitPending, Followers, ReplicationInv, TypeOK
<1>2. new \in Seq(Fragment) /\ old \in Seq(Fragment) /\ Extends(new, old)
  BY <1>1, LeaderType DEF ReplicationInv, TypeOK, PhaseHistory, CandidateExtends, History
<1>3. /\ Len(new) = Len(old) + 1 /\ SubSeq(new, 1, Len(old)) = old
      /\ new[Len(new)] \in Fragment
  BY <1>2 DEF Extends
<1> HIDE DEF old, new
<1>4. [f \in Followers |-> committed'[f]] = [f \in Followers |-> committed[f]]
  BY <1>1
<1> QED  BY <1>1, <1>3, <1>4 DEF Agreed!Decide, old

LEMMA InstallLearns ==
    ASSUME ReplicationInv, NEW f \in Followers, Inbox(f, "commit"), Installs(f)
    PROVE  Agreed!Learn(f)
<1> DEFINE old == committed[f]
           new == pending[f]
           log == committed[Leader]
<1>1. f \in Replicas /\ f # Leader /\ TypeOK /\ Leader \in Replicas
  BY LeaderType DEF ReplicationInv, Followers
<1>2. Head(down[f]) \in Elements(down[f]) /\ Head(down[f]).type = "commit"
  BY <1>1, InboxElements DEF Inbox
<1>3. new # NoCandidate /\ Prefix(new, log) /\ Extends(new, old)
  BY <1>1, <1>2 DEF Installs, ReplicationInv, MessagesSound, SoundMessage, NoCandidate,
     CandidateExtends
<1>4. old \in Seq(Fragment) /\ new \in Seq(Fragment) /\ log \in Seq(Fragment)
  BY <1>1 DEF TypeOK, History
<1>5. Len(old) < Len(log) /\ new = Append(old, log[Len(old) + 1])
  BY <1>3, <1>4, ExtendsIsNextEntry
<1>6. committed' = [committed EXCEPT ![f] = new] /\ committed \in [Replicas -> History]
  BY <1>1 DEF Installs, CommitPending, TypeOK
<1> HIDE DEF old, new, log
<1>7. committed'[Leader] = committed[Leader]
  BY <1>1, <1>6
<1>8. [g \in Followers |-> committed'[g]] =
         [[g \in Followers |-> committed[g]] EXCEPT ![f] = new]
  BY <1>1, <1>6, LeaderType
<1> QED  BY <1>5, <1>7, <1>8 DEF Agreed!Learn, old, log

(* Every behaviour of the pipeline is one of the agreed log: the leader's    *)
(* commit decides an entry, a follower's commit learns the next one, and     *)
(* every other step of the pipeline stutters.                                *)
THEOREM Refinement == Spec => ImplementsAgreedLog
<1>1. Init => Agreed!Init
  BY LeaderType DEF Init, Agreed!Init
<1>2. ReplicationInv /\ [Next]_vars =>
        [Agreed!Next]_<<committed[Leader], [f \in Followers |-> committed[f]]>>
  <2> SUFFICES ASSUME ReplicationInv, [Next]_vars
               PROVE  [Agreed!Next]_<<committed[Leader], [f \in Followers |-> committed[f]]>>
    OBVIOUS
  <2>1. CASE committed' = committed
    BY <2>1
  <2>2. CASE CommitCandidate
    BY <2>2, CommitDecides DEF Agreed!Next
  <2>3. ASSUME NEW f \in Followers, Inbox(f, "commit"), Installs(f)
        PROVE  Agreed!Next
    BY <2>3, InstallLearns DEF Agreed!Next
  <2> QED  BY <2>1, <2>2, <2>3, WhatInstalls
<1> QED  BY <1>1, <1>2, ReplicationCorrect, PTL DEF Spec, ImplementsAgreedLog, Agreed!Spec

-----------------------------------------------------------------------------
(***************************************************************************)
(* When every replica must verify, a commit finds its candidate: from the  *)
(* leader's commit until the follower reads it, the candidate stays        *)
(* pending there, and there is no other commit on the connection.          *)
(***************************************************************************)
Commits(s) == {i \in DOMAIN s : s[i].type = "commit"}

(* The one commit on a connection, if any, names the candidate. *)
OneCommit(s, candidate) ==
    /\ \A i \in Commits(s) : s[i].history = candidate
    /\ \A i, j \in Commits(s) : i = j

CommitSound ==
    \A f \in Followers :
        /\ OneCommit(down[f], pending[f])
        /\ phase = "commit" /\ f \in todo =>
                pending[f] = committed[Leader] /\ Commits(down[f]) = {}

LEMMA OtherSent ==
    ASSUME NEW s \in Seq(Message), NEW m \in Message, m.type # "commit",
           NEW candidate, OneCommit(s, candidate)
    PROVE  /\ OneCommit(Append(s, m), candidate)
           /\ Commits(s) = {} => Commits(Append(s, m)) = {}
<1>1. \A i \in DOMAIN Append(s, m) :
        (i \in DOMAIN s /\ Append(s, m)[i] = s[i]) \/ Append(s, m)[i] = m
  OBVIOUS
<1>2. \A i \in Commits(Append(s, m)) : i \in Commits(s) /\ Append(s, m)[i] = s[i]
  BY <1>1 DEF Commits
<1> QED  BY <1>2 DEF OneCommit

LEMMA CommitSent ==
    ASSUME NEW s \in Seq(Message), NEW m \in Message, Commits(s) = {}
    PROVE  OneCommit(Append(s, m), m.history)
<1>1. \A i \in DOMAIN Append(s, m) :
        \/ i \in DOMAIN s /\ Append(s, m)[i] = s[i]
        \/ i = Len(s) + 1 /\ Append(s, m)[i] = m
  OBVIOUS
<1>2. \A i \in Commits(Append(s, m)) : i = Len(s) + 1 /\ Append(s, m)[i] = m
  BY <1>1 DEF Commits
<1> QED  BY <1>2 DEF OneCommit

LEMMA MessageTaken ==
    ASSUME NEW s \in Seq(Message), s # <<>>, NEW candidate, OneCommit(s, candidate)
    PROVE  /\ OneCommit(Tail(s), candidate)
           /\ Commits(s) = {} => Commits(Tail(s)) = {}
           /\ Head(s).type = "commit" => Commits(Tail(s)) = {} /\ Head(s).history = candidate
<1>1. \A i \in DOMAIN Tail(s) :
        i \in Nat /\ i # 0 /\ i + 1 \in DOMAIN s /\ Tail(s)[i] = s[i + 1]
  OBVIOUS
<1>2. 1 \in DOMAIN s /\ Head(s) = s[1]
  OBVIOUS
<1>3. \A i \in Commits(Tail(s)) :
        i \in Nat /\ i # 0 /\ i + 1 \in Commits(s) /\ Tail(s)[i] = s[i + 1]
  BY <1>1 DEF Commits
<1>4. OneCommit(Tail(s), candidate)
  <2>1. \A i \in Commits(Tail(s)) : Tail(s)[i].history = candidate
    BY <1>3 DEF OneCommit
  <2>2. \A i, j \in Commits(Tail(s)) : i + 1 = j + 1
    BY <1>3, Zenon DEF OneCommit
  <2>3. \A i, j \in Commits(Tail(s)) : i = j
    BY <1>3, <2>2
  <2> QED  BY <2>1, <2>3 DEF OneCommit
<1>5. ASSUME Head(s).type = "commit"
      PROVE  Commits(Tail(s)) = {} /\ Head(s).history = candidate
  <2>1. 1 \in Commits(s)
    BY <1>2, <1>5 DEF Commits
  <2>2. \A i \in Commits(Tail(s)) : i + 1 = 1
    BY <1>3, <2>1 DEF OneCommit
  <2> QED  BY <1>2, <1>3, <2>1, <2>2 DEF OneCommit
<1> QED  BY <1>3, <1>4, <1>5

LEMMA ConnectionCut ==
    ASSUME NEW s \in Seq(Message), NEW k \in 0 .. Len(s), NEW candidate, OneCommit(s, candidate)
    PROVE  /\ OneCommit(SubSeq(s, 1, k), candidate)
           /\ Commits(s) = {} => Commits(SubSeq(s, 1, k)) = {}
<1>1. \A i \in DOMAIN SubSeq(s, 1, k) : i \in DOMAIN s /\ SubSeq(s, 1, k)[i] = s[i]
  OBVIOUS
<1>2. \A i \in Commits(SubSeq(s, 1, k)) : i \in Commits(s) /\ SubSeq(s, 1, k)[i] = s[i]
  BY <1>1 DEF Commits
<1> QED  BY <1>2 DEF OneCommit

(* Nothing is installed, and no commit is sent. *)
LEMMA NoCommitSent ==
    ASSUME TypeOK, CommitSound,
           \A f \in Followers : pending'[f] = pending[f],
           committed'[Leader] = committed[Leader],
           \/ phase' # "commit"
           \/ phase' = phase /\ todo' \subseteq todo,
           \A f \in Followers :
                \/ down'[f] = down[f]
                \/ \E m \in Message : m.type # "commit" /\ down'[f] = Append(down[f], m)
                \/ down[f] # <<>> /\ down'[f] = Tail(down[f])
                \/ \E k \in 0 .. Len(down[f]) : down'[f] = SubSeq(down[f], 1, k)
    PROVE  CommitSound'
<1> SUFFICES ASSUME NEW f \in Followers
             PROVE  /\ OneCommit(down'[f], pending[f])
                    /\ Commits(down[f]) = {} => Commits(down'[f]) = {}
  BY Zenon DEF CommitSound
<1>1. down[f] \in Seq(Message) /\ OneCommit(down[f], pending[f])
  BY LeaderType DEF TypeOK, CommitSound
<1>2. ASSUME NEW m \in Message, m.type # "commit", down'[f] = Append(down[f], m)
      PROVE  OneCommit(down'[f], pending[f]) /\ (Commits(down[f]) = {} => Commits(down'[f]) = {})
  BY <1>1, <1>2, OtherSent
<1>3. ASSUME down[f] # <<>>, down'[f] = Tail(down[f])
      PROVE  OneCommit(down'[f], pending[f]) /\ (Commits(down[f]) = {} => Commits(down'[f]) = {})
  BY <1>1, <1>3, MessageTaken
<1>4. ASSUME NEW k \in 0 .. Len(down[f]), down'[f] = SubSeq(down[f], 1, k)
      PROVE  OneCommit(down'[f], pending[f]) /\ (Commits(down[f]) = {} => Commits(down'[f]) = {})
  BY <1>1, <1>4, ConnectionCut
<1> QED  BY <1>1, <1>2, <1>3, <1>4

(* What SendDown puts on the connections. *)
LEMMA SentOnce ==
    ASSUME TypeOK, NEW r \in Replicas, NEW m \in Message, SendDown(r, m) \/ SendFails
    PROVE  \A f \in Followers :
                down'[f] = down[f] \/ (f = r /\ down'[f] = Append(down[f], m))
  BY LeaderType DEF SendDown, SendFails, TypeOK

LEMMA OtherMessageSent ==
    ASSUME TypeOK, CommitSound, UNCHANGED committed,
           \A f \in Followers : pending'[f] = pending[f],
           phase' # "commit" \/ (phase' = phase /\ todo' \subseteq todo),
           NEW r \in Replicas, NEW m \in Message, m.type # "commit", SendDown(r, m) \/ SendFails
    PROVE  CommitSound'
<1>1. \A f \in Followers : down'[f] = down[f] \/ (f = r /\ down'[f] = Append(down[f], m))
  BY SentOnce
<1>2. \A f \in Followers :
        down'[f] = down[f]
            \/ \E msg \in Message : msg.type # "commit" /\ down'[f] = Append(down[f], msg)
  BY <1>1
<1> QED  BY <1>2, NoCommitSent

LEMMA NothingSent ==
    ASSUME TypeOK, CommitSound, UNCHANGED <<committed, down>>,
           \A f \in Followers : pending'[f] = pending[f],
           phase' # "commit" \/ (phase' = phase /\ todo' \subseteq todo)
    PROVE  CommitSound'
  BY NoCommitSent

(* At a commit every follower has the leader's candidate pending. *)
LEMMA CommitStarts ==
    ASSUME ReplicationInv, F = 0, CommitSound, CommitCandidate
    PROVE  CommitSound'
<1>0. TypeOK /\ Leader \in Replicas /\ Followers \subseteq Replicas
  BY LeaderType DEF ReplicationInv
<1>1. /\ phase = "propose" /\ Cardinality(confirmed) >= N
      /\ committed'[Leader] = pending[Leader] /\ down' = down
      /\ \A f \in Followers : pending'[f] = pending[f]
  BY <1>0, ReplicaAssumption
     DEF CommitCandidate, Verified, CommitPending, networkVars, Followers, TypeOK
<1>2. confirmed = Replicas
  <2>1. IsFiniteSet(Replicas) /\ Cardinality(Replicas) = N
    BY FS_Interval, ReplicaAssumption DEF Replicas
  <2>2. confirmed \in SUBSET Replicas
    BY <1>0 DEF TypeOK
  <2>3. Cardinality(confirmed) <= N /\ Cardinality(confirmed) \in Nat
    BY <2>1, <2>2, FS_Subset, FS_CardinalityType
  <2>4. Cardinality(confirmed) = Cardinality(Replicas)
    BY <1>1, <2>1, <2>3, ReplicaAssumption
  <2> QED  BY <2>1, <2>2, <2>4, FS_Subset
<1> DEFINE new == pending[Leader]
           log == committed[Leader]
<1>3. /\ new \in Seq(Fragment) /\ log \in Seq(Fragment)
      /\ Prefix(log, new) /\ Len(new) = Len(log) + 1
  <2>1. new \in Seq(Fragment) /\ log \in Seq(Fragment) /\ Extends(new, log)
    BY <1>0, <1>1 DEF ReplicationInv, PhaseHistory, CandidateExtends, TypeOK, History
  <2> QED  BY <2>1, ExtendsPrefix
<1> SUFFICES ASSUME NEW f \in Followers
             PROVE  pending[f] = new /\ Commits(down[f]) = {}
  <2>1. ASSUME NEW f \in Followers, Commits(down[f]) = {}
        PROVE  OneCommit(down[f], pending[f])
    BY <2>1 DEF OneCommit
  <2> QED  BY <1>1, <2>1 DEF CommitSound
<1>4. pending[f] = new
  <2>1. Holds(f, new)
    BY <1>0, <1>1, <1>2 DEF ReplicationInv, ConfirmedHold
  <2>2. ~Prefix(new, committed[f])
    <3>1. Prefix(committed[f], log) /\ committed[f] \in Seq(Fragment)
      BY <1>0 DEF ReplicationInv, Agreement, TypeOK, History
    <3> HIDE DEF new, log
    <3> QED  BY <1>3, <3>1 DEF Prefix
  <2> QED  BY <2>1, <2>2 DEF Holds
<1>5. Commits(down[f]) = {}
  <2> SUFFICES ASSUME NEW i \in Commits(down[f]) PROVE FALSE
    OBVIOUS
  <2>1. down[f][i] \in Elements(down[f]) /\ down[f][i].type = "commit"
    BY DEF Commits, Elements
  <2>2. Prefix(down[f][i].history, log)
    BY <2>1 DEF ReplicationInv, MessagesSound, SoundMessage
  <2>3. down[f][i].history = new
    BY <1>4 DEF CommitSound, OneCommit
  <2> HIDE DEF new, log
  <2> QED  BY <1>3, <2>2, <2>3 DEF Prefix
<1> QED  BY <1>4, <1>5

LEMMA CommitSends ==
    ASSUME TypeOK, CommitSound, NEW f \in Followers, SendCommit(f)
    PROVE  CommitSound'
<1> DEFINE m == [type |-> "commit", history |-> committed[Leader]]
<1>1. /\ phase = "commit" /\ f \in todo /\ todo' = todo \ {f} /\ phase' = phase
      /\ UNCHANGED <<committed, pending>> /\ (SendDown(f, m) \/ SendFails)
  BY DEF SendCommit, IsNext, replicaVars
<1>2. m \in Message /\ m.history = committed[Leader]
  BY MessageTypes, LeaderType DEF TypeOK
<1> HIDE DEF m
<1>3. pending[f] = committed[Leader] /\ Commits(down[f]) = {} /\ down[f] \in Seq(Message)
  BY <1>1, LeaderType DEF CommitSound, TypeOK
<1>4. \A g \in Followers : down'[g] = down[g] \/ (g = f /\ down'[g] = Append(down[g], m))
  BY <1>1, <1>2, SentOnce, LeaderType
<1>5. OneCommit(Append(down[f], m), pending[f])
  BY <1>2, <1>3, CommitSent
<1>6. ASSUME NEW g \in Followers
      PROVE  /\ OneCommit(down'[g], pending[g])
             /\ g # f => down'[g] = down[g]
  BY <1>4, <1>5 DEF CommitSound
<1> QED  BY <1>1, <1>6, Zenon DEF CommitSound

LEMMA CommitLeader ==
    ASSUME ReplicationInv, F = 0, CommitSound, LeaderStep
    PROVE  CommitSound'
<1>0. TypeOK /\ Leader \in Replicas /\ Followers \subseteq Replicas
  BY LeaderType DEF ReplicationInv
<1>1. CASE ConstructCandidate
  <2>1. /\ UNCHANGED <<committed, down>> /\ phase' \in {"collect", "propose"}
        /\ \A f \in Followers : pending'[f] = pending[f]
    BY <1>0, <1>1 DEF ConstructCandidate, networkVars, Followers, TypeOK
  <2> QED  BY <1>0, <2>1, NothingSent
<1>2. CASE AbandonExpired
  <2>1. /\ UNCHANGED <<committed, down>> /\ phase' = "collect"
        /\ \A f \in Followers : pending'[f] = pending[f]
    BY <1>0, <1>2 DEF AbandonExpired, AbandonPending, networkVars, Followers, TypeOK
  <2> QED  BY <1>0, <2>1, NothingSent
<1>3. CASE EndRound \/ Stop \/ ShutDown
  <2>1. /\ UNCHANGED <<committed, down, pending>> /\ phase' \in {"collect", "finish", "done"}
    BY <1>3 DEF EndRound, Stop, ShutDown, replicaVars, networkVars
  <2> QED  BY <1>0, <2>1, NothingSent
<1>4. ASSUME NEW f \in Followers, SendCandidate(f)  PROVE CommitSound'
  <2> DEFINE m == [type |-> "candidate", history |-> pending[Leader]]
  <2>1. m \in Message /\ m.type # "commit"
    BY <1>0, MessageTypes DEF TypeOK
  <2> HIDE DEF m
  <2>2. /\ SendDown(f, m) \/ SendFails
        /\ \A g \in Followers : pending'[g] = pending[g]
        /\ phase' \in {"propose", "collect"} /\ UNCHANGED committed
    BY <1>0, <1>4 DEF SendCandidate, AbandonPending, Followers, TypeOK, m
  <2> QED  BY <1>0, <2>1, <2>2, OtherMessageSent
<1>5. ASSUME NEW f \in Followers, SendFinish(f)  PROVE CommitSound'
  <2> DEFINE m == [type |-> "finish"]
  <2>1. m \in Message /\ m.type # "commit"
    BY MessageTypes
  <2> HIDE DEF m
  <2>2. /\ SendDown(f, m) \/ SendFails
        /\ phase' = "finish" /\ UNCHANGED <<committed, pending>>
    BY <1>5 DEF SendFinish, replicaVars, m
  <2> QED  BY <1>0, <2>1, <2>2, OtherMessageSent
<1> QED  BY <1>0, <1>1, <1>2, <1>3, <1>4, <1>5, CommitStarts, CommitSends DEF LeaderStep

LEMMA CommitWorker ==
    ASSUME ReplicationInv, CommitSound, NEW r \in Replicas, WorkerStep(r)
    PROVE  CommitSound'
<1>0. TypeOK /\ Leader \in Replicas /\ Followers \subseteq Replicas
  BY LeaderType DEF ReplicationInv
<1>1. UNCHANGED <<phase, todo>>
  BY DEF WorkerStep, HandleTransaction, HandleCandidate, HandleCommit, HandleFinish, leaderVars
<1>2. /\ down[r] # <<>> /\ down[r] \in Seq(Message) /\ down'[r] = Tail(down[r])
      /\ \A g \in Followers \ {r} : down'[g] = down[g]
  <2>1. \E type : Inbox(r, type)
    BY DEF WorkerStep, HandleTransaction, HandleCandidate, HandleCommit, HandleFinish
  <2> QED  BY <1>0, <2>1 DEF Inbox, TypeOK
<1>3. CASE UNCHANGED <<committed, pending>>
  BY <1>0, <1>1, <1>2, <1>3, NoCommitSent
<1>4. ASSUME r \in Followers, committed'[Leader] = committed[Leader],
             \A g \in Followers \ {r} : pending'[g] = pending[g],
             Commits(Tail(down[r])) = {}, ~(phase = "commit" /\ r \in todo)
      PROVE  CommitSound'
  <2> SUFFICES ASSUME NEW g \in Followers
               PROVE  /\ OneCommit(down'[g], pending'[g])
                      /\ phase = "commit" /\ g \in todo =>
                            pending'[g] = committed[Leader] /\ Commits(down'[g]) = {}
    BY <1>1, <1>4, Zenon DEF CommitSound
  <2>1. CASE g = r
    BY <1>2, <1>4, <2>1 DEF OneCommit
  <2>2. CASE g # r
    BY <1>2, <1>4, <2>2 DEF CommitSound
  <2> QED  BY <2>1, <2>2
<1>5. ASSUME r \in Followers, HandleCandidate(r), pending' # pending
      PROVE  CommitSound'
  <2>1. /\ pending[r] = NoCandidate /\ UNCHANGED committed
        /\ \A g \in Followers \ {r} : pending'[g] = pending[g]
    BY <1>0, <1>5 DEF HandleCandidate, Verifies, KeepCandidate, TypeOK
  <2>2. Commits(down[r]) = {}
    <3> SUFFICES ASSUME NEW i \in Commits(down[r]) PROVE FALSE
      OBVIOUS
    <3>1. down[r][i] \in Elements(down[r]) /\ down[r][i].type = "commit"
      BY DEF Commits, Elements
    <3>2. down[r][i].history # <<>>
      BY <1>5, <3>1 DEF ReplicationInv, MessagesSound, SoundMessage
    <3> QED  BY <1>5, <2>1, <3>2 DEF CommitSound, OneCommit, NoCandidate
  <2>3. Commits(Tail(down[r])) = {}
    BY <1>2, <1>5, <2>2, MessageTaken DEF CommitSound
  <2>4. ~(phase = "commit" /\ r \in todo)
    BY <1>5, <2>1 DEF CommitSound, ReplicationInv, PhaseHistory, NoCandidate
  <2> QED  BY <1>4, <1>5, <2>1, <2>3, <2>4
<1>6. ASSUME r \in Followers, HandleCommit(r), CommitPending(r)
      PROVE  CommitSound'
  <2>1. /\ committed'[Leader] = committed[Leader]
        /\ \A g \in Followers \ {r} : pending'[g] = pending[g]
    BY <1>0, <1>6 DEF CommitPending, Followers, TypeOK
  <2>2. Head(down[r]).type = "commit" /\ 1 \in Commits(down[r])
    <3>1. Head(down[r]).type = "commit"
      BY <1>6 DEF HandleCommit, Inbox
    <3>2. 1 \in DOMAIN down[r] /\ Head(down[r]) = down[r][1]
      BY <1>2
    <3> QED  BY <3>1, <3>2 DEF Commits
  <2>3. Commits(Tail(down[r])) = {}
    BY <1>2, <1>6, <2>2, MessageTaken DEF CommitSound
  <2>4. ~(phase = "commit" /\ r \in todo)
    BY <1>6, <2>2 DEF CommitSound
  <2> QED  BY <1>4, <1>6, <2>1, <2>3, <2>4
<1> QED
  BY <1>3, <1>5, <1>6 DEF WorkerStep, HandleTransaction, HandleCandidate, KeepCandidate,
     HandleCommit, HandleFinish, replicaVars

LEMMA CommitSoundStep == F = 0 /\ ReplicationInv /\ CommitSound /\ [Next]_vars => CommitSound'
<1> SUFFICES ASSUME F = 0, ReplicationInv, CommitSound, [Next]_vars PROVE CommitSound'
  OBVIOUS
<1>0. TypeOK /\ Leader \in Replicas /\ Followers \subseteq Replicas
  BY LeaderType DEF ReplicationInv
<1>1. CASE UNCHANGED vars
  BY <1>0, <1>1, NothingSent DEF vars, replicaVars, networkVars, leaderVars
<1>2. CASE Expire \/ \E tx \in Txs : SubmitTransaction(tx)
  BY <1>0, <1>2, NothingSent DEF Expire, SubmitTransaction, replicaVars, networkVars, leaderVars
<1>3. ASSUME NEW tx \in Txs, NEW r \in Replicas, SendTransaction(tx, r)
      PROVE  CommitSound'
  <2> DEFINE m == [type |-> "tx", tx |-> tx]
  <2>1. m \in Message /\ m.type # "commit"
    BY MessageTypes
  <2> HIDE DEF m
  <2>2. /\ SendDown(r, m) \/ SendFails
        /\ UNCHANGED <<committed, pending, phase, todo>>
    BY <1>3 DEF SendTransaction, replicaVars, leaderVars, m
  <2> QED  BY <1>0, <2>1, <2>2, OtherMessageSent
<1>4. ASSUME NEW r \in Replicas, GenerateAndSendLocalOrder(r) \/ CollectorStep(r)
      PROVE  CommitSound'
  <2>1. /\ UNCHANGED <<committed, pending, down>>
        /\ phase' # "commit" \/ (phase' = phase /\ todo' = todo)
    BY <1>4 DEF GenerateAndSendLocalOrder, CollectorStep, CollectLocalOrder, DropLocalOrder,
       replicaVars, leaderVars
  <2> QED  BY <1>0, <2>1, NothingSent
<1>5. ASSUME NEW f \in Followers, ReceiveVerified(f) \/ ReceiveFinish(f)
      PROVE  CommitSound'
  <2>1. /\ UNCHANGED <<committed, down>> /\ phase' # "commit"
        /\ \A g \in Followers : pending'[g] = pending[g]
    BY <1>0, <1>5 DEF ReceiveVerified, ReceiveFinish, OnRejection, AbandonPending, replicaVars,
       Followers, TypeOK
  <2> QED  BY <1>0, <2>1, NothingSent
<1>6. ASSUME NEW f \in Followers, BreakConnection(f)
      PROVE  CommitSound'
  <2>1. /\ UNCHANGED <<committed, pending, phase, todo>>
        /\ \A g \in Followers :
              down'[g] = down[g] \/ \E k \in 0 .. Len(down[g]) : down'[g] = SubSeq(down[g], 1, k)
    BY <1>0, <1>6 DEF BreakConnection, replicaVars, leaderVars, TypeOK
  <2> QED  BY <1>0, <2>1, NoCommitSent
<1> QED
  BY <1>1, <1>2, <1>3, <1>4, <1>5, <1>6, CommitLeader, CommitWorker DEF Next, SubmitterStep

(* When every replica must verify, no commit reaches a follower without its  *)
(* candidate ("commit without matching verified candidate" in the adapter).  *)
THEOREM CommitsFindCandidates == Spec => [](F = 0 => CommitFindsCandidate)
<1>1. Init => (F = 0 => CommitSound)
  BY LeaderType DEF Init, CommitSound, OneCommit, Commits
<1>2. ReplicationInv /\ (F = 0 => CommitSound) /\ [Next]_vars => (F = 0 => CommitSound)'
  BY CommitSoundStep
<1>3. ReplicationInv /\ (F = 0 => CommitSound) => (F = 0 => CommitFindsCandidate)
  <2> SUFFICES ASSUME ReplicationInv, CommitSound, NEW f \in Followers,
                      down[f] # <<>>, Head(down[f]).type = "commit"
               PROVE  pending[f] = Head(down[f]).history
    BY DEF CommitFindsCandidate
  <2>1. down[f] \in Seq(Message)
    BY LeaderType DEF ReplicationInv, TypeOK
  <2>2. 1 \in DOMAIN down[f] /\ Head(down[f]) = down[f][1]
    BY <2>1
  <2>3. 1 \in Commits(down[f])
    BY <2>2 DEF Commits
  <2> QED  BY <2>2, <2>3 DEF CommitSound, OneCommit
<1> QED  BY <1>1, <1>2, <1>3, ReplicationCorrect, PTL DEF Spec

-----------------------------------------------------------------------------
(***************************************************************************)
(* When every replica must verify and nothing has been lost, what the      *)
(* leader has committed is on its way to each follower until it is         *)
(* installed there, in front of the finish marker.                         *)
(***************************************************************************)
Ended == phase \in {"finish", "done"}
Finishes(s) == {i \in DOMAIN s : s[i].type = "finish"}

DeliveredTo(f) ==
    /\ ~Ended => ~finished[f] /\ Finishes(down[f]) = {}
    /\ finished[f] => committed[f] = committed[Leader]
    /\ \A i \in Commits(down[f]) : down[f][i].history = committed[Leader]
    /\ \A i \in Finishes(down[f]), j \in Commits(down[f]) : j < i
    /\ \/ committed[f] = committed[Leader]
       \/ phase = "commit" /\ f \in todo
       \/ Commits(down[f]) # {}

Delivered == \A f \in Followers : DeliveredTo(f)

(* Where the commits and the finish markers are after a message more. *)
LEMMA PlacesAfterSend ==
    ASSUME NEW s \in Seq(Message), NEW m \in Message
    PROVE  /\ \A i \in DOMAIN s : i < Len(s) + 1 /\ Append(s, m)[i] = s[i]
           /\ m.type # "commit" => Commits(Append(s, m)) = Commits(s)
           /\ m.type = "commit" => Commits(Append(s, m)) = Commits(s) \cup {Len(s) + 1}
           /\ m.type # "finish" => Finishes(Append(s, m)) = Finishes(s)
           /\ m.type = "finish" => Finishes(Append(s, m)) = Finishes(s) \cup {Len(s) + 1}
<1>1. /\ DOMAIN Append(s, m) = DOMAIN s \cup {Len(s) + 1}
      /\ Append(s, m)[Len(s) + 1] = m
      /\ \A i \in DOMAIN s : i < Len(s) + 1 /\ Append(s, m)[i] = s[i]
  OBVIOUS
<1> QED  BY <1>1 DEF Commits, Finishes

(* Where they are after the first message has been read. *)
LEMMA PlacesAfterTake ==
    ASSUME NEW s \in Seq(Message), s # <<>>
    PROVE  /\ \A i \in DOMAIN Tail(s) : i \in Nat /\ Tail(s)[i] = s[i + 1]
           /\ \A i \in Commits(Tail(s)) : i + 1 \in Commits(s)
           /\ \A i \in Finishes(Tail(s)) : i + 1 \in Finishes(s)
           /\ 1 \in DOMAIN s /\ Head(s) = s[1]
           /\ Head(s).type # "commit" =>
                \A i \in Commits(s) : i - 1 \in Commits(Tail(s))
<1>1. /\ \A i \in DOMAIN Tail(s) : i \in Nat /\ i + 1 \in DOMAIN s /\ Tail(s)[i] = s[i + 1]
      /\ 1 \in DOMAIN s /\ Head(s) = s[1]
      /\ \A i \in DOMAIN s \ {1} : i - 1 \in DOMAIN Tail(s) /\ Tail(s)[i - 1] = s[i]
  OBVIOUS
<1>2. Head(s).type # "commit" => \A i \in Commits(s) : i - 1 \in Commits(Tail(s))
  <2> SUFFICES ASSUME s[1].type # "commit", NEW i \in Commits(s)
               PROVE  i - 1 \in Commits(Tail(s))
    BY <1>1
  <2>1. i \in DOMAIN s /\ s[i].type = "commit" /\ i # 1
    BY DEF Commits
  <2> QED  BY <1>1, <2>1 DEF Commits
<1>3. /\ \A i \in Commits(Tail(s)) : i + 1 \in Commits(s)
      /\ \A i \in Finishes(Tail(s)) : i + 1 \in Finishes(s)
  BY <1>1 DEF Commits, Finishes
<1> QED  BY <1>1, <1>2, <1>3

(* Neither a commit nor a finish marker is sent or read. *)
LEMMA StillDelivered ==
    ASSUME TypeOK, NEW f \in Followers, DeliveredTo(f),
           committed'[f] = committed[f], committed'[Leader] = committed[Leader],
           finished'[f] = finished[f], Ended => Ended',
           phase = "commit" /\ f \in todo => phase' = "commit" /\ f \in todo',
           \/ down'[f] = down[f]
           \/ \E m \in Message : m.type \notin {"commit", "finish"} /\ down'[f] = Append(down[f], m)
           \/ /\ down[f] # <<>> /\ Head(down[f]).type \notin {"commit", "finish"}
              /\ down'[f] = Tail(down[f])
    PROVE  DeliveredTo(f)'
<1>1. down[f] \in Seq(Message)
  BY LeaderType DEF TypeOK
<1> SUFFICES /\ Finishes(down[f]) = {} => Finishes(down'[f]) = {}
             /\ \A i \in Commits(down'[f]) : down'[f][i].history = committed[Leader]
             /\ \A i \in Finishes(down'[f]), j \in Commits(down'[f]) : j < i
             /\ Commits(down[f]) # {} => Commits(down'[f]) # {}
  BY DEF DeliveredTo
<1>2. CASE down'[f] = down[f]
  BY <1>2 DEF DeliveredTo
<1>3. ASSUME NEW m \in Message, m.type \notin {"commit", "finish"}, down'[f] = Append(down[f], m)
      PROVE  /\ Finishes(down[f]) = {} => Finishes(down'[f]) = {}
             /\ \A i \in Commits(down'[f]) : down'[f][i].history = committed[Leader]
             /\ \A i \in Finishes(down'[f]), j \in Commits(down'[f]) : j < i
             /\ Commits(down[f]) # {} => Commits(down'[f]) # {}
  <2>1. /\ Commits(down'[f]) = Commits(down[f]) /\ Finishes(down'[f]) = Finishes(down[f])
        /\ \A i \in DOMAIN down[f] : down'[f][i] = down[f][i]
    BY <1>1, <1>3, PlacesAfterSend
  <2>2. Commits(down[f]) \subseteq DOMAIN down[f]
    BY DEF Commits
  <2> QED  BY <2>1, <2>2 DEF DeliveredTo
<1>4. ASSUME down[f] # <<>>, Head(down[f]).type \notin {"commit", "finish"},
             down'[f] = Tail(down[f])
      PROVE  /\ Finishes(down[f]) = {} => Finishes(down'[f]) = {}
             /\ \A i \in Commits(down'[f]) : down'[f][i].history = committed[Leader]
             /\ \A i \in Finishes(down'[f]), j \in Commits(down'[f]) : j < i
             /\ Commits(down[f]) # {} => Commits(down'[f]) # {}
  <2>1. /\ \A i \in DOMAIN down'[f] : i \in Nat /\ down'[f][i] = down[f][i + 1]
        /\ \A i \in Commits(down'[f]) : i + 1 \in Commits(down[f])
        /\ \A i \in Finishes(down'[f]) : i + 1 \in Finishes(down[f])
        /\ \A i \in Commits(down[f]) : i - 1 \in Commits(down'[f])
    BY <1>1, <1>4, PlacesAfterTake
  <2>2. Commits(down'[f]) \subseteq DOMAIN down'[f] /\ Finishes(down'[f]) \subseteq DOMAIN down'[f]
    BY DEF Commits, Finishes
  <2>3. \A i \in Finishes(down'[f]), j \in Commits(down'[f]) : j < i
    <3> SUFFICES ASSUME NEW i \in Finishes(down'[f]), NEW j \in Commits(down'[f])  PROVE j < i
      OBVIOUS
    <3>1. j + 1 < i + 1
      BY <2>1 DEF DeliveredTo
    <3>2. i \in Nat /\ j \in Nat
      BY <2>1, <2>2
    <3> QED  BY <3>1, <3>2
  <2> QED  BY <2>1, <2>2, <2>3 DEF DeliveredTo
<1> QED  BY <1>2, <1>3, <1>4

(* Nothing is installed and no connection changes. *)
LEMMA QuietDelivered ==
    ASSUME TypeOK, Delivered, UNCHANGED <<committed, down, finished>>, Ended => Ended',
           \A f \in Followers : phase = "commit" /\ f \in todo => phase' = "commit" /\ f \in todo'
    PROVE  Delivered'
<1> SUFFICES ASSUME NEW f \in Followers PROVE DeliveredTo(f)'
  BY DEF Delivered
<1>1. DeliveredTo(f)
  BY DEF Delivered
<1> QED  BY <1>1, StillDelivered

(* A transaction or a candidate is sent. *)
LEMMA OtherDelivered ==
    ASSUME TypeOK, Delivered, UNCHANGED <<committed, finished>>, Ended => Ended',
           \A f \in Followers : phase = "commit" /\ f \in todo => phase' = "commit" /\ f \in todo',
           NEW r \in Replicas, NEW m \in Message, m.type \notin {"commit", "finish"},
           SendDown(r, m) \/ SendFails
    PROVE  Delivered'
<1> SUFFICES ASSUME NEW f \in Followers PROVE DeliveredTo(f)'
  BY DEF Delivered
<1>1. DeliveredTo(f)
  BY DEF Delivered
<1>2. down'[f] = down[f] \/ down'[f] = Append(down[f], m)
  BY SentOnce
<1> QED  BY <1>1, <1>2, StillDelivered

(* What SendDown puts on one connection when the send does not fail. *)
LEMMA SentTo ==
    ASSUME TypeOK, NEW f \in Followers, NEW m \in Message, SendDown(f, m)
    PROVE  /\ down[f] \in Seq(Message) /\ down'[f] = Append(down[f], m)
           /\ \A g \in Followers \ {f} : down'[g] = down[g]
  BY LeaderType DEF SendDown, TypeOK

(* The leader's steps, when no send fails. *)
LEMMA LeaderDelivers ==
    ASSUME ReplicationInv, F = 0, CommitSound, CommitSound', Delivered, LeaderStep,
           faults = 0, faults' = 0
    PROVE  Delivered'
<1>0. TypeOK /\ Leader \in Replicas /\ Followers \subseteq Replicas
  BY LeaderType DEF ReplicationInv
<1>1. CASE ConstructCandidate \/ AbandonExpired
  <2>1. /\ UNCHANGED <<committed, down, finished>> /\ phase \in {"construct", "propose"}
    BY <1>1 DEF ConstructCandidate, AbandonExpired, networkVars
  <2> QED  BY <1>0, <2>1, QuietDelivered DEF Ended
<1>2. CASE EndRound \/ Stop \/ ShutDown
  <2>1. /\ UNCHANGED <<committed, down, finished>>
        /\ Ended => Ended'
        /\ phase = "commit" => todo = {}
    BY <1>2 DEF EndRound, Stop, ShutDown, replicaVars, networkVars, Ended, PipelineIdle
  <2> QED  BY <1>0, <2>1, QuietDelivered
<1>3. ASSUME NEW f \in Followers, SendCandidate(f)  PROVE Delivered'
  <2> DEFINE m == [type |-> "candidate", history |-> pending[Leader]]
  <2>1. m \in Message /\ m.type \notin {"commit", "finish"}
    BY <1>0, MessageTypes DEF TypeOK
  <2> HIDE DEF m
  <2>2. /\ SendDown(f, m) \/ SendFails
        /\ phase = "propose" /\ UNCHANGED <<committed, finished>>
    BY <1>3 DEF SendCandidate, m
  <2> QED  BY <1>0, <2>1, <2>2, OtherDelivered DEF Ended
<1>4. CASE CommitCandidate
  <2>1. /\ phase = "propose" /\ phase' = "commit" /\ todo' = Followers
        /\ UNCHANGED <<down, finished>>
    BY <1>4 DEF CommitCandidate, networkVars, CommitTargets
  <2> SUFFICES ASSUME NEW f \in Followers PROVE DeliveredTo(f)'
    BY DEF Delivered
  <2>2. ~finished[f] /\ Finishes(down[f]) = {}
    BY <2>1 DEF Delivered, DeliveredTo, Ended
  <2>3. Commits(down'[f]) = {}
    BY <2>1 DEF CommitSound
  <2> QED  BY <2>1, <2>2, <2>3 DEF DeliveredTo
<1>5. ASSUME NEW f \in Followers, SendCommit(f)  PROVE Delivered'
  <2> DEFINE m == [type |-> "commit", history |-> committed[Leader]]
  <2>1. m \in Message /\ m.type = "commit" /\ m.history = committed[Leader]
    BY <1>0, MessageTypes DEF TypeOK
  <2>2. SendDown(f, m)
    BY <1>5 DEF SendCommit, SendFails
  <2> HIDE DEF m
  <2>3. /\ phase = "commit" /\ phase' = phase /\ todo' = todo \ {f}
        /\ UNCHANGED <<committed, finished>>
    BY <1>5 DEF SendCommit, replicaVars
  <2> SUFFICES ASSUME NEW g \in Followers PROVE DeliveredTo(g)'
    BY DEF Delivered
  <2>4. DeliveredTo(g)
    BY DEF Delivered
  <2>5. CASE g # f
    BY <1>0, <2>1, <2>2, <2>3, <2>4, <2>5, SentTo, StillDelivered DEF Ended
  <2>6. CASE g = f
    <3>1. down[f] \in Seq(Message) /\ down'[f] = Append(down[f], m)
      BY <1>0, <2>1, <2>2, SentTo
    <3>2. /\ Commits(down'[f]) = Commits(down[f]) \cup {Len(down[f]) + 1}
          /\ Finishes(down'[f]) = Finishes(down[f])
          /\ \A i \in DOMAIN down[f] : down'[f][i] = down[f][i]
      BY <2>1, <3>1, PlacesAfterSend
    <3>3. down'[f][Len(down[f]) + 1] = m
      BY <3>1
    <3>4. ~finished[f] /\ Finishes(down[f]) = {}
      BY <2>3, <2>4, <2>6 DEF DeliveredTo, Ended
    <3>5. \A i \in Commits(down'[f]) : down'[f][i].history = committed'[Leader]
      BY <2>1, <2>3, <2>4, <2>6, <3>2, <3>3 DEF DeliveredTo, Commits
    <3> QED  BY <2>3, <2>6, <3>2, <3>4, <3>5 DEF DeliveredTo
  <2> QED  BY <2>5, <2>6
<1>6. ASSUME NEW f \in Followers, SendFinish(f)  PROVE Delivered'
  <2> DEFINE m == [type |-> "finish"]
  <2>1. m \in Message /\ m.type = "finish"
    BY MessageTypes
  <2>2. SendDown(f, m)
    BY <1>6 DEF SendFinish, SendFails
  <2> HIDE DEF m
  <2>3. /\ phase = "finish" /\ phase' = phase /\ UNCHANGED <<committed, finished>>
    BY <1>6 DEF SendFinish, replicaVars
  <2> SUFFICES ASSUME NEW g \in Followers PROVE DeliveredTo(g)'
    BY DEF Delivered
  <2>4. DeliveredTo(g)
    BY DEF Delivered
  <2>5. CASE g # f
    BY <1>0, <2>1, <2>2, <2>3, <2>4, <2>5, SentTo, StillDelivered DEF Ended
  <2>6. CASE g = f
    <3>1. down[f] \in Seq(Message) /\ down'[f] = Append(down[f], m)
      BY <1>0, <2>1, <2>2, SentTo
    <3>2. /\ Commits(down'[f]) = Commits(down[f])
          /\ Finishes(down'[f]) = Finishes(down[f]) \cup {Len(down[f]) + 1}
          /\ \A i \in DOMAIN down[f] : i < Len(down[f]) + 1 /\ down'[f][i] = down[f][i]
      <4>1. m.type # "commit"
        BY <2>1
      <4> QED  BY <2>1, <3>1, <4>1, PlacesAfterSend, Zenon
    <3>3. Commits(down[f]) \subseteq DOMAIN down[f]
      BY DEF Commits
    <3>4. \A i \in Finishes(down'[f]), j \in Commits(down'[f]) : j < i
      BY <2>4, <2>6, <3>2, <3>3 DEF DeliveredTo
    <3>5. \A i \in Commits(down'[f]) : down'[f][i].history = committed'[Leader]
      BY <2>3, <2>4, <2>6, <3>2, <3>3 DEF DeliveredTo
    <3> QED  BY <2>3, <2>4, <2>6, <3>2, <3>4, <3>5 DEF DeliveredTo, Ended
  <2> QED  BY <2>5, <2>6
<1> QED  BY <1>1, <1>2, <1>3, <1>4, <1>5, <1>6 DEF LeaderStep

(* A follower reads a message. *)
LEMMA WorkerDelivers ==
    ASSUME ReplicationInv, CommitSound, Delivered, NEW r \in Replicas, WorkerStep(r)
    PROVE  Delivered'
<1>0. TypeOK /\ Leader \in Replicas /\ Followers \subseteq Replicas /\ Leader \notin Followers
  BY LeaderType DEF ReplicationInv, Followers
<1>1. UNCHANGED <<phase, todo>>
  BY DEF WorkerStep, HandleTransaction, HandleCandidate, HandleCommit, HandleFinish, leaderVars
<1>2. /\ down[r] # <<>> /\ down[r] \in Seq(Message) /\ down'[r] = Tail(down[r]) /\ ~finished[r]
      /\ \A g \in Followers \ {r} : down'[g] = down[g]
  <2>1. \E type : Inbox(r, type)
    BY DEF WorkerStep, HandleTransaction, HandleCandidate, HandleCommit, HandleFinish
  <2> QED  BY <1>0, <2>1 DEF Inbox, TypeOK
<1>3. /\ committed'[Leader] = committed[Leader]
      /\ \A g \in Followers \ {r} : committed'[g] = committed[g] /\ finished'[g] = finished[g]
  BY <1>0 DEF WorkerStep, HandleTransaction, HandleCandidate, KeepCandidate, HandleCommit,
     HandleFinish, CommitPending, replicaVars, TypeOK
<1> SUFFICES ASSUME NEW f \in Followers PROVE DeliveredTo(f)'
  BY DEF Delivered
<1>4. DeliveredTo(f)
  BY DEF Delivered
<1>5. CASE f # r
  BY <1>0, <1>1, <1>2, <1>3, <1>4, <1>5, StillDelivered DEF Ended
<1>6. CASE f = r /\ (HandleTransaction(r) \/ HandleCandidate(r))
  <2>1. /\ Head(down[f]).type \notin {"commit", "finish"}
        /\ UNCHANGED <<committed, finished>>
    BY <1>6 DEF HandleTransaction, HandleCandidate, KeepCandidate, Inbox
  <2> QED  BY <1>0, <1>1, <1>2, <1>4, <1>6, <2>1, StillDelivered DEF Ended
<1>7. CASE f = r /\ HandleCommit(r)
  <2>1. Head(down[f]).type = "commit" /\ UNCHANGED finished
    BY <1>7 DEF HandleCommit, Inbox
  <2>2. 1 \in DOMAIN down[f] /\ Head(down[f]) = down[f][1] /\ 1 \in Commits(down[f])
    BY <1>2, <1>7, <2>1, PlacesAfterTake DEF Commits
  <2>3. Commits(down'[f]) = {} /\ pending[f] = Head(down[f]).history
    BY <1>2, <1>7, <2>1, MessageTaken DEF CommitSound
  <2>4. pending[f] = committed[Leader]
    BY <1>4, <2>2, <2>3 DEF DeliveredTo
  <2>5. committed'[f] = committed[Leader]
    BY <1>0, <1>7, <2>3, <2>4 DEF HandleCommit, CommitPending, TypeOK
  <2>6. Finishes(down[f]) = {} => Finishes(down'[f]) = {}
    BY <1>2, <1>7, PlacesAfterTake
  <2> QED  BY <1>1, <1>3, <1>4, <2>1, <2>3, <2>5, <2>6 DEF DeliveredTo, Ended
<1>8. CASE f = r /\ HandleFinish(r)
  <2>1. Head(down[f]).type = "finish" /\ UNCHANGED committed
    BY <1>8 DEF HandleFinish, Inbox, replicaVars
  <2>2. 1 \in Finishes(down[f])
    BY <1>2, <1>8, <2>1, PlacesAfterTake DEF Finishes
  <2>3. Ended
    BY <1>4, <2>2 DEF DeliveredTo
  <2>4. Commits(down[f]) = {}
    <3> SUFFICES ASSUME NEW j \in Commits(down[f]) PROVE FALSE
      OBVIOUS
    <3>1. j < 1
      BY <1>4, <2>2 DEF DeliveredTo
    <3>2. j \in DOMAIN down[f]
      BY DEF Commits
    <3> QED  BY <1>2, <1>8, <3>1, <3>2
  <2>5. committed[f] = committed[Leader]
    BY <1>4, <2>3, <2>4 DEF DeliveredTo, Ended
  <2>6. Commits(down'[f]) = {}
    BY <1>2, <1>8, <2>4, PlacesAfterTake
  <2> QED  BY <1>1, <2>1, <2>3, <2>5, <2>6 DEF DeliveredTo, Ended
<1> QED  BY <1>5, <1>6, <1>7, <1>8 DEF WorkerStep

(* Every step that loses nothing keeps the invariant. *)
LEMMA DeliveredStep ==
    ASSUME ReplicationInv, F = 0, CommitSound, CommitSound', Delivered, [Next]_vars,
           faults = 0, faults' = 0
    PROVE  Delivered'
<1>0. TypeOK /\ Leader \in Replicas /\ Followers \subseteq Replicas
  BY LeaderType DEF ReplicationInv
<1>1. CASE UNCHANGED vars
  BY <1>0, <1>1, QuietDelivered DEF vars, replicaVars, networkVars, leaderVars, Ended
<1>2. CASE Expire \/ \E tx \in Txs : SubmitTransaction(tx)
  BY <1>0, <1>2, QuietDelivered
     DEF Expire, SubmitTransaction, replicaVars, networkVars, leaderVars, Ended
<1>3. ASSUME NEW tx \in Txs, NEW r \in Replicas, SendTransaction(tx, r)
      PROVE  Delivered'
  <2> DEFINE m == [type |-> "tx", tx |-> tx]
  <2>1. m \in Message /\ m.type \notin {"commit", "finish"}
    BY MessageTypes
  <2> HIDE DEF m
  <2>2. /\ SendDown(r, m) \/ SendFails
        /\ UNCHANGED <<committed, finished, phase, todo>>
    BY <1>3 DEF SendTransaction, replicaVars, leaderVars, m
  <2> QED  BY <1>0, <2>1, <2>2, OtherDelivered DEF Ended
<1>4. ASSUME NEW r \in Replicas, GenerateAndSendLocalOrder(r) \/ CollectorStep(r)
      PROVE  Delivered'
  <2>1. /\ UNCHANGED <<committed, finished, down>>
        /\ phase = "collect" \/ UNCHANGED <<phase, todo>>
    BY <1>4 DEF GenerateAndSendLocalOrder, CollectorStep, CollectLocalOrder, DropLocalOrder,
       Wanted, replicaVars, leaderVars
  <2> QED  BY <1>0, <2>1, QuietDelivered DEF Ended
<1>5. ASSUME NEW f \in Followers, ReceiveVerified(f) \/ ReceiveFinish(f)
      PROVE  Delivered'
  <2>1. /\ UNCHANGED <<committed, finished, down>>
        /\ phase = "propose" \/ UNCHANGED <<phase, todo>>
    BY <1>5 DEF ReceiveVerified, ReceiveFinish, replicaVars
  <2> QED  BY <1>0, <2>1, QuietDelivered DEF Ended
<1>6. ASSUME NEW f \in Followers, BreakConnection(f)
      PROVE  FALSE
  BY <1>6 DEF BreakConnection
<1> QED
  BY <1>1, <1>2, <1>3, <1>4, <1>5, <1>6, LeaderDelivers, WorkerDelivers DEF Next, SubmitterStep

(* Nothing that was lost comes back. *)
LEMMA FaultsStay == TypeOK /\ [Next]_vars /\ faults' = 0 => faults = 0
<1> SUFFICES ASSUME TypeOK, [Next]_vars, faults' = 0 PROVE faults = 0
  OBVIOUS
<1>1. faults \in Nat
  BY DEF TypeOK
<1>2. UNCHANGED faults \/ faults' = faults + 1
  <2>1. CASE UNCHANGED vars
    BY <2>1 DEF vars, networkVars
  <2>2. CASE SubmitterStep \/ Expire
    BY <2>2 DEF SubmitterStep, SubmitTransaction, SendTransaction, SendDown, SendFails, Expire,
       networkVars
  <2>3. CASE LeaderStep
    BY <2>3 DEF LeaderStep, ConstructCandidate, AbandonExpired, CommitCandidate, EndRound, Stop,
       ShutDown, SendCandidate, SendCommit, SendFinish, SendDown, SendFails, networkVars
  <2>4. ASSUME NEW r \in Replicas,
               GenerateAndSendLocalOrder(r) \/ CollectorStep(r) \/ WorkerStep(r)
        PROVE  UNCHANGED faults \/ faults' = faults + 1
    BY <2>4 DEF GenerateAndSendLocalOrder, SendFails, CollectorStep, CollectLocalOrder,
       DropLocalOrder, WorkerStep, HandleTransaction, HandleCandidate, HandleCommit, HandleFinish
  <2>5. ASSUME NEW f \in Followers, ReceiveVerified(f) \/ ReceiveFinish(f) \/ BreakConnection(f)
        PROVE  UNCHANGED faults \/ faults' = faults + 1
    BY <2>5 DEF ReceiveVerified, ReceiveFinish, BreakConnection
  <2> QED  BY <2>1, <2>2, <2>3, <2>4, <2>5 DEF Next
<1> QED  BY <1>1, <1>2

(* When every replica must verify, a follower that has got the finish marker *)
(* holds the leader's final state, unless a send has failed or a connection  *)
(* has broken ("Keep receiving the final committed prefix", main.go:329).    *)
THEOREM FinalPrefixHolds == Spec => [](F = 0 /\ faults = 0 => FinalPrefixReceived)
<1> DEFINE Sound == F = 0 => CommitSound
           Lossless == F = 0 /\ faults = 0 => Delivered
<1>1. Init => Sound /\ Lossless
  <2>1. Init => CommitSound
    BY LeaderType DEF Init, CommitSound, OneCommit, Commits
  <2>2. Init => Delivered
    BY LeaderType DEF Init, Delivered, DeliveredTo, Ended, Commits, Finishes
  <2> QED  BY <2>1, <2>2
<1>2. ReplicationInv /\ Sound /\ Lossless /\ [Next]_vars => Sound' /\ Lossless'
  <2> SUFFICES ASSUME ReplicationInv, Sound, Lossless, [Next]_vars
               PROVE  Sound' /\ Lossless'
    OBVIOUS
  <2>1. F = 0 => CommitSound'
    BY CommitSoundStep
  <2>2. ASSUME F = 0, faults' = 0  PROVE Delivered'
    <3>1. faults = 0
      BY <2>2, FaultsStay DEF ReplicationInv
    <3> QED  BY <2>1, <2>2, <3>1, DeliveredStep
  <2> QED  BY <2>1, <2>2
<1>3. Lossless => (F = 0 /\ faults = 0 => FinalPrefixReceived)
  BY DEF Delivered, DeliveredTo, FinalPrefixReceived
<1> HIDE DEF Sound, Lossless
<1> QED  BY <1>1, <1>2, <1>3, ReplicationCorrect, PTL DEF Spec

-----------------------------------------------------------------------------
(***************************************************************************)
(* With any F: as long as nothing has been lost, the candidates that a     *)
(* follower has verified, or still has to read, are followed by their      *)
(* commits once the leader has committed them.                             *)
(***************************************************************************)
Decided(h, log) == h # NoCandidate /\ Prefix(h, log)

Candidates(s) == {i \in DOMAIN s : s[i].type = "candidate"}

(* The commits that the fan-out still has to send to f. *)
Unsent(f) == {h \in {committed[Leader]} : phase = "commit" /\ f \in todo}

(* The commit of h is to be sent, or is on the connection s behind place i. *)
Coming(h, unsent, s, i) ==
    h \in unsent \/ \E j \in Commits(s) : i < j /\ s[j].history = h

OwedTo(f) ==
    /\ ~Ended => ~finished[f] /\ Finishes(down[f]) = {}
    /\ finished[f] => Commits(down[f]) = {}
    /\ \A i \in Finishes(down[f]), j \in Commits(down[f]) : j < i
    /\ Decided(pending[f], committed[Leader]) => Coming(pending[f], Unsent(f), down[f], 0)
    /\ \A i \in Candidates(down[f]) :
            Decided(down[f][i].history, committed[Leader]) =>
                Coming(down[f][i].history, Unsent(f), down[f], i)

Owed == \A f \in Followers : OwedTo(f)

(* Nothing happens between the leader and f. *)
LEMMA StillOwed ==
    ASSUME TypeOK, NEW f \in Followers, OwedTo(f),
           committed'[Leader] = committed[Leader], pending'[f] = pending[f],
           finished'[f] = finished[f], down'[f] = down[f],
           Ended => Ended', Unsent(f) \subseteq Unsent(f)'
    PROVE  OwedTo(f)'
  BY DEF OwedTo, Coming

(* A message is sent to f: a candidate that is not decided, the commit that  *)
(* f is owed, or a finish marker at the end.                                 *)
LEMMA SendOwed ==
    ASSUME TypeOK, NEW f \in Followers, OwedTo(f),
           committed'[Leader] = committed[Leader], pending'[f] = pending[f],
           finished'[f] = finished[f], Ended => Ended',
           NEW m \in Message, down'[f] = Append(down[f], m),
           m.type = "candidate" => ~Decided(m.history, committed[Leader]),
           m.type = "commit" => ~Ended,
           m.type = "finish" => Ended',
           \A h \in Unsent(f) : h \in Unsent(f)' \/ (m.type = "commit" /\ m.history = h)
    PROVE  OwedTo(f)'
<1> DEFINE n == Len(down[f]) + 1
<1>1. down[f] \in Seq(Message)
  BY LeaderType DEF TypeOK
<1>2. /\ n \in Nat /\ down'[f][n] = m /\ DOMAIN down'[f] = DOMAIN down[f] \cup {n}
      /\ \A i \in DOMAIN down[f] : i \in Nat /\ 0 < i /\ i < n /\ down'[f][i] = down[f][i]
  BY <1>1
<1>3. /\ Commits(down[f]) \subseteq DOMAIN down[f] /\ Finishes(down[f]) \subseteq DOMAIN down[f]
      /\ Candidates(down[f]) \subseteq DOMAIN down[f]
  BY DEF Commits, Finishes, Candidates
<1>4. /\ Commits(down'[f]) = Commits(down[f]) \cup {i \in {n} : m.type = "commit"}
      /\ Finishes(down'[f]) = Finishes(down[f]) \cup {i \in {n} : m.type = "finish"}
      /\ Candidates(down'[f]) = Candidates(down[f]) \cup {i \in {n} : m.type = "candidate"}
  BY <1>2 DEF Commits, Finishes, Candidates
<1> HIDE DEF n
<1>5. ASSUME NEW h, NEW i \in Nat, i < n, Coming(h, Unsent(f), down[f], i)
      PROVE  Coming(h, Unsent(f)', down'[f], i)
  <2>1. CASE h \in Unsent(f)'
    BY <2>1 DEF Coming
  <2>2. CASE m.type = "commit" /\ m.history = h
    <3>1. n \in Commits(down'[f]) /\ down'[f][n].history = h
      BY <1>2, <1>4, <2>2
    <3> QED  BY <1>5, <3>1 DEF Coming
  <2>3. ASSUME NEW j \in Commits(down[f]), i < j, down[f][j].history = h
        PROVE  Coming(h, Unsent(f)', down'[f], i)
    <3>1. j \in Commits(down'[f]) /\ down'[f][j].history = h
      BY <1>2, <1>3, <1>4, <2>3
    <3> QED  BY <2>3, <3>1 DEF Coming
  <2> QED  BY <1>5, <2>1, <2>2, <2>3 DEF Coming
<1>6. ~Ended' => ~finished'[f] /\ Finishes(down'[f]) = {}
  BY <1>4 DEF OwedTo
<1>7. finished'[f] => Commits(down'[f]) = {}
  BY <1>4 DEF OwedTo
<1>8. \A i \in Finishes(down'[f]), j \in Commits(down'[f]) : j < i
  <2> SUFFICES ASSUME NEW i \in Finishes(down'[f]), NEW j \in Commits(down'[f])
               PROVE  j < i
    OBVIOUS
  <2>1. CASE m.type = "commit"
    BY <1>4, <2>1 DEF OwedTo
  <2>2. CASE m.type # "commit"
    <3>1. j \in Commits(down[f])
      BY <1>4, <2>2
    <3> QED  BY <1>2, <1>3, <1>4, <3>1 DEF OwedTo
  <2> QED  BY <2>1, <2>2
<1>9. ASSUME Decided(pending'[f], committed'[Leader])
       PROVE  Coming(pending'[f], Unsent(f)', down'[f], 0)
  <2>1. 0 < n
    BY <1>1 DEF n
  <2> QED  BY <1>5, <1>9, <2>1 DEF OwedTo
<1>10. ASSUME NEW i \in Candidates(down'[f]), Decided(down'[f][i].history, committed'[Leader])
       PROVE  Coming(down'[f][i].history, Unsent(f)', down'[f], i)
  <2>1. i \in Candidates(down[f])
    BY <1>2, <1>4, <1>10
  <2>2. i \in Nat /\ i < n /\ down'[f][i] = down[f][i]
    BY <1>2, <1>3, <2>1
  <2>3. Coming(down[f][i].history, Unsent(f), down[f], i)
    BY <1>10, <2>1, <2>2 DEF OwedTo
  <2> QED  BY <1>5, <2>2, <2>3
<1> QED  BY <1>6, <1>7, <1>8, <1>9, <1>10 DEF OwedTo

(* f reads a message: it keeps what it has pending, verifies the candidate   *)
(* it has read, or installs what a commit names.                             *)
LEMMA TakeOwed ==
    ASSUME TypeOK, NEW f \in Followers, OwedTo(f),
           committed'[Leader] = committed[Leader], UNCHANGED <<phase, todo>>,
           down[f] # <<>>, down'[f] = Tail(down[f]), ~finished[f],
           finished'[f] => Head(down[f]).type = "finish",
           \/ pending'[f] = NoCandidate
           \/ Head(down[f]).type = "candidate" /\ pending'[f] = Head(down[f]).history
           \/ /\ pending'[f] = pending[f]
              /\ ~(Head(down[f]).type = "commit" /\ pending[f] = Head(down[f]).history)
    PROVE  OwedTo(f)'
<1>1. down[f] \in Seq(Message)
  BY LeaderType DEF TypeOK
<1>2. /\ \A i \in DOMAIN down'[f] : i \in Nat /\ i + 1 \in DOMAIN down[f] /\ down'[f][i] = down[f][i + 1]
      /\ 1 \in DOMAIN down[f] /\ Head(down[f]) = down[f][1]
      /\ \A i \in DOMAIN down[f] \ {1} : i \in Nat /\ 1 < i /\ i - 1 \in DOMAIN down'[f] /\ down'[f][i - 1] = down[f][i]
  BY <1>1
<1>3. /\ \A i \in Commits(down'[f]) : i \in Nat /\ i + 1 \in Commits(down[f])
      /\ \A i \in Finishes(down'[f]) : i \in Nat /\ i + 1 \in Finishes(down[f])
      /\ \A i \in Candidates(down'[f]) :
            i \in Nat /\ i + 1 \in Candidates(down[f]) /\ down'[f][i] = down[f][i + 1]
      /\ \A i \in Commits(down[f]) \ {1} :
            i \in Nat /\ 1 < i /\ i - 1 \in Commits(down'[f]) /\ down'[f][i - 1] = down[f][i]
  BY <1>2 DEF Commits, Finishes, Candidates
<1>4. Unsent(f)' = Unsent(f)
  BY DEF Unsent
<1>5. ASSUME NEW h, NEW i \in Nat, Coming(h, Unsent(f), down[f], i + 1)
      PROVE  Coming(h, Unsent(f)', down'[f], i)
  <2>1. CASE h \in Unsent(f)
    BY <1>4, <2>1 DEF Coming
  <2>2. ASSUME NEW j \in Commits(down[f]), i + 1 < j, down[f][j].history = h
        PROVE  Coming(h, Unsent(f)', down'[f], i)
    <3>1. j \in Nat /\ j # 1 /\ i < j - 1
      <4>1. j \in DOMAIN down[f]
        BY DEF Commits
      <4> QED  BY <1>1, <2>2, <4>1
    <3>2. j - 1 \in Commits(down'[f]) /\ down'[f][j - 1].history = h
      BY <1>3, <2>2, <3>1
    <3> QED  BY <3>1, <3>2 DEF Coming
  <2> QED  BY <1>5, <2>1, <2>2 DEF Coming
<1>6. ~Ended' => ~finished'[f] /\ Finishes(down'[f]) = {}
  <2> SUFFICES ASSUME ~Ended PROVE ~finished'[f] /\ Finishes(down'[f]) = {}
    BY DEF Ended
  <2>1. Finishes(down[f]) = {}
    BY DEF OwedTo
  <2>2. Head(down[f]).type # "finish"
    BY <1>2, <2>1 DEF Finishes
  <2> QED  BY <1>3, <2>1, <2>2
<1>7. finished'[f] => Commits(down'[f]) = {}
  <2> SUFFICES ASSUME Head(down[f]).type = "finish", NEW j \in Commits(down'[f]) PROVE FALSE
    OBVIOUS
  <2>1. 1 \in Finishes(down[f])
    BY <1>2 DEF Finishes
  <2>2. j \in Nat /\ j + 1 < 1
    BY <1>3, <2>1 DEF OwedTo
  <2> QED  BY <2>2
<1>8. \A i \in Finishes(down'[f]), j \in Commits(down'[f]) : j < i
  <2> SUFFICES ASSUME NEW i \in Finishes(down'[f]), NEW j \in Commits(down'[f])  PROVE j < i
    OBVIOUS
  <2>1. i \in Nat /\ j \in Nat /\ j + 1 < i + 1
    BY <1>3 DEF OwedTo
  <2> QED  BY <2>1
<1>9. ASSUME Decided(pending'[f], committed'[Leader])
      PROVE  Coming(pending'[f], Unsent(f)', down'[f], 0)
  <2>1. pending'[f] # NoCandidate
    BY <1>9 DEF Decided
  <2>2. CASE Head(down[f]).type = "candidate" /\ pending'[f] = Head(down[f]).history
    <3>1. 1 \in Candidates(down[f])
      BY <1>2, <2>2 DEF Candidates
    <3>2. Coming(pending'[f], Unsent(f), down[f], 0 + 1)
      BY <1>2, <1>9, <2>2, <3>1 DEF OwedTo
    <3> QED  BY <1>5, <3>2
  <2>3. CASE /\ pending'[f] = pending[f]
             /\ ~(Head(down[f]).type = "commit" /\ pending[f] = Head(down[f]).history)
    <3>1. Coming(pending[f], Unsent(f), down[f], 0)
      BY <1>9, <2>3 DEF OwedTo
    <3>2. CASE pending[f] \in Unsent(f)
      BY <1>4, <2>3, <3>2 DEF Coming
    <3>3. ASSUME NEW j \in Commits(down[f]), 0 < j, down[f][j].history = pending[f]
          PROVE  Coming(pending'[f], Unsent(f)', down'[f], 0)
      <4>1. j # 1
        BY <1>2, <2>3, <3>3 DEF Commits
      <4>2. j \in Nat /\ 1 < j /\ j - 1 \in Commits(down'[f]) /\ down'[f][j - 1].history = pending'[f]
        BY <1>3, <2>3, <3>3, <4>1
      <4>3. 0 < j - 1
        BY <4>2
      <4> QED  BY <4>2, <4>3 DEF Coming
    <3> QED  BY <3>1, <3>2, <3>3 DEF Coming
  <2> QED  BY <2>1, <2>2, <2>3
<1>10. ASSUME NEW i \in Candidates(down'[f]), Decided(down'[f][i].history, committed'[Leader])
       PROVE  Coming(down'[f][i].history, Unsent(f)', down'[f], i)
  <2>1. i \in Nat /\ i + 1 \in Candidates(down[f]) /\ down'[f][i] = down[f][i + 1]
    BY <1>3
  <2>2. Coming(down'[f][i].history, Unsent(f), down[f], i + 1)
    BY <1>10, <2>1 DEF OwedTo
  <2> QED  BY <1>5, <2>1, <2>2
<1> QED  BY <1>6, <1>7, <1>8, <1>9, <1>10 DEF OwedTo

(* No step between the leader and the followers. *)
LEMMA QuietOwed ==
    ASSUME TypeOK, Owed, UNCHANGED <<down, finished>>,
           committed'[Leader] = committed[Leader],
           \A f \in Followers : pending'[f] = pending[f],
           Ended => Ended', \A f \in Followers : Unsent(f) \subseteq Unsent(f)'
    PROVE  Owed'
<1> SUFFICES ASSUME NEW f \in Followers PROVE OwedTo(f)'
  BY DEF Owed
<1>1. OwedTo(f)
  BY DEF Owed
<1> QED  BY <1>1, StillOwed

(* One message is sent, unless the send fails. *)
LEMMA SentOwed ==
    ASSUME TypeOK, Owed, UNCHANGED <<committed, pending, finished>>, Ended => Ended',
           NEW r \in Replicas, NEW m \in Message, SendDown(r, m) \/ SendFails,
           m.type = "candidate" => ~Decided(m.history, committed[Leader]),
           m.type = "commit" => ~Ended,
           m.type = "finish" => Ended',
           \A f \in Followers : Unsent(f) \subseteq Unsent(f)'
    PROVE  Owed'
<1> SUFFICES ASSUME NEW f \in Followers PROVE OwedTo(f)'
  BY DEF Owed
<1>1. OwedTo(f)
  BY DEF Owed
<1>2. CASE down'[f] = down[f]
  BY <1>1, <1>2, StillOwed
<1>3. CASE down'[f] = Append(down[f], m)
  BY <1>1, <1>3, SendOwed
<1> QED  BY <1>2, <1>3, SentOnce

(* A history that is decided by a commit was decided before or is the one    *)
(* that the commit installs.                                                 *)
LEMMA NewlyDecided ==
    ASSUME NEW S, NEW log \in Seq(S), NEW next \in Seq(S), NEW h \in Seq(S),
           Extends(next, log), Decided(h, next)
    PROVE  Decided(h, log) \/ h = next
<1>1. /\ Len(log) \in Nat /\ Len(next) \in Nat /\ Len(h) \in Nat
      /\ Prefix(log, next) /\ Len(next) = Len(log) + 1
  BY ExtendsPrefix
<1>2. h # NoCandidate /\ Len(h) <= Len(next) /\ \A i \in 1 .. Len(h) : h[i] = next[i]
  BY DEF Decided, Prefix
<1>3. CASE Len(h) <= Len(log)
  BY <1>1, <1>2, <1>3 DEF Decided, Prefix
<1>4. CASE Len(h) > Len(log)
  <2>1. Len(h) = Len(next)
    BY <1>1, <1>2, <1>4
  <2> QED  BY <1>2, <2>1, SeqEqual
<1> QED  BY <1>1, <1>3, <1>4

(* The leader commits: what this decides is what the fan-out brings. *)
LEMMA CommitOwes ==
    ASSUME ReplicationInv, Owed, CommitCandidate
    PROVE  Owed'
<1>1. TypeOK /\ Leader \in Replicas /\ Followers \subseteq Replicas /\ Leader \notin Followers
  BY LeaderType DEF ReplicationInv, Followers
<1>2. /\ phase = "propose" /\ phase' = "commit" /\ todo' = Followers
      /\ UNCHANGED <<down, finished>>
      /\ committed'[Leader] = pending[Leader]
      /\ \A f \in Followers : pending'[f] = pending[f]
  BY <1>1 DEF CommitCandidate, CommitPending, CommitTargets, networkVars, TypeOK
<1>3. Extends(pending[Leader], committed[Leader])
  BY <1>1, <1>2 DEF ReplicationInv, CandidateExtends, PhaseHistory
<1> SUFFICES ASSUME NEW f \in Followers PROVE OwedTo(f)'
  BY DEF Owed
<1>4. OwedTo(f) /\ ~Ended /\ ~Ended'
  BY <1>2 DEF Owed, Ended
<1>5. Unsent(f) = {} /\ Unsent(f)' = {pending[Leader]}
  BY <1>2 DEF Unsent
<1>6. ASSUME NEW h \in History, NEW i, Decided(h, committed'[Leader]),
             Decided(h, committed[Leader]) => Coming(h, Unsent(f), down[f], i)
      PROVE  Coming(h, Unsent(f)', down'[f], i)
  <2>1. Decided(h, committed[Leader]) \/ h = pending[Leader]
    BY <1>1, <1>2, <1>3, <1>6, NewlyDecided DEF TypeOK, History
  <2> QED  BY <1>2, <1>5, <1>6, <2>1 DEF Coming
<1>7. pending[f] \in History /\ down[f] \in Seq(Message)
  BY <1>1 DEF TypeOK
<1>8. \A i \in Candidates(down[f]) : down[f][i].history \in History
  BY <1>7, MessageTypes DEF Candidates
<1>9. Decided(pending[f], committed'[Leader]) => Coming(pending[f], Unsent(f)', down'[f], 0)
  BY <1>4, <1>6, <1>7 DEF OwedTo
<1>10. ASSUME NEW i \in Candidates(down[f]), Decided(down[f][i].history, committed'[Leader])
      PROVE  Coming(down[f][i].history, Unsent(f)', down'[f], i)
  BY <1>4, <1>6, <1>8, <1>10 DEF OwedTo
<1> QED  BY <1>2, <1>4, <1>9, <1>10 DEF OwedTo

LEMMA LeaderOwes ==
    ASSUME ReplicationInv, Owed, LeaderStep, faults = 0, faults' = 0
    PROVE  Owed'
<1>1. TypeOK /\ Leader \in Replicas /\ Followers \subseteq Replicas /\ Leader \notin Followers
  BY LeaderType DEF ReplicationInv, Followers
<1>2. CASE ConstructCandidate \/ AbandonExpired
  <2>1. /\ UNCHANGED <<committed, down, finished>> /\ phase \in {"construct", "propose"}
        /\ \A f \in Followers : pending'[f] = pending[f]
    BY <1>1, <1>2
       DEF ConstructCandidate, AbandonExpired, AbandonPending, networkVars, TypeOK
  <2> QED  BY <1>1, <2>1, QuietOwed DEF Ended, Unsent
<1>3. CASE EndRound \/ Stop \/ ShutDown
  <2>1. /\ UNCHANGED <<committed, pending, down, finished>>
        /\ Ended => Ended'
        /\ phase = "commit" => todo = {}
    BY <1>3 DEF EndRound, Stop, ShutDown, replicaVars, networkVars, Ended, PipelineIdle
  <2> QED  BY <1>1, <2>1, QuietOwed DEF Unsent
<1>4. ASSUME NEW g \in Followers, SendCandidate(g)  PROVE Owed'
  <2> DEFINE m == [type |-> "candidate", history |-> pending[Leader]]
  <2>1. m \in Message /\ m.type = "candidate" /\ m.history = pending[Leader]
    BY <1>1, MessageTypes DEF TypeOK
  <2>2. /\ SendDown(g, m)
        /\ phase = "propose" /\ phase' = phase /\ UNCHANGED <<committed, pending, finished>>
    BY <1>4 DEF SendCandidate, SendFails
  <2> HIDE DEF m
  <2>3. Extends(pending[Leader], committed[Leader])
    BY <1>1, <2>2 DEF ReplicationInv, CandidateExtends, PhaseHistory
  <2>4. ~Prefix(pending[Leader], committed[Leader])
    <3>1. Len(pending[Leader]) = Len(committed[Leader]) + 1 /\ Len(committed[Leader]) \in Nat
      BY <1>1, <2>3 DEF TypeOK, History, Extends
    <3> QED  BY <3>1 DEF Prefix
  <2> QED  BY <1>1, <2>1, <2>2, <2>4, SentOwed DEF Ended, Unsent, Decided
<1>5. ASSUME NEW g \in Followers, SendCommit(g)  PROVE Owed'
  <2> DEFINE m == [type |-> "commit", history |-> committed[Leader]]
  <2>1. m \in Message /\ m.type = "commit" /\ m.history = committed[Leader]
    BY <1>1, MessageTypes DEF TypeOK
  <2>2. SendDown(g, m)
    BY <1>5 DEF SendCommit, SendFails
  <2> HIDE DEF m
  <2>3. /\ phase = "commit" /\ phase' = phase /\ todo' = todo \ {g}
        /\ UNCHANGED <<committed, pending, finished>>
    BY <1>5 DEF SendCommit, replicaVars
  <2> SUFFICES ASSUME NEW f \in Followers PROVE OwedTo(f)'
    BY DEF Owed
  <2>4. OwedTo(f)
    BY DEF Owed
  <2>5. CASE f # g
    BY <1>1, <2>1, <2>2, <2>3, <2>4, <2>5, SentTo, StillOwed DEF Ended, Unsent
  <2>6. CASE f = g
    <3>1. down'[f] = Append(down[f], m)
      BY <1>1, <2>1, <2>2, <2>6, SentTo
    <3> QED  BY <1>1, <2>1, <2>3, <2>4, <3>1, SendOwed DEF Ended, Unsent
  <2> QED  BY <2>5, <2>6
<1>6. ASSUME NEW g \in Followers, SendFinish(g)  PROVE Owed'
  <2> DEFINE m == [type |-> "finish"]
  <2>1. m \in Message /\ m.type = "finish"
    BY MessageTypes
  <2> HIDE DEF m
  <2>2. /\ SendDown(g, m) \/ SendFails
        /\ phase = "finish" /\ phase' = phase /\ UNCHANGED <<committed, pending, finished>>
    BY <1>6 DEF SendFinish, replicaVars, m
  <2> QED  BY <1>1, <2>1, <2>2, SentOwed DEF Ended, Unsent
<1> QED
  BY <1>2, <1>3, <1>4, <1>5, <1>6, CommitOwes DEF LeaderStep

LEMMA WorkerOwes ==
    ASSUME TypeOK, Owed, NEW r \in Replicas, WorkerStep(r)
    PROVE  Owed'
<1>1. Leader \in Replicas /\ Followers \subseteq Replicas /\ Leader \notin Followers
  BY LeaderType DEF Followers
<1>2. UNCHANGED <<phase, todo>>
  BY DEF WorkerStep, HandleTransaction, HandleCandidate, HandleCommit, HandleFinish, leaderVars
<1>3. /\ down[r] # <<>> /\ down'[r] = Tail(down[r]) /\ ~finished[r]
      /\ \A g \in Followers \ {r} : down'[g] = down[g]
  <2>1. \E type : Inbox(r, type)
    BY DEF WorkerStep, HandleTransaction, HandleCandidate, HandleCommit, HandleFinish
  <2> QED  BY <1>1, <2>1 DEF Inbox, TypeOK
<1>4. /\ committed'[Leader] = committed[Leader]
      /\ \A g \in Followers \ {r} : pending'[g] = pending[g] /\ finished'[g] = finished[g]
  <2>1. CASE HandleTransaction(r) \/ (r \in Followers /\ HandleFinish(r))
    BY <1>1, <2>1 DEF HandleTransaction, HandleFinish, replicaVars, TypeOK
  <2>2. CASE r \in Followers /\ HandleCandidate(r)
    BY <1>1, <2>2 DEF HandleCandidate, KeepCandidate, TypeOK
  <2>3. CASE r \in Followers /\ HandleCommit(r)
    BY <1>1, <2>3 DEF HandleCommit, CommitPending, replicaVars, TypeOK
  <2> QED  BY <2>1, <2>2, <2>3 DEF WorkerStep
<1> SUFFICES ASSUME NEW f \in Followers PROVE OwedTo(f)'
  BY DEF Owed
<1>5. OwedTo(f)
  BY DEF Owed
<1>6. CASE f # r
  BY <1>2, <1>3, <1>4, <1>5, <1>6, StillOwed DEF Ended, Unsent
<1>7. CASE f = r
  <2>1. finished'[f] => Head(down[f]).type = "finish"
    BY <1>1, <1>3, <1>7
       DEF WorkerStep, HandleTransaction, HandleCandidate, HandleCommit, HandleFinish, Inbox
  <2>2. \/ pending'[f] = NoCandidate
        \/ Head(down[f]).type = "candidate" /\ pending'[f] = Head(down[f]).history
        \/ /\ pending'[f] = pending[f]
           /\ ~(Head(down[f]).type = "commit" /\ pending[f] = Head(down[f]).history)
    <3>1. CASE HandleTransaction(r) \/ HandleFinish(r)
      BY <1>7, <3>1 DEF HandleTransaction, HandleFinish, Inbox, replicaVars
    <3>2. CASE HandleCandidate(r)
      BY <1>1, <1>7, <3>2 DEF HandleCandidate, KeepCandidate, Inbox, TypeOK
    <3>3. CASE HandleCommit(r)
      BY <1>1, <1>7, <3>3 DEF HandleCommit, CommitPending, Inbox, replicaVars, TypeOK
    <3> QED  BY <3>1, <3>2, <3>3 DEF WorkerStep
  <2> QED  BY <1>2, <1>3, <1>4, <1>5, <1>7, <2>1, <2>2, TakeOwed
<1> QED  BY <1>6, <1>7

(* Every step that loses nothing keeps the invariant. *)
LEMMA OwedStep ==
    ASSUME ReplicationInv, Owed, [Next]_vars, faults = 0, faults' = 0
    PROVE  Owed'
<1>1. TypeOK /\ Leader \in Replicas /\ Followers \subseteq Replicas
  BY LeaderType DEF ReplicationInv
<1>2. CASE UNCHANGED vars
  BY <1>1, <1>2, QuietOwed
     DEF vars, replicaVars, networkVars, leaderVars, Ended, Unsent
<1>3. CASE Expire \/ \E tx \in Txs : SubmitTransaction(tx)
  BY <1>1, <1>3, QuietOwed
     DEF Expire, SubmitTransaction, replicaVars, networkVars, leaderVars, Ended, Unsent
<1>4. ASSUME NEW tx \in Txs, NEW r \in Replicas, SendTransaction(tx, r)
      PROVE  Owed'
  <2> DEFINE m == [type |-> "tx", tx |-> tx]
  <2>1. m \in Message /\ m.type \notin {"candidate", "commit", "finish"}
    BY MessageTypes
  <2> HIDE DEF m
  <2>2. /\ SendDown(r, m) \/ SendFails
        /\ UNCHANGED <<committed, pending, finished, phase, todo>>
    BY <1>4 DEF SendTransaction, replicaVars, leaderVars, m
  <2> QED  BY <1>1, <2>1, <2>2, SentOwed DEF Ended, Unsent
<1>5. ASSUME NEW r \in Replicas, GenerateAndSendLocalOrder(r) \/ CollectorStep(r)
      PROVE  Owed'
  <2>1. /\ UNCHANGED <<committed, pending, finished, down>>
        /\ phase = "collect" \/ UNCHANGED <<phase, todo>>
    BY <1>5 DEF GenerateAndSendLocalOrder, CollectorStep, CollectLocalOrder, DropLocalOrder,
       Wanted, replicaVars, leaderVars
  <2> QED  BY <1>1, <2>1, QuietOwed DEF Ended, Unsent
<1>6. ASSUME NEW f \in Followers, ReceiveVerified(f) \/ ReceiveFinish(f)
      PROVE  Owed'
  <2>1. /\ UNCHANGED <<committed, finished, down>>
        /\ phase = "propose" \/ UNCHANGED <<phase, todo>>
        /\ \A g \in Followers : pending'[g] = pending[g]
    BY <1>1, <1>6 DEF ReceiveVerified, OnRejection, AbandonPending, ReceiveFinish, replicaVars,
       TypeOK, Followers
  <2> QED  BY <1>1, <2>1, QuietOwed DEF Ended, Unsent
<1>7. ASSUME NEW f \in Followers, BreakConnection(f)
      PROVE  FALSE
  BY <1>7 DEF BreakConnection
<1> QED
  BY <1>1, <1>2, <1>3, <1>4, <1>5, <1>6, <1>7, LeaderOwes, WorkerOwes DEF Next, SubmitterStep

(* For every F: while nothing was lost, a candidate that a follower has      *)
(* verified and the leader has committed is followed by its commit, before   *)
(* any finish marker, however late the follower was (auth_adapter.go:398).   *)
THEOREM CommitOwedHolds == Spec => []CommitOwed
<1> DEFINE Lossless == faults = 0 => Owed
<1>1. Init => Lossless
  BY LeaderType DEF Init, Owed, OwedTo, Ended, Commits, Finishes, Candidates, Decided
<1>2. ReplicationInv /\ Lossless /\ [Next]_vars => Lossless'
  <2>1. ReplicationInv => TypeOK
    BY DEF ReplicationInv
  <2> QED  BY <2>1, OwedStep, FaultsStay
<1>3. ReplicationInv /\ Lossless => CommitOwed
  <2> SUFFICES ASSUME TypeOK, NEW f \in Followers, OwedTo(f),
                      Decided(pending[f], committed[Leader])
               PROVE  /\ ~finished[f]
                      /\ \/ phase = "commit" /\ f \in todo /\ pending[f] = committed[Leader]
                         \/ \E i \in DOMAIN down[f] :
                              /\ down[f][i].type = "commit" /\ down[f][i].history = pending[f]
                              /\ \A j \in 1 .. i : down[f][j].type # "finish"
    BY DEF Owed, ReplicationInv, CommitOwed, Decided
  <2>1. down[f] \in Seq(Message)
    BY LeaderType DEF TypeOK
  <2>2. pending[f] \in Unsent(f) \/ \E i \in Commits(down[f]) : down[f][i].history = pending[f]
    BY DEF OwedTo, Coming
  <2>3. ~finished[f]
    BY <2>2 DEF OwedTo, Unsent, Ended
  <2>4. ASSUME NEW i \in Commits(down[f]), NEW j \in 1 .. i
        PROVE  i \in DOMAIN down[f] /\ down[f][j].type # "finish"
    <3>1. i \in DOMAIN down[f] /\ j \in DOMAIN down[f] /\ ~(i < j)
      BY <2>1 DEF Commits
    <3> QED  BY <3>1 DEF OwedTo, Finishes
  <2> QED  BY <2>2, <2>3, <2>4 DEF Unsent, Commits
<1> HIDE DEF Lossless
<1> QED  BY <1>1, <1>2, <1>3, ReplicationCorrect, PTL DEF Spec

-----------------------------------------------------------------------------
(***************************************************************************)
(* Local orders.  No replica signs two extensions for one fragment, and    *)
(* there is only one candidate for a fragment, however often it is         *)
(* abandoned and proposed again.  What a replica's receipt queue and its   *)
(* chunks hold: the batch handed to the proposer is one that applyEvidence *)
(* accepts, and the committed log of an honest replica follows its         *)
(* first-receipt order.                                                    *)
(***************************************************************************)

Orders(history) == UNION {history[k] : k \in DOMAIN history}

(***************************************************************************)
(* A replica signs for the fragment after its last one only, and keeps     *)
(* what it has signed for it until it installs the fragment.               *)
(***************************************************************************)
OrderSound(o) ==
    /\ o \in LocalOrder
    /\ o.seq <= Len(committed[o.replica]) + 1
    /\ o.seq = Len(committed[o.replica]) + 1 => localOrderPending[o.replica] = o

SignedSound == \A o \in SignedOrders : OrderSound(o)

PendingOwn ==
    \A r \in Replicas : localOrderPending[r] # NoOrder => localOrderPending[r].replica = r

(* What the collector holds is for the next fragment, from its senders. *)
CollectedSound ==
    \A o \in collected :
        /\ phase \in {"collect", "construct"}
        /\ o.seq = Len(committed[Leader]) + 1 /\ Scheduled(o.replica, o.seq)

(* One order of each of n-f scheduled replicas. *)
Batch(batch, seq) ==
    /\ batch \in Fragment /\ Cardinality(batch) = N - F
    /\ \A o \in batch : o.seq = seq /\ Scheduled(o.replica, seq)
    /\ \A o1, o2 \in batch : o1.replica = o2.replica => o1 = o2

(* A history is on the leader's log or extends it by one batch. *)
OnLog(history) ==
    \/ Prefix(history, committed[Leader])
    \/ /\ Extends(history, committed[Leader])
       /\ Batch(history[Len(history)], Len(history))

HistoriesOnLog == \A history \in Histories : OnLog(history)

SigningInv ==
    /\ ReplicationInv
    /\ SignedSound
    /\ PendingOwn
    /\ CollectedSound
    /\ HistoriesOnLog
    /\ NoEquivocation

-----------------------------------------------------------------------------
(* The histories of a state, and those a step adds. *)

AllHistories == Histories \cup {NoCandidate}

LEMMA HistoryCases ==
    ASSUME NEW h
    PROVE  h \in Histories <=>
              \/ \E r \in Replicas : h = committed[r] \/ h = pending[r]
              \/ \E f \in Followers : \E m \in Elements(down[f]) :
                    m.type \in {"candidate", "commit"} /\ h = m.history
              \/ \E f \in Followers : \E a \in Elements(acks[f]) :
                    a.type = "verified" /\ h = a.history
<1> DEFINE Sent(f) == {down[f][i].history :
                            i \in {j \in DOMAIN down[f] : down[f][j].type \in {"candidate", "commit"}}}
           Answered(f) == {acks[f][i].history :
                            i \in {j \in DOMAIN acks[f] : acks[f][j].type = "verified"}}
           Kept == {committed[r] : r \in Replicas} \cup {pending[r] : r \in Replicas}
           AllSent == UNION {Sent(f) : f \in Followers}
           AllAnswered == UNION {Answered(f) : f \in Followers}
<1>1. ASSUME NEW f
      PROVE  h \in Sent(f) <=> \E m \in Elements(down[f]) :
                                    m.type \in {"candidate", "commit"} /\ h = m.history
  BY Zenon DEF Elements
<1>2. ASSUME NEW f
      PROVE  h \in Answered(f) <=> \E a \in Elements(acks[f]) :
                                    a.type = "verified" /\ h = a.history
  BY Zenon DEF Elements
<1>3. Histories = Kept \cup AllSent \cup AllAnswered
  BY Zenon DEF Histories
<1> HIDE DEF Sent, Answered
<1>4. h \in AllSent <=> \E f \in Followers : h \in Sent(f)
  BY Zenon
<1>5. h \in AllAnswered <=> \E f \in Followers : h \in Answered(f)
  BY Zenon
<1>6. h \in Kept <=> \E r \in Replicas : h = committed[r] \/ h = pending[r]
  BY Zenon
<1> HIDE DEF Kept, AllSent, AllAnswered
<1>7. h \in Histories <=> h \in Kept \/ h \in AllSent \/ h \in AllAnswered
  BY <1>3
<1> QED  BY <1>1, <1>2, <1>4, <1>5, <1>6, <1>7, Zenon

LEMMA HistoryType ==
    ASSUME TypeOK
    PROVE  AllHistories \subseteq History
<1>1. NoCandidate \in History
  BY DEF NoCandidate, History
<1>2. ASSUME NEW h \in Histories  PROVE h \in History
  <2>1. ASSUME NEW f \in Followers, NEW m \in Elements(down[f]),
               m.type \in {"candidate", "commit"}
        PROVE  m.history \in History
    <3>1. down[f] \in Seq(Message)
      BY LeaderType DEF TypeOK
    <3>2. m \in Message
      BY <3>1 DEF Elements
    <3> QED  BY <2>1, <3>2, MessageTypes
  <2>2. ASSUME NEW f \in Followers, NEW a \in Elements(acks[f]), a.type = "verified"
        PROVE  a.history \in History
    <3>1. acks[f] \in Seq(Ack)
      BY LeaderType DEF TypeOK
    <3>2. a \in Ack
      BY <3>1 DEF Elements
    <3> QED  BY <2>2, <3>2, AckTypes
  <2>3. \A r \in Replicas : committed[r] \in History /\ pending[r] \in History
    BY DEF TypeOK
  <2> QED  BY <2>1, <2>2, <2>3, HistoryCases
<1> QED  BY <1>1, <1>2 DEF AllHistories

(* A step adds no history but those in H. *)
LEMMA HistoriesBound ==
    ASSUME NEW H,
           \A r \in Replicas : committed'[r] \in AllHistories \cup H,
           \A r \in Replicas : pending'[r] \in AllHistories \cup H,
           \A f \in Followers : \A m \in Elements(down'[f]) :
                \/ m \in Elements(down[f])
                \/ m.type \in {"candidate", "commit"} => m.history \in AllHistories \cup H,
           \A f \in Followers : \A a \in Elements(acks'[f]) :
                \/ a \in Elements(acks[f])
                \/ a.type = "verified" => a.history \in AllHistories \cup H
    PROVE  Histories' \subseteq AllHistories \cup H
<1> SUFFICES ASSUME NEW h \in Histories'  PROVE h \in AllHistories \cup H
  OBVIOUS
<1>1. \/ \E r \in Replicas : h = committed'[r] \/ h = pending'[r]
      \/ \E f \in Followers : \E m \in Elements(down'[f]) :
            m.type \in {"candidate", "commit"} /\ h = m.history
      \/ \E f \in Followers : \E a \in Elements(acks'[f]) :
            a.type = "verified" /\ h = a.history
  <2> DEFINE Sent(f) == {down'[f][i].history :
                            i \in {j \in DOMAIN down'[f] : down'[f][j].type \in {"candidate", "commit"}}}
             Answered(f) == {acks'[f][i].history :
                            i \in {j \in DOMAIN acks'[f] : acks'[f][j].type = "verified"}}
             Kept == {committed'[r] : r \in Replicas} \cup {pending'[r] : r \in Replicas}
             AllSent == UNION {Sent(f) : f \in Followers}
             AllAnswered == UNION {Answered(f) : f \in Followers}
  <2>1. ASSUME NEW f, h \in Sent(f)
        PROVE  \E m \in Elements(down'[f]) : m.type \in {"candidate", "commit"} /\ h = m.history
    BY <2>1, Zenon DEF Elements
  <2>2. ASSUME NEW f, h \in Answered(f)
        PROVE  \E a \in Elements(acks'[f]) : a.type = "verified" /\ h = a.history
    BY <2>2, Zenon DEF Elements
  <2>3. Histories' = Kept \cup AllSent \cup AllAnswered
    BY Zenon DEF Histories
  <2> HIDE DEF Sent, Answered
  <2>4. h \in AllSent => \E f \in Followers : h \in Sent(f)
    BY Zenon
  <2>5. h \in AllAnswered => \E f \in Followers : h \in Answered(f)
    BY Zenon
  <2>6. h \in Kept => \E r \in Replicas : h = committed'[r] \/ h = pending'[r]
    BY Zenon
  <2> HIDE DEF Kept, AllSent, AllAnswered
  <2>7. h \in Kept \/ h \in AllSent \/ h \in AllAnswered
    BY <2>3
  <2> QED  BY <2>1, <2>2, <2>4, <2>5, <2>6, <2>7, Zenon
<1>2. \A f \in Followers : \A m \in Elements(down[f]) :
            m.type \in {"candidate", "commit"} => m.history \in AllHistories
  BY HistoryCases, Zenon DEF AllHistories
<1>3. \A f \in Followers : \A a \in Elements(acks[f]) :
            a.type = "verified" => a.history \in AllHistories
  BY HistoryCases, Zenon DEF AllHistories
<1>4. CASE \E r \in Replicas : h = committed'[r] \/ h = pending'[r]
  BY <1>4
<1>5. ASSUME NEW f \in Followers, NEW m \in Elements(down'[f]),
             m.type \in {"candidate", "commit"}, h = m.history
      PROVE  h \in AllHistories \cup H
  <2>1. \/ m \in Elements(down[f])
        \/ m.type \in {"candidate", "commit"} => m.history \in AllHistories \cup H
    OBVIOUS
  <2> QED  BY <1>2, <1>5, <2>1, Zenon
<1>6. ASSUME NEW f \in Followers, NEW a \in Elements(acks'[f]),
             a.type = "verified", h = a.history
      PROVE  h \in AllHistories \cup H
  <2>1. \/ a \in Elements(acks[f])
        \/ a.type = "verified" => a.history \in AllHistories \cup H
    OBVIOUS
  <2> QED  BY <1>3, <1>6, <2>1, Zenon
<1> QED  BY <1>1, <1>4, <1>5, <1>6, Zenon

(* Nothing is sent, acknowledged or installed but what there is already. *)
LEMMA HistoriesKept ==
    ASSUME TypeOK,
           \A r \in Replicas : committed'[r] \in {committed[r], pending[r]},
           \A r \in Replicas : pending'[r] \in {pending[r], NoCandidate},
           \A f \in Followers : \A m \in Elements(down'[f]) :
                \/ m \in Elements(down[f])
                \/ m.type \in {"candidate", "commit"} => m.history \in AllHistories,
           \A f \in Followers : \A a \in Elements(acks'[f]) :
                a \in Elements(acks[f]) \/ a.type = "finish"
    PROVE  Histories' \subseteq AllHistories
<1>1. \A r \in Replicas : committed[r] \in AllHistories /\ pending[r] \in AllHistories
  BY HistoryCases, Zenon DEF AllHistories
<1>2. NoCandidate \in AllHistories
  BY DEF AllHistories
<1>3. \A r \in Replicas : committed'[r] \in AllHistories \cup {} /\ pending'[r] \in AllHistories \cup {}
  BY <1>1, <1>2
<1>4. \A f \in Followers : \A a \in Elements(acks'[f]) :
                \/ a \in Elements(acks[f])
                \/ a.type = "verified" => a.history \in AllHistories \cup {}
  OBVIOUS
<1>5. Histories' \subseteq AllHistories \cup {}
  BY <1>3, <1>4, HistoriesBound
<1> QED  BY <1>5

-----------------------------------------------------------------------------
LEMMA SendHistories ==
    ASSUME TypeOK, UNCHANGED <<committed, acks>>,
           \A r \in Replicas : pending'[r] \in {pending[r], NoCandidate},
           NEW r \in Replicas, NEW m \in Message, SendDown(r, m) \/ SendFails,
           m.type \in {"candidate", "commit"} => m.history \in AllHistories
    PROVE  Histories' \subseteq AllHistories
<1>1. \A f \in Followers : \A msg \in Elements(down'[f]) :
            \/ msg \in Elements(down[f])
            \/ msg.type \in {"candidate", "commit"} => msg.history \in AllHistories
  BY SendElements, LeaderType
<1> QED  BY <1>1, HistoriesKept

LEMMA AbandonHistories ==
    ASSUME TypeOK, committed' = committed,
           \A r \in Replicas : pending'[r] \in {pending[r], NoCandidate},
           \A f \in Followers : Elements(down'[f]) \subseteq Elements(down[f]),
           \A f \in Followers : Elements(acks'[f]) \subseteq Elements(acks[f])
    PROVE  Histories' \subseteq AllHistories
  BY HistoriesKept

LEMMA LeaderHistories ==
    ASSUME TypeOK, LeaderStep
    PROVE  \/ Histories' \subseteq AllHistories
           \/ /\ ConstructCandidate
              /\ Applicable(committed[Leader], collected, Content(Leader))
              /\ Histories' \subseteq AllHistories \cup {Append(committed[Leader], collected)}
<1>0. pending[Leader] \in AllHistories /\ committed[Leader] \in AllHistories
      /\ pending[Leader] \in History /\ committed[Leader] \in History
  BY HistoryCases, LeaderType DEF AllHistories, TypeOK
<1>1. ASSUME ConstructCandidate
      PROVE  \/ Histories' \subseteq AllHistories
             \/ /\ Applicable(committed[Leader], collected, Content(Leader))
                /\ Histories' \subseteq AllHistories \cup {Append(committed[Leader], collected)}
  <2>1. UNCHANGED <<committed, down, acks>>
    BY <1>1 DEF ConstructCandidate, networkVars
  <2>2. CASE pending' = pending
    BY <2>1, <2>2, AbandonHistories
  <2>3. CASE /\ Applicable(committed[Leader], collected, Content(Leader))
             /\ pending' = [pending EXCEPT ![Leader] = Append(committed[Leader], collected)]
    <3> DEFINE new == Append(committed[Leader], collected)
    <3>1. \A r \in Replicas : committed[r] \in AllHistories /\ pending[r] \in AllHistories
      BY HistoryCases, Zenon DEF AllHistories
    <3> HIDE DEF new
    <3>2. \A r \in Replicas : pending'[r] \in {pending[r], new}
      BY <2>3 DEF TypeOK, new
    <3>3. /\ \A r \in Replicas : committed'[r] \in AllHistories \cup {new}
          /\ \A r \in Replicas : pending'[r] \in AllHistories \cup {new}
      BY <2>1, <3>1, <3>2
    <3>4. Histories' \subseteq AllHistories \cup {new}
      BY <2>1, <3>3, HistoriesBound
    <3> QED  BY <2>3, <3>4 DEF new
  <2> HIDE DEF Applicable
  <2> QED  BY <1>1, <2>2, <2>3 DEF ConstructCandidate
<1>2. ASSUME AbandonExpired  PROVE Histories' \subseteq AllHistories
  <2>1. /\ UNCHANGED <<committed, down, acks>>
        /\ \A r \in Replicas : pending'[r] \in {pending[r], NoCandidate}
    BY <1>2 DEF AbandonExpired, AbandonPending, networkVars, TypeOK
  <2> QED  BY <2>1, AbandonHistories
<1>3. ASSUME CommitCandidate  PROVE Histories' \subseteq AllHistories
  <2>1. /\ UNCHANGED <<down, acks>>
        /\ \A r \in Replicas : pending'[r] \in {pending[r], NoCandidate}
        /\ \A r \in Replicas : committed'[r] \in {committed[r], pending[r]}
    BY <1>3 DEF CommitCandidate, CommitPending, networkVars, TypeOK
  <2> QED  BY <2>1, HistoriesKept
<1>4. ASSUME EndRound \/ Stop \/ ShutDown  PROVE Histories' \subseteq AllHistories
  <2>1. UNCHANGED <<committed, pending, down, acks>>
    BY <1>4 DEF EndRound, Stop, ShutDown, replicaVars, networkVars
  <2> QED  BY <2>1, AbandonHistories
<1>5. ASSUME NEW f \in Followers, SendCandidate(f)  PROVE Histories' \subseteq AllHistories
  <2> DEFINE m == [type |-> "candidate", history |-> pending[Leader]]
  <2>1. m \in Message /\ m.history \in AllHistories
    BY <1>0, MessageTypes
  <2> HIDE DEF m
  <2>2. /\ SendDown(f, m) \/ SendFails
        /\ \A r \in Replicas : pending'[r] \in {pending[r], NoCandidate}
    BY <1>5 DEF SendCandidate, AbandonPending, TypeOK, m
  <2>3. UNCHANGED <<committed, acks>>
    BY <1>5 DEF SendCandidate
  <2> QED  BY <2>1, <2>2, <2>3, LeaderType, SendHistories
<1>6. ASSUME NEW f \in Followers, SendCommit(f)  PROVE Histories' \subseteq AllHistories
  <2> DEFINE m == [type |-> "commit", history |-> committed[Leader]]
  <2>1. m \in Message /\ m.history \in AllHistories
    BY <1>0, MessageTypes
  <2> HIDE DEF m
  <2>2. UNCHANGED <<committed, pending, acks>> /\ (SendDown(f, m) \/ SendFails)
    BY <1>6 DEF SendCommit, replicaVars, m
  <2> QED  BY <2>1, <2>2, LeaderType, SendHistories
<1>7. ASSUME NEW f \in Followers, SendFinish(f)  PROVE Histories' \subseteq AllHistories
  <2> DEFINE m == [type |-> "finish"]
  <2>1. m \in Message /\ m.type = "finish"
    BY MessageTypes
  <2> HIDE DEF m
  <2>2. UNCHANGED <<committed, pending, acks>> /\ (SendDown(f, m) \/ SendFails)
    BY <1>7 DEF SendFinish, replicaVars, m
  <2> QED  BY <2>1, <2>2, LeaderType, SendHistories
<1> QED  BY <1>1, <1>2, <1>3, <1>4, <1>5, <1>6, <1>7 DEF LeaderStep

LEMMA WorkerHistories ==
    ASSUME TypeOK, NEW r \in Replicas, WorkerStep(r)
    PROVE  Histories' \subseteq AllHistories
<1>1. CASE HandleTransaction(r)
  <2>1. UNCHANGED <<committed, pending, acks>> /\ Inbox(r, "tx")
    BY <1>1 DEF HandleTransaction
  <2>2. \A f \in Followers : Elements(down'[f]) \subseteq Elements(down[f])
    BY <2>1, InboxElements, LeaderType
  <2> QED  BY <2>1, <2>2, AbandonHistories
<1>2. CASE r \in Followers /\ HandleCandidate(r)
  <2> DEFINE history == Head(down[r]).history
             answer == [type |-> "verified", history |-> history, accepted |-> pending'[r] = history]
  <2>1. Inbox(r, "candidate") /\ committed' = committed
    BY <1>2 DEF HandleCandidate, KeepCandidate
  <2>2. /\ Head(down[r]) \in Elements(down[r]) /\ Head(down[r]).type = "candidate"
        /\ \A f \in Followers : Elements(down'[f]) \subseteq Elements(down[f])
    BY <2>1, InboxElements, LeaderType DEF Inbox
  <2>3. history \in AllHistories
    BY <1>2, <2>2, HistoryCases DEF AllHistories
  <2>4. history \in History
    BY <2>3, HistoryType
  <2>5. answer \in Ack /\ answer.type = "verified" /\ answer.history = history
    BY <2>4, AckTypes
  <2>6. acks' = [acks EXCEPT ![r] = Append(@, answer)]
    BY <1>2 DEF HandleCandidate
  <2>7. pending' \in {pending, [pending EXCEPT ![r] = history]}
    BY <1>2 DEF HandleCandidate, KeepCandidate
  <2> HIDE DEF history, answer
  <2>8. \A f \in Followers : \A a \in Elements(acks'[f]) : a \in Elements(acks[f]) \/ a = answer
    <3>1. \A f \in Replicas : Elements(acks'[f]) \subseteq
                IF f = r THEN Elements(acks[f]) \cup {answer} ELSE Elements(acks[f])
      BY <2>5, <2>6, AckElements
    <3>2. \A f \in Replicas : Elements(acks'[f]) \subseteq Elements(acks[f]) \cup {answer}
      BY <3>1
    <3> QED  BY <3>2, LeaderType
  <2>9. \A q \in Replicas : committed'[q] \in AllHistories \cup {}
    BY <2>1, HistoryCases DEF AllHistories
  <2>10. \A q \in Replicas : pending'[q] \in AllHistories \cup {}
    <3>1. \A q \in Replicas : pending'[q] \in {pending[q], history}
      BY <2>7 DEF TypeOK
    <3> QED  BY <2>3, <3>1, HistoryCases DEF AllHistories
  <2>11. \A f \in Followers : \A a \in Elements(acks'[f]) :
            a \in Elements(acks[f]) \/ (a.type = "verified" => a.history \in AllHistories \cup {})
    BY <2>3, <2>5, <2>8
  <2>12. Histories' \subseteq AllHistories \cup {}
    BY <2>2, <2>9, <2>10, <2>11, HistoriesBound
  <2> QED  BY <2>12
<1>3. CASE r \in Followers /\ HandleCommit(r)
  <2>1. /\ acks' = acks /\ Inbox(r, "commit")
        /\ \A q \in Replicas : pending'[q] \in {pending[q], NoCandidate}
        /\ \A q \in Replicas : committed'[q] \in {committed[q], pending[q]}
    BY <1>3 DEF HandleCommit, CommitPending, replicaVars, TypeOK
  <2>2. \A f \in Followers : Elements(down'[f]) \subseteq Elements(down[f])
    BY <2>1, InboxElements, LeaderType
  <2> QED  BY <2>1, <2>2, HistoriesKept
<1>4. CASE r \in Followers /\ HandleFinish(r)
  <2> DEFINE ack == [type |-> "finish"]
  <2>1. UNCHANGED <<committed, pending>> /\ Inbox(r, "finish")
    BY <1>4 DEF HandleFinish, replicaVars
  <2>2. \A f \in Followers : Elements(down'[f]) \subseteq Elements(down[f])
    BY <2>1, InboxElements, LeaderType
  <2>3. ack \in Ack /\ ack.type = "finish"
    BY AckTypes
  <2> HIDE DEF ack
  <2>4. acks' = [acks EXCEPT ![r] = Append(@, ack)] \/ UNCHANGED acks
    BY <1>4 DEF HandleFinish, ack
  <2>5. \A f \in Replicas : Elements(acks'[f]) \subseteq Elements(acks[f]) \cup {ack}
    BY <2>3, <2>4, AckElements
  <2>6. \A f \in Followers : \A a \in Elements(acks'[f]) : a \in Elements(acks[f]) \/ a.type = "finish"
    BY <2>3, <2>5, LeaderType
  <2> QED  BY <2>1, <2>2, <2>6, HistoriesKept
<1> QED  BY <1>1, <1>2, <1>3, <1>4 DEF WorkerStep

(* Only a new candidate is a new history. *)
LEMMA NextHistories ==
    ASSUME TypeOK, [Next]_vars
    PROVE  \/ Histories' \subseteq AllHistories
           \/ /\ ConstructCandidate
              /\ Applicable(committed[Leader], collected, Content(Leader))
              /\ Histories' \subseteq AllHistories \cup {Append(committed[Leader], collected)}
<1>1. CASE UNCHANGED vars
  BY <1>1, AbandonHistories DEF vars, replicaVars, networkVars
<1>2. CASE Expire \/ \E tx \in Txs : SubmitTransaction(tx)
  BY <1>2, AbandonHistories DEF Expire, SubmitTransaction, replicaVars, networkVars
<1>3. ASSUME NEW tx \in Txs, NEW r \in Replicas, SendTransaction(tx, r)
      PROVE  Histories' \subseteq AllHistories
  <2> DEFINE m == [type |-> "tx", tx |-> tx]
  <2>1. m \in Message /\ m.type = "tx"
    BY MessageTypes
  <2> HIDE DEF m
  <2>2. UNCHANGED <<committed, pending, acks>> /\ (SendDown(r, m) \/ SendFails)
    BY <1>3 DEF SendTransaction, replicaVars, m
  <2> QED  BY <2>1, <2>2, SendHistories
<1>4. ASSUME NEW r \in Replicas, GenerateAndSendLocalOrder(r) \/ CollectorStep(r)
      PROVE  Histories' \subseteq AllHistories
  <2>1. UNCHANGED <<committed, pending, down, acks>>
    BY <1>4 DEF GenerateAndSendLocalOrder, SendFails, CollectorStep, CollectLocalOrder,
       DropLocalOrder, replicaVars
  <2> QED  BY <2>1, AbandonHistories
<1>5. ASSUME NEW f \in Followers, ReceiveVerified(f) \/ ReceiveFinish(f) \/ BreakConnection(f)
      PROVE  Histories' \subseteq AllHistories
  <2>0. f \in Replicas
    BY LeaderType
  <2>1. /\ committed' = committed
        /\ \A r \in Replicas : pending'[r] \in {pending[r], NoCandidate}
    BY <1>5 DEF ReceiveVerified, OnRejection, AbandonPending, ReceiveFinish, BreakConnection,
       replicaVars, TypeOK
  <2>2. CASE BreakConnection(f)
    BY <2>0, <2>1, <2>2, BreakElements, LeaderType, AbandonHistories
  <2>3. CASE ReceiveVerified(f) \/ ReceiveFinish(f)
    <3>1. down' = down /\ acks[f] # <<>> /\ acks' = [acks EXCEPT ![f] = Tail(@)]
      BY <2>3 DEF ReceiveVerified, ReceiveFinish
    <3>2. \A g \in Followers : Elements(acks'[g]) \subseteq Elements(acks[g])
      BY <2>0, <3>1, AckTaken, LeaderType
    <3> QED  BY <2>1, <3>1, <3>2, AbandonHistories
  <2> QED  BY <1>5, <2>2, <2>3
<1> QED  BY <1>1, <1>2, <1>3, <1>4, <1>5, LeaderHistories, WorkerHistories DEF Next, SubmitterStep

-----------------------------------------------------------------------------
(* The orders of a state, and those a step adds. *)

LEMMA SignedCases ==
    ASSUME NEW o
    PROVE  o \in SignedOrders <=>
              \/ o \in localOrders
              \/ o \in collected
              \/ \E r \in Replicas : localOrderPending[r] # NoOrder /\ o = localOrderPending[r]
              \/ \E h \in Histories : o \in Orders(h)
<1> DEFINE Waiting == {localOrderPending[r] : r \in {q \in Replicas : localOrderPending[q] # NoOrder}}
           Listed == UNION {Orders(h) : h \in Histories}
<1>1. SignedOrders = localOrders \cup collected \cup Waiting \cup Listed
  BY DEF SignedOrders, Orders
<1>2. o \in Waiting <=>
        \E r \in Replicas : localOrderPending[r] # NoOrder /\ o = localOrderPending[r]
  BY Zenon
<1>3. o \in Listed <=> \E h \in Histories : o \in Orders(h)
  BY Zenon
<1> HIDE DEF Waiting, Listed
<1> QED  BY <1>1, <1>2, <1>3

LEMMA SignedBound ==
    ASSUME NEW S, SignedOrders \subseteq S, localOrders' \subseteq S, collected' \subseteq S,
           \A r \in Replicas : localOrderPending'[r] # NoOrder => localOrderPending'[r] \in S,
           \A h \in Histories' : h \in AllHistories \/ Orders(h) \subseteq S
    PROVE  SignedOrders' \subseteq S
<1> SUFFICES ASSUME NEW o \in SignedOrders'  PROVE o \in S
  OBVIOUS
<1> DEFINE Waiting == {localOrderPending'[r] : r \in {q \in Replicas : localOrderPending'[q] # NoOrder}}
           Listed == UNION {Orders(h) : h \in Histories'}
<1>1. SignedOrders' = localOrders' \cup collected' \cup Waiting \cup Listed
  BY DEF SignedOrders, Orders
<1>2. Waiting \subseteq S
  BY Zenon
<1>3. Listed \subseteq S
  <2>1. Orders(NoCandidate) = {}
    BY DEF Orders, NoCandidate
  <2>2. ASSUME NEW h \in Histories', NEW x \in Orders(h)  PROVE x \in S
    <3>1. CASE Orders(h) \subseteq S
      BY <3>1
    <3>2. CASE h \in Histories
      BY <3>2, SignedCases
    <3>3. CASE h = NoCandidate
      BY <2>1, <3>3
    <3> QED  BY <3>1, <3>2, <3>3 DEF AllHistories
  <2> QED  BY <2>2, Zenon
<1> HIDE DEF Waiting, Listed
<1> QED  BY <1>1, <1>2, <1>3

LEMMA OrdersType ==
    ASSUME NEW h \in History
    PROVE  Orders(h) \subseteq LocalOrder
<1>1. \A k \in DOMAIN h : h[k] \subseteq LocalOrder
  BY DEF History, Fragment
<1> QED  BY <1>1, Zenon DEF Orders

LEMMA SignedType == TypeOK => SignedOrders \subseteq LocalOrder
<1> SUFFICES ASSUME TypeOK, NEW o \in SignedOrders PROVE o \in LocalOrder
  OBVIOUS
<1>1. \A h \in Histories : Orders(h) \subseteq LocalOrder
  BY HistoryType, OrdersType DEF AllHistories
<1>2. /\ localOrders \subseteq LocalOrder /\ collected \subseteq LocalOrder
      /\ \A r \in Replicas : localOrderPending[r] \in LocalOrder
  BY DEF TypeOK
<1> QED  BY <1>1, <1>2, SignedCases, Zenon

LEMMA AppendOrders ==
    ASSUME NEW h \in History, NEW batch \in Fragment
    PROVE  Orders(Append(h, batch)) \subseteq Orders(h) \cup batch
<1>1. \A k \in DOMAIN Append(h, batch) :
        (k \in DOMAIN h /\ Append(h, batch)[k] = h[k]) \/ Append(h, batch)[k] = batch
  BY DEF History
<1> QED  BY <1>1, Zenon DEF Orders

(* Only a ticker signs. *)
LEMMA NextSigned ==
    ASSUME TypeOK, [Next]_vars
    PROVE  \/ SignedOrders' \subseteq SignedOrders
           \/ \E r \in Replicas :
                /\ GenerateAndSendLocalOrder(r)
                /\ SignedOrders' \subseteq SignedOrders \cup {localOrderPending'[r]}
<1>1. \A r \in Replicas : localOrderPending[r] # NoOrder => localOrderPending[r] \in SignedOrders
  BY SignedCases
<1>2. localOrders \subseteq SignedOrders /\ collected \subseteq SignedOrders
  BY SignedCases
<1>3. \A h \in Histories' : h \in AllHistories \/ Orders(h) \subseteq SignedOrders
  <2> DEFINE new == Append(committed[Leader], collected)
  <2>1. Orders(new) \subseteq SignedOrders
    <3>1. committed[Leader] \in History /\ committed[Leader] \in Histories /\ collected \in Fragment
      BY HistoryCases, LeaderType DEF TypeOK, Fragment
    <3>2. Orders(committed[Leader]) \subseteq SignedOrders
      BY <3>1, SignedCases
    <3> QED  BY <1>2, <3>1, <3>2, AppendOrders
  <2> HIDE DEF new
  <2>2. Histories' \subseteq AllHistories \cup {new}
    BY NextHistories DEF new
  <2> QED  BY <2>1, <2>2
<1>4. ASSUME NEW r \in Replicas, GenerateAndSendLocalOrder(r)
      PROVE  SignedOrders' \subseteq SignedOrders \cup {localOrderPending'[r]}
  <2> DEFINE order == IF Retained(r) THEN RetainedOrder(r) ELSE FreshOrder(r)
  <2> HIDE DEF order
  <2>1. /\ localOrderPending' = [localOrderPending EXCEPT ![r] = order]
        /\ localOrders' \in {localOrders, localOrders \cup {order}}
        /\ UNCHANGED collected
    BY <1>4 DEF GenerateAndSendLocalOrder, order, leaderVars
  <2>2. \A q \in Replicas : localOrderPending'[q] \in {localOrderPending[q], order}
    BY <2>1 DEF TypeOK
  <2>3. localOrderPending'[r] = order
    BY <2>1 DEF TypeOK
  <2> DEFINE S == SignedOrders \cup {order}
  <2>4. /\ SignedOrders \subseteq S /\ localOrders' \subseteq S /\ collected' \subseteq S
        /\ \A q \in Replicas : localOrderPending'[q] # NoOrder => localOrderPending'[q] \in S
        /\ \A h \in Histories' : h \in AllHistories \/ Orders(h) \subseteq S
    BY <1>1, <1>2, <1>3, <2>1, <2>2
  <2> HIDE DEF S
  <2>5. SignedOrders' \subseteq S
    BY <2>4, SignedBound
  <2> QED  BY <2>3, <2>5 DEF S
<1>5. ASSUME /\ localOrders' \subseteq SignedOrders /\ collected' \subseteq SignedOrders
             /\ \A r \in Replicas : localOrderPending'[r] \in {localOrderPending[r], NoOrder}
      PROVE  SignedOrders' \subseteq SignedOrders
  BY <1>1, <1>3, <1>5, SignedBound
<1>6. CASE UNCHANGED vars
  BY <1>2, <1>5, <1>6 DEF vars, replicaVars, networkVars, leaderVars
<1>7. CASE SubmitterStep \/ Expire
  BY <1>2, <1>5, <1>7 DEF SubmitterStep, SubmitTransaction, SendTransaction, Expire,
     replicaVars, networkVars, leaderVars
<1>8. CASE LeaderStep
  <2>1. localOrders' = localOrders /\ collected' \in {collected, {}}
    BY <1>8 DEF LeaderStep, ConstructCandidate, AbandonExpired, CommitCandidate, EndRound, Stop,
       ShutDown, SendCandidate, SendCommit, SendFinish, networkVars
  <2>2. \A r \in Replicas : localOrderPending'[r] \in {localOrderPending[r], NoOrder}
    BY <1>8 DEF LeaderStep, ConstructCandidate, AbandonExpired, CommitCandidate, EndRound, Stop,
       ShutDown, SendCandidate, SendCommit, SendFinish, CommitPending, replicaVars, TypeOK
  <2> QED  BY <1>2, <1>5, <2>1, <2>2
<1>9. ASSUME NEW r \in Replicas, CollectorStep(r)
      PROVE  SignedOrders' \subseteq SignedOrders
  BY <1>2, <1>5, <1>9 DEF CollectorStep, CollectLocalOrder, DropLocalOrder, replicaVars, leaderVars
<1>10. ASSUME NEW r \in Replicas, WorkerStep(r)
      PROVE  SignedOrders' \subseteq SignedOrders
  <2>1. localOrders' = localOrders /\ collected' = collected
    BY <1>10 DEF WorkerStep, HandleTransaction, HandleCandidate, HandleCommit, HandleFinish,
       leaderVars
  <2>2. \A q \in Replicas : localOrderPending'[q] \in {localOrderPending[q], NoOrder}
    BY <1>10 DEF WorkerStep, HandleTransaction, HandleCandidate, HandleCommit, HandleFinish,
       CommitPending, replicaVars, TypeOK
  <2> QED  BY <1>2, <1>5, <2>1, <2>2
<1>11. ASSUME NEW f \in Followers, ReceiveVerified(f) \/ ReceiveFinish(f) \/ BreakConnection(f)
      PROVE  SignedOrders' \subseteq SignedOrders
  BY <1>2, <1>5, <1>11 DEF ReceiveVerified, ReceiveFinish, BreakConnection, replicaVars, leaderVars
<1> QED  BY <1>4, <1>6, <1>7, <1>8, <1>9, <1>10, <1>11 DEF Next

-----------------------------------------------------------------------------
(* What is signed for a fragment. *)

LEMMA WhatSigns ==
    ASSUME ReplicationInv, [Next]_vars
    PROVE  \/ UNCHANGED <<committed, localOrderPending>>
           \/ \E r \in Replicas : GenerateAndSendLocalOrder(r)
           \/ \E r \in Replicas : CommitPending(r) /\ pending[r] # NoCandidate
<1>1. CASE UNCHANGED vars
  BY <1>1 DEF vars, replicaVars
<1>2. CASE SubmitterStep \/ Expire
  BY <1>2 DEF SubmitterStep, SubmitTransaction, SendTransaction, Expire, replicaVars
<1>3. CASE LeaderStep
  <2>1. CASE CommitCandidate
    <3>1. CommitPending(Leader) /\ pending[Leader] # NoCandidate
      BY <2>1 DEF CommitCandidate, ReplicationInv, PhaseHistory
    <3> QED  BY <3>1, LeaderType
  <2> QED  BY <1>3, <2>1 DEF LeaderStep, ConstructCandidate, AbandonExpired, EndRound, Stop, ShutDown,
     SendCandidate, SendCommit, SendFinish, replicaVars
<1>4. ASSUME NEW r \in Replicas, CollectorStep(r)
      PROVE  UNCHANGED <<committed, localOrderPending>>
  BY <1>4 DEF CollectorStep, CollectLocalOrder, DropLocalOrder, replicaVars
<1>5. ASSUME NEW f \in Followers, ReceiveVerified(f) \/ ReceiveFinish(f) \/ BreakConnection(f)
      PROVE  UNCHANGED <<committed, localOrderPending>>
  BY <1>5 DEF ReceiveVerified, ReceiveFinish, BreakConnection, replicaVars
<1>6. ASSUME NEW r \in Replicas, WorkerStep(r)
      PROVE  \/ UNCHANGED <<committed, localOrderPending>>
             \/ CommitPending(r) /\ pending[r] # NoCandidate
  <2>1. ASSUME r \in Followers, HandleCommit(r), CommitPending(r), pending[r] = Head(down[r]).history
        PROVE  pending[r] # NoCandidate
    <3>1. Inbox(r, "commit")
      BY <2>1 DEF HandleCommit
    <3>2. Head(down[r]) \in Elements(down[r]) /\ Head(down[r]).type = "commit"
      BY <3>1, InboxElements DEF Inbox, ReplicationInv
    <3> QED  BY <2>1, <3>2 DEF ReplicationInv, MessagesSound, SoundMessage, NoCandidate
  <2> QED  BY <1>6, <2>1 DEF WorkerStep, HandleTransaction, HandleCandidate, KeepCandidate,
       HandleCommit, HandleFinish, replicaVars
<1> QED  BY <1>1, <1>2, <1>3, <1>4, <1>5, <1>6 DEF Next

(* A tick signs again what the replica has signed for this fragment. *)
LEMMA SignedAgain ==
    ASSUME TypeOK, SignedSound, PendingOwn, NEW r \in Replicas, GenerateAndSendLocalOrder(r)
    PROVE  LET order == localOrderPending'[r]
           IN  /\ order \in LocalOrder /\ order.replica = r
               /\ order.seq = Len(committed[r]) + 1
               /\ \A q \in Replicas \ {r} : localOrderPending'[q] = localOrderPending[q]
               /\ \A o \in SignedOrders : o.replica = r /\ o.seq = order.seq => o = order
<1> DEFINE order == IF Retained(r) THEN RetainedOrder(r) ELSE FreshOrder(r)
<1>1. order \in LocalOrder
  BY FreshOrderType, RetainedOrderType
<1>2. order.replica = r /\ order.seq = Len(committed[r]) + 1
  <2>1. localOrderPending[r] \in LocalOrder
    BY DEF TypeOK
  <2>2. CASE Retained(r)
    BY <2>1, <2>2 DEF Retained, RetainedOrder, PendingOwn, LocalOrder
  <2>3. CASE ~Retained(r)
    BY <2>3 DEF FreshOrder
  <2> QED  BY <2>2, <2>3
<1>3. ASSUME NEW o \in SignedOrders, o.replica = r, o.seq = Len(committed[r]) + 1
      PROVE  o = order
  <2>1. o \in LocalOrder /\ localOrderPending[r] = o
    BY <1>3 DEF SignedSound, OrderSound
  <2>2. Len(committed[r]) \in Nat
    BY DEF TypeOK, History
  <2>3. o # NoOrder
    BY <1>3, <2>2 DEF NoOrder
  <2>4. order = [o EXCEPT !.seq = Len(committed[r]) + 1]
    BY <2>1, <2>3 DEF Retained, RetainedOrder
  <2>5. [o EXCEPT !.seq = o.seq] = o
    BY <2>1 DEF LocalOrder
  <2> QED  BY <1>3, <2>4, <2>5
<1>4. localOrderPending' = [localOrderPending EXCEPT ![r] = order]
  BY DEF GenerateAndSendLocalOrder
<1> HIDE DEF order
<1>5. /\ localOrderPending'[r] = order
      /\ \A q \in Replicas \ {r} : localOrderPending'[q] = localOrderPending[q]
  BY <1>4 DEF TypeOK
<1> QED  BY <1>1, <1>2, <1>3, <1>5

LEMMA SignedStep ==
    ASSUME ReplicationInv, SignedSound, PendingOwn, NoEquivocation, [Next]_vars
    PROVE  (SignedSound /\ PendingOwn /\ NoEquivocation)'
<1>0. TypeOK
  BY DEF ReplicationInv
<1>1. ASSUME NEW r \in Replicas, GenerateAndSendLocalOrder(r)
      PROVE  (SignedSound /\ PendingOwn /\ NoEquivocation)'
  <2> DEFINE order == localOrderPending'[r]
  <2>1. /\ order \in LocalOrder /\ order.replica = r
        /\ order.seq = Len(committed[r]) + 1
        /\ \A q \in Replicas \ {r} : localOrderPending'[q] = localOrderPending[q]
        /\ \A o \in SignedOrders : o.replica = r /\ o.seq = order.seq => o = order
    BY <1>0, <1>1, SignedAgain
  <2>2. committed' = committed
    BY <1>1 DEF GenerateAndSendLocalOrder
  <2>3. SignedOrders' \subseteq SignedOrders \cup {order}
    <3>1. CASE SignedOrders' \subseteq SignedOrders
      BY <3>1
    <3>2. ASSUME NEW q \in Replicas, GenerateAndSendLocalOrder(q),
                 SignedOrders' \subseteq SignedOrders \cup {localOrderPending'[q]}
          PROVE  SignedOrders' \subseteq SignedOrders \cup {order}
      <4>1. CASE q = r
        BY <3>2, <4>1
      <4>2. CASE q # r
        <5>1. localOrderPending'[q] = localOrderPending[q]
          BY <2>1, <4>2
        <5>2. localOrderPending'[q] # NoOrder
          <6>1. localOrderPending'[q].seq = Len(committed[q]) + 1
            BY <1>0, <3>2, SignedAgain
          <6>2. Len(committed[q]) \in Nat
            BY <1>0 DEF TypeOK, History
          <6> QED  BY <6>1, <6>2 DEF NoOrder
        <5>3. localOrderPending'[q] \in SignedOrders
          BY <5>1, <5>2, SignedCases
        <5> QED  BY <3>2, <5>3
      <4> QED  BY <4>1, <4>2
    <3> QED  BY <1>0, <3>1, <3>2, NextSigned
  <2>4. SignedOrders \subseteq LocalOrder
    BY <1>0, SignedType
  <2>5. localOrderPending'[r] = order
    OBVIOUS
  <2> HIDE DEF order
  <2>6. SignedSound'
    <3> SUFFICES ASSUME NEW o \in SignedOrders'  PROVE OrderSound(o)'
      BY DEF SignedSound
    <3>1. o \in LocalOrder /\ o.replica \in Replicas
      BY <2>1, <2>3, <2>4 DEF LocalOrder
    <3>2. o = order \/ (o \in SignedOrders /\ OrderSound(o))
      BY <2>3 DEF SignedSound
    <3>3. o.seq <= Len(committed[o.replica]) + 1
      <4>1. Len(committed[o.replica]) \in Nat
        BY <1>0, <3>1 DEF TypeOK, History
      <4> QED  BY <2>1, <3>2, <4>1 DEF OrderSound
    <3>4. o.seq = Len(committed[o.replica]) + 1 => localOrderPending'[o.replica] = o
      BY <2>1, <2>5, <3>1, <3>2 DEF OrderSound
    <3> QED  BY <2>2, <3>1, <3>3, <3>4 DEF OrderSound
  <2>7. PendingOwn'
    BY <2>1, <2>5 DEF PendingOwn
  <2>8. NoEquivocation'
    BY <2>1, <2>3 DEF NoEquivocation
  <2> QED  BY <2>6, <2>7, <2>8
<1>2. ASSUME SignedOrders' \subseteq SignedOrders
      PROVE  NoEquivocation'
  BY <1>2 DEF NoEquivocation
<1>3. ASSUME SignedOrders' \subseteq SignedOrders, UNCHANGED <<committed, localOrderPending>>
      PROVE  (SignedSound /\ PendingOwn)'
  BY <1>3 DEF SignedSound, OrderSound, PendingOwn
<1>4. ASSUME SignedOrders' \subseteq SignedOrders,
             NEW r \in Replicas, CommitPending(r), pending[r] # NoCandidate
      PROVE  (SignedSound /\ PendingOwn)'
  <2>1. /\ committed'[r] = pending[r]
        /\ \A q \in Replicas \ {r} : /\ committed'[q] = committed[q]
                                     /\ localOrderPending'[q] = localOrderPending[q]
        /\ localOrderPending'[r] \in {localOrderPending[r], NoOrder}
    BY <1>0, <1>4 DEF CommitPending, TypeOK
  <2>2. Len(pending[r]) = Len(committed[r]) + 1 /\ Len(committed[r]) \in Nat
    BY <1>0, <1>4 DEF ReplicationInv, CandidateExtends, Extends, TypeOK, History
  <2>3. PendingOwn'
    BY <2>1 DEF PendingOwn
  <2>4. SignedSound'
    <3> SUFFICES ASSUME NEW o \in SignedOrders, OrderSound(o)  PROVE OrderSound(o)'
      BY <1>4 DEF SignedSound
    <3>1. o \in LocalOrder /\ o.replica \in Replicas /\ o.seq \in Nat
      BY DEF OrderSound, LocalOrder
    <3>2. CASE o.replica = r
      BY <2>1, <2>2, <3>1, <3>2 DEF OrderSound
    <3>3. CASE o.replica # r
      BY <2>1, <3>1, <3>3 DEF OrderSound
    <3> QED  BY <3>2, <3>3
  <2> QED  BY <2>3, <2>4
<1> QED  BY <1>0, <1>1, <1>2, <1>3, <1>4, NextSigned, WhatSigns

-----------------------------------------------------------------------------
(* One candidate for one fragment. *)

(* A rotation of the replicas is injective. *)
LEMMA Remainder ==
    ASSUME NEW n \in Nat \ {0}, NEW x \in 0 .. 2 * n - 1
    PROVE  x % n = IF x < n THEN x ELSE x - n
<1>1. x \div n \in Nat /\ x % n \in 0 .. n - 1 /\ x = n * (x \div n) + (x % n)
  OBVIOUS
<1> DEFINE q == x \div n
           m == x % n
<1>2. q \in Nat /\ m \in 0 .. n - 1 /\ x = n * q + m
  BY <1>1
<1> HIDE DEF q, m
<1>3. q = 0 \/ q = 1
  <2>1. ASSUME q >= 2  PROVE FALSE
    <3>1. n * q >= n * 2
      BY <1>2, <2>1, Z3
    <3> QED  BY <1>2, <3>1
  <2> QED  BY <1>2, <2>1
<1>4. n * q = IF q = 0 THEN 0 ELSE n
  BY <1>3
<1>5. m = IF x < n THEN x ELSE x - n
  BY <1>2, <1>3, <1>4
<1> QED  BY <1>5 DEF m

LEMMA Rotation ==
    ASSUME NEW seq \in Nat
    PROVE  \A r1, r2 \in Replicas :
                /\ (r1 + N - (seq % N)) % N \in 0 .. N - 1
                /\ (r1 + N - (seq % N)) % N = (r2 + N - (seq % N)) % N => r1 = r2
<1> DEFINE c == seq % N
<1>1. N \in Nat \ {0} /\ c \in 0 .. N - 1
  BY ReplicaAssumption
<1> HIDE DEF c
<1> SUFFICES ASSUME NEW r1 \in Replicas, NEW r2 \in Replicas
             PROVE  /\ (r1 + N - c) % N \in 0 .. N - 1
                    /\ (r1 + N - c) % N = (r2 + N - c) % N => r1 = r2
  BY DEF c
<1>2. r1 \in 0 .. N - 1 /\ r2 \in 0 .. N - 1
  BY DEF Replicas
<1> DEFINE x1 == r1 + N - c
           x2 == r2 + N - c
<1>3. x1 \in 0 .. 2 * N - 1 /\ x2 \in 0 .. 2 * N - 1
  BY <1>1, <1>2
<1>4. /\ x1 % N = IF x1 < N THEN x1 ELSE x1 - N
      /\ x2 % N = IF x2 < N THEN x2 ELSE x2 - N
  <2> HIDE DEF x1, x2
  <2> QED  BY <1>1, <1>3, Remainder
<1> QED  BY <1>1, <1>2, <1>3, <1>4

(* Signed batches for one fragment hold the same orders: both have one order *)
(* of every scheduled replica.                                               *)
LEMMA BatchUnique ==
    ASSUME NoEquivocation, NEW seq \in Nat, NEW A, NEW B, Batch(A, seq), Batch(B, seq),
           A \subseteq SignedOrders, B \subseteq SignedOrders
    PROVE  B \subseteq A
<1> DEFINE Slot(r) == (r + N - (seq % N)) % N
           Slots == 0 .. N - F - 1
           slot == [o \in A |-> Slot(o.replica)]
<1>0. N \in Nat /\ F \in Nat /\ N - F \in Nat
  BY ReplicaAssumption
<1>1. \A o \in A \cup B : o.replica \in Replicas /\ Slot(o.replica) \in Slots
  <2>1. \A o \in A \cup B : o \in LocalOrder /\ Scheduled(o.replica, seq)
    BY DEF Batch, Fragment
  <2>2. \A o \in A \cup B : o.replica \in Replicas
    BY <2>1 DEF LocalOrder
  <2>3. \A r \in Replicas : Slot(r) \in 0 .. N - 1
    BY Rotation
  <2>4. \A o \in A \cup B : Slot(o.replica) < N - F
    BY <2>1 DEF Scheduled
  <2> HIDE DEF Slot
  <2> QED  BY <1>0, <2>2, <2>3, <2>4
<1>2. \A r1, r2 \in Replicas : Slot(r1) = Slot(r2) => r1 = r2
  BY Rotation
<1> HIDE DEF Slot
<1>3. slot \in Injection(A, Slots)
  <2>1. slot \in [A -> Slots]
    BY <1>1
  <2>2. \A o1, o2 \in A : slot[o1] = slot[o2] => o1 = o2
    BY <1>1, <1>2 DEF Batch
  <2> QED  BY <2>1, <2>2 DEF Injection, IsInjective
<1>4. IsFiniteSet(Slots) /\ Cardinality(Slots) = N - F
  BY <1>0, FS_Interval
<1>5. slot \in Surjection(A, Slots)
  <2>1. Cardinality(A) = Cardinality(Slots)
    BY <1>4 DEF Batch
  <2> HIDE DEF slot, Slots
  <2> QED  BY <1>3, <1>4, <2>1, FS_Injection
<1> SUFFICES ASSUME NEW o \in B  PROVE o \in A
  OBVIOUS
<1>6. PICK twin \in A : slot[twin] = Slot(o.replica)
  <2>1. Slot(o.replica) \in Slots
    BY <1>1
  <2> HIDE DEF Slots, slot
  <2> QED  BY <1>5, <2>1 DEF Surjection
<1>7. twin.replica = o.replica
  BY <1>1, <1>2, <1>6
<1>8. twin.seq = seq /\ o.seq = seq
  BY DEF Batch
<1> QED  BY <1>7, <1>8 DEF NoEquivocation

LEMMA ExtensionParts ==
    ASSUME NEW S, NEW h \in Seq(S), NEW base \in Seq(S), Extends(h, base)
    PROVE  /\ h = Append(base, h[Len(h)]) /\ Len(h) \in DOMAIN h /\ ~Prefix(h, base)
           /\ Len(h) = Len(base) + 1
<1>1. /\ Len(base) \in Nat /\ Len(h) = Len(base) + 1 /\ Prefix(base, h)
  BY ExtendsPrefix
<1>2. h[Len(h)] \in S /\ Len(h) \in DOMAIN h
  BY <1>1
<1>3. Append(base, h[Len(h)]) \in Seq(S) /\ Len(Append(base, h[Len(h)])) = Len(h)
  BY <1>1, <1>2
<1>4. \A i \in 1 .. Len(h) : h[i] = Append(base, h[Len(h)])[i]
  BY <1>1, <1>2 DEF Prefix
<1>5. h = Append(base, h[Len(h)])
  BY <1>3, <1>4, SeqEqual
<1> QED  BY <1>1, <1>2, <1>5 DEF Prefix

(* There is one history beyond the leader's log at most. *)
LEMMA OneBeyond ==
    ASSUME TypeOK, NoEquivocation, HistoriesOnLog,
           NEW a \in Histories, NEW b \in Histories,
           ~Prefix(a, committed[Leader]), ~Prefix(b, committed[Leader])
    PROVE  a = b
<1> DEFINE log == committed[Leader]
           A == a[Len(a)]
           B == b[Len(b)]
<1>1. a \in Seq(Fragment) /\ b \in Seq(Fragment) /\ log \in Seq(Fragment)
  BY HistoryType, LeaderType DEF AllHistories, History, TypeOK
<1>2. Extends(a, log) /\ Batch(A, Len(a)) /\ Extends(b, log) /\ Batch(B, Len(b))
  BY DEF HistoriesOnLog, OnLog
<1>3. /\ a = Append(log, A) /\ Len(a) \in DOMAIN a /\ Len(a) = Len(log) + 1
      /\ b = Append(log, B) /\ Len(b) \in DOMAIN b /\ Len(b) = Len(log) + 1
  BY <1>1, <1>2, ExtensionParts
<1>4. A \subseteq SignedOrders /\ B \subseteq SignedOrders
  <2>1. A \subseteq Orders(a) /\ B \subseteq Orders(b)
    BY <1>3 DEF Orders
  <2> QED  BY <2>1, SignedCases
<1>5. Len(a) \in Nat /\ Len(a) = Len(b)
  BY <1>1, <1>3
<1> HIDE DEF log, A, B
<1>6. A = B
  BY <1>2, <1>4, <1>5, BatchUnique
<1> QED  BY <1>3, <1>6

LEMMA CollectedStep ==
    ASSUME ReplicationInv, CollectedSound, [Next]_vars
    PROVE  CollectedSound'
<1>1. ASSUME UNCHANGED collected, UNCHANGED phase, committed'[Leader] = committed[Leader]
      PROVE  CollectedSound'
  BY <1>1 DEF CollectedSound
<1>2. CASE UNCHANGED vars
  BY <1>1, <1>2 DEF vars, replicaVars, leaderVars
<1>3. CASE SubmitterStep \/ Expire
  BY <1>1, <1>3 DEF SubmitterStep, SubmitTransaction, SendTransaction, Expire,
     replicaVars, leaderVars
<1>4. CASE LeaderStep
  <2>1. CASE ConstructCandidate \/ Stop
    BY <2>1 DEF ConstructCandidate, Stop, CollectedSound
  <2>2. CASE AbandonExpired \/ CommitCandidate \/ EndRound \/ ShutDown
    <3>1. collected = {} /\ collected' = collected
      BY <2>2 DEF AbandonExpired, CommitCandidate, EndRound, ShutDown, CollectedSound
    <3> QED  BY <3>1 DEF CollectedSound
  <2>3. ASSUME NEW f \in Followers, SendCandidate(f)
        PROVE  CollectedSound'
    <3>1. collected = {} /\ collected' = collected
      BY <2>3 DEF SendCandidate, CollectedSound
    <3> QED  BY <3>1 DEF CollectedSound
  <2>4. ASSUME NEW f \in Followers, SendCommit(f) \/ SendFinish(f)
        PROVE  CollectedSound'
    BY <1>1, <2>4 DEF SendCommit, SendFinish, replicaVars
  <2> QED  BY <1>4, <2>1, <2>2, <2>3, <2>4 DEF LeaderStep
<1>5. ASSUME NEW r \in Replicas, GenerateAndSendLocalOrder(r)
      PROVE  CollectedSound'
  BY <1>1, <1>5 DEF GenerateAndSendLocalOrder, leaderVars
<1>6. ASSUME NEW order, CollectLocalOrder(order)
      PROVE  CollectedSound'
  <2>1. /\ collected' = collected \cup {order} /\ phase' \in {"collect", "construct"}
        /\ committed' = committed /\ Wanted(order)
    BY <1>6 DEF CollectLocalOrder, replicaVars
  <2> QED  BY <2>1 DEF CollectedSound, Wanted
<1>7. ASSUME NEW order, DropLocalOrder(order)
      PROVE  CollectedSound'
  BY <1>1, <1>7 DEF DropLocalOrder, replicaVars, leaderVars
<1>8. ASSUME NEW r \in Replicas, WorkerStep(r)
      PROVE  CollectedSound'
  <2>1. UNCHANGED collected /\ UNCHANGED phase
    BY <1>8 DEF WorkerStep, HandleTransaction, HandleCandidate, HandleCommit, HandleFinish, leaderVars
  <2>2. committed'[Leader] = committed[Leader]
    BY <1>8, LeaderType DEF WorkerStep, HandleTransaction, HandleCandidate, KeepCandidate,
       HandleCommit, HandleFinish, CommitPending, replicaVars, Followers, ReplicationInv, TypeOK
  <2> QED  BY <1>1, <2>1, <2>2
<1>9. ASSUME NEW f \in Followers, ReceiveVerified(f)
      PROVE  CollectedSound'
  <2>1. collected = {} /\ collected' = collected
    BY <1>9 DEF ReceiveVerified, CollectedSound
  <2> QED  BY <2>1 DEF CollectedSound
<1>10. ASSUME NEW f \in Followers, ReceiveFinish(f) \/ BreakConnection(f)
      PROVE  CollectedSound'
  BY <1>1, <1>10 DEF ReceiveFinish, BreakConnection, replicaVars, leaderVars
<1> QED
  BY <1>2, <1>3, <1>4, <1>5, <1>6, <1>7, <1>8, <1>9, <1>10 DEF Next, CollectorStep

(* The collector's batch is what a candidate adds to the leader's log. *)
LEMMA CandidateOnLog ==
    ASSUME ReplicationInv, CollectedSound, ConstructCandidate,
           Applicable(committed[Leader], collected, Content(Leader)),
           NEW new, new = Append(committed[Leader], collected)
    PROVE  OnLog(new)'
<1> DEFINE log == committed[Leader]
<1>1. log \in Seq(Fragment) /\ collected \in Fragment
  BY LeaderType DEF ReplicationInv, TypeOK, History, Fragment
<1>2. new[Len(new)] = collected /\ Len(new) = Len(log) + 1 /\ Extends(new, log)
  BY <1>1, AppendExtends
<1>3. Batch(collected, Len(log) + 1)
  BY <1>1 DEF Batch, Applicable, CollectedSound
<1>4. committed' = committed
  BY DEF ConstructCandidate
<1>5. Extends(new, log) /\ Batch(new[Len(new)], Len(new))
  BY <1>2, <1>3
<1> QED  BY <1>4, <1>5 DEF OnLog

LEMMA HistoriesStep ==
    ASSUME SigningInv, TypeOK', [Next]_vars
    PROVE  HistoriesOnLog'
<1> DEFINE log == committed[Leader]
<1>0. ReplicationInv /\ TypeOK /\ HistoriesOnLog /\ NoEquivocation /\ CollectedSound
  BY DEF SigningInv, ReplicationInv
<1>1. AllHistories \subseteq Seq(Fragment) /\ log \in Seq(Fragment)
  BY <1>0, HistoryType, LeaderType DEF History, TypeOK
<1>2. Prefix(<<>>, log) /\ Prefix(<<>>, committed'[Leader])
  BY <1>1, LeaderType DEF Prefix, TypeOK, History
<1>3. CASE committed'[Leader] = log
  <2>1. \A h \in AllHistories : OnLog(h)'
    BY <1>0, <1>2, <1>3 DEF AllHistories, HistoriesOnLog, OnLog, NoCandidate
  <2>2. \A h \in Histories' : h \in AllHistories \/ OnLog(h)'
    <3>1. ASSUME ConstructCandidate, Applicable(committed[Leader], collected, Content(Leader)),
                 NEW h, h = Append(committed[Leader], collected)
          PROVE  OnLog(h)'
      BY <1>0, <3>1, CandidateOnLog
    <3> QED  BY <1>0, <3>1, NextHistories
  <2> QED  BY <2>1, <2>2 DEF HistoriesOnLog
<1>4. CASE committed'[Leader] # log
  <2>1. CommitCandidate
    <3>1. ASSUME NEW f \in Followers, Installs(f)
          PROVE  committed'[Leader] = log
      BY <1>0, <3>1, LeaderType DEF Installs, CommitPending, Followers, TypeOK
    <3> QED  BY <1>4, <3>1, WhatInstalls
  <2> DEFINE new == pending[Leader]
  <2>2. committed'[Leader] = new /\ new # NoCandidate /\ new \in Histories
    BY <1>0, <2>1, HistoryCases, LeaderType
       DEF CommitCandidate, CommitPending, ReplicationInv, PhaseHistory, TypeOK
  <2>3. Extends(new, log) /\ new \in Seq(Fragment)
    BY <1>0, <1>1, <2>2, LeaderType DEF ReplicationInv, CandidateExtends, AllHistories
  <2> HIDE DEF new
  <2>4. ~Prefix(new, log) /\ Prefix(log, new) /\ Prefix(new, new)
    BY <1>1, <2>3, ExtensionParts, ExtendsPrefix, PrefixReflexive
  <2>5. ASSUME NEW h \in AllHistories  PROVE Prefix(h, new)
    <3>0. h \in Seq(Fragment)
      BY <1>1
    <3>1. CASE h = NoCandidate
      BY <1>2, <2>2, <3>1 DEF NoCandidate
    <3>2. CASE Prefix(h, log)
      BY <1>1, <2>3, <2>4, <3>0, <3>2, PrefixTransitive
    <3>3. CASE h \in Histories /\ ~Prefix(h, log)
      <4>1. h = new
        BY <1>0, <2>2, <2>4, <3>3, OneBeyond
      <4> QED  BY <2>4, <4>1
    <3> QED  BY <3>1, <3>2, <3>3 DEF AllHistories
  <2>6. Histories' \subseteq AllHistories
    <3>1. ~ConstructCandidate
      BY <2>1 DEF CommitCandidate, ConstructCandidate
    <3> QED  BY <1>0, <3>1, NextHistories
  <2> QED  BY <2>2, <2>5, <2>6 DEF HistoriesOnLog, OnLog
<1> QED  BY <1>3, <1>4

LEMMA InitSigning == Init => SigningInv
<1> SUFFICES ASSUME Init PROVE SigningInv
  OBVIOUS
<1>1. ReplicationInv /\ TypeOK
  BY InitReplication, InitTypeOK
<1>2. /\ \A r \in Replicas : committed[r] = <<>> /\ pending[r] = <<>> /\ localOrderPending[r] = NoOrder
      /\ \A f \in Followers : Elements(down[f]) = {} /\ Elements(acks[f]) = {}
      /\ localOrders = {} /\ collected = {}
  BY LeaderType DEF Init, Elements, NoCandidate
<1>3. \A h \in Histories : h = <<>>
  BY <1>2, HistoryCases
<1>4. SignedOrders = {}
  <2>1. \A h \in Histories : Orders(h) = {}
    BY <1>3 DEF Orders
  <2> QED  BY <1>2, <2>1, SignedCases
<1>5. HistoriesOnLog
  <2>1. Prefix(<<>>, committed[Leader])
    BY <1>2, LeaderType DEF Prefix
  <2> QED  BY <1>3, <2>1 DEF HistoriesOnLog, OnLog
<1>6. SignedSound /\ PendingOwn /\ CollectedSound /\ NoEquivocation
  BY <1>2, <1>4 DEF SignedSound, PendingOwn, CollectedSound, NoEquivocation
<1> QED  BY <1>1, <1>5, <1>6 DEF SigningInv

LEMMA SigningInductive == SigningInv /\ [Next]_vars => SigningInv'
<1> SUFFICES ASSUME SigningInv, [Next]_vars PROVE SigningInv'
  OBVIOUS
<1>1. ReplicationInv'
  BY ReplicationInductive DEF SigningInv
<1>2. (SignedSound /\ PendingOwn /\ NoEquivocation)'
  BY SignedStep DEF SigningInv
<1>3. CollectedSound'
  BY CollectedStep DEF SigningInv
<1>4. HistoriesOnLog'
  BY <1>1, HistoriesStep DEF ReplicationInv
<1> QED  BY <1>1, <1>2, <1>3, <1>4 DEF SigningInv

(* The inductive invariant of signing and proposing. *)
THEOREM SigningCorrect == Spec => []SigningInv
  BY InitSigning, SigningInductive, PTL DEF Spec

(* However often a chunk is retained, signed again and retransmitted, no     *)
(* replica signs two for one fragment (GenerateAndSendLocalOrder).           *)
THEOREM NothingSignedTwice == Spec => []NoEquivocation
<1>1. SigningInv => NoEquivocation
  BY DEF SigningInv
<1> QED  BY <1>1, SigningCorrect, PTL

(* The retry of an abandoned attempt builds the candidate again that some    *)
(* followers have pending already (constructCandidate, verifyCandidate).     *)
THEOREM RetriesAgree == Spec => []SingleHistory
<1>1. SigningInv => SingleHistory
  <2> SUFFICES ASSUME SigningInv, NEW a \in Histories, NEW b \in Histories
               PROVE  Prefix(a, b) \/ Prefix(b, a)
    BY DEF SingleHistory
  <2> DEFINE log == committed[Leader]
  <2>0. TypeOK /\ NoEquivocation /\ HistoriesOnLog
    BY DEF SigningInv, ReplicationInv
  <2>1. a \in Seq(Fragment) /\ b \in Seq(Fragment) /\ log \in Seq(Fragment)
    BY <2>0, HistoryType, LeaderType DEF AllHistories, History, TypeOK
  <2>2. CASE Prefix(a, log) /\ Prefix(b, log)
    BY <2>1, <2>2 DEF Prefix
  <2>3. CASE ~Prefix(a, log) /\ ~Prefix(b, log)
    <3>1. a = b
      BY <2>0, <2>3, OneBeyond
    <3> QED  BY <2>1, <3>1, PrefixReflexive
  <2>4. \A h \in Histories : ~Prefix(h, log) => Prefix(log, h)
    <3> SUFFICES ASSUME NEW h \in Histories, ~Prefix(h, log) PROVE Prefix(log, h)
      OBVIOUS
    <3>1. Extends(h, log) /\ h \in Seq(Fragment)
      BY <2>0, HistoryType DEF HistoriesOnLog, OnLog, AllHistories, History
    <3> QED  BY <2>1, <3>1, ExtendsPrefix
  <2>5. CASE Prefix(a, log) /\ ~Prefix(b, log)
    BY <2>1, <2>4, <2>5, PrefixTransitive
  <2>6. CASE ~Prefix(a, log) /\ Prefix(b, log)
    BY <2>1, <2>4, <2>6, PrefixTransitive
  <2> QED  BY <2>2, <2>3, <2>5, <2>6
<1> QED  BY <1>1, SigningCorrect, PTL

(***************************************************************************)
(* First receipt.  The queue of requests in the order a replica first      *)
(* received them, what it packs from that queue, and what follows for the  *)
(* logs that other replicas are handed.                                    *)
(***************************************************************************)
(* Without keeps the order of what it keeps. *)

Rank(S, x) == Cardinality({y \in S : y <= x})

LEMMA RankType ==
    ASSUME NEW n \in Nat, NEW S \in SUBSET (1 .. n), NEW x
    PROVE  /\ IsFiniteSet({y \in S : y <= x}) /\ Rank(S, x) \in Nat
           /\ IsFiniteSet(S) /\ Cardinality(S) \in Nat /\ Rank(S, x) <= Cardinality(S)
<1> DEFINE below == {y \in S : y <= x}
<1>1. IsFiniteSet(S) /\ Cardinality(S) \in Nat
  <2>1. IsFiniteSet(1 .. n)
    BY FS_Interval
  <2> QED  BY <2>1, FS_Subset, FS_CardinalityType
<1>2. below \in SUBSET S
  OBVIOUS
<1>3. IsFiniteSet(below) /\ Cardinality(below) \in Nat /\ Cardinality(below) <= Cardinality(S)
  <2> HIDE DEF below
  <2> QED  BY <1>1, <1>2, FS_Subset, FS_CardinalityType
<1> QED  BY <1>1, <1>3 DEF Rank

LEMMA RankMonotone ==
    ASSUME NEW n \in Nat, NEW S \in SUBSET (1 .. n), NEW x \in S, NEW y \in S, x < y
    PROVE  Rank(S, x) < Rank(S, y)
<1> DEFINE low == {z \in S : z <= x}
           high == {z \in S : z <= y}
<1>1. ~(y <= x) /\ y <= y /\ \A z \in S : z <= x => z <= y
  OBVIOUS
<1>2. y \notin low /\ y \in high /\ low \subseteq high
  BY <1>1, Zenon
<1>3. IsFiniteSet(low) /\ IsFiniteSet(high) /\ Cardinality(low) \in Nat /\ Cardinality(high) \in Nat
  BY RankType DEF Rank
<1>4. Cardinality(low) < Cardinality(high)
  <2> HIDE DEF low, high
  <2>1. Cardinality(low \cup {y}) = Cardinality(low) + 1
    BY <1>2, <1>3, FS_AddElement
  <2>2. low \cup {y} \in SUBSET high
    BY <1>2
  <2>3. Cardinality(low \cup {y}) <= Cardinality(high)
    BY <1>3, <2>2, FS_Subset
  <2> QED  BY <1>3, <2>1, <2>3
<1> QED  BY <1>4 DEF Rank

LEMMA NthOfRank ==
    ASSUME NEW n \in Nat, NEW S \in SUBSET (1 .. n), NEW x \in S
    PROVE  Rank(S, x) \in 1 .. Cardinality(S) /\ Nth(S, Rank(S, x)) = x
<1>1. \A y \in S : Rank(S, y) = Rank(S, x) => y = x
  <2> SUFFICES ASSUME NEW y \in S, y # x PROVE Rank(S, y) # Rank(S, x)
    OBVIOUS
  <2>1. x < y \/ y < x
    OBVIOUS
  <2>2. Rank(S, x) \in Nat /\ Rank(S, y) \in Nat
    BY RankType
  <2>3. CASE x < y
    <3>1. Rank(S, x) < Rank(S, y)
      BY <2>3, RankMonotone
    <3> QED  BY <2>2, <3>1
  <2>4. CASE y < x
    <3>1. Rank(S, y) < Rank(S, x)
      BY <2>4, RankMonotone
    <3> QED  BY <2>2, <3>1
  <2> QED  BY <2>1, <2>3, <2>4
<1>2. Nth(S, Rank(S, x)) = CHOOSE y \in S : Rank(S, y) = Rank(S, x)
  BY DEF Nth, Rank
<1>3. Rank(S, x) >= 1
  <2> DEFINE below == {y \in S : y <= x}
  <2>1. x \in below
    OBVIOUS
  <2>2. IsFiniteSet(below) /\ Cardinality(below) \in Nat
    BY RankType DEF Rank
  <2>3. Cardinality(below) # 0
    <3> HIDE DEF below
    <3> QED  BY <2>1, <2>2, FS_EmptySet
  <2> QED  BY <2>2, <2>3 DEF Rank
<1>4. Rank(S, x) \in Nat /\ Cardinality(S) \in Nat /\ Rank(S, x) <= Cardinality(S)
  BY RankType
<1> QED  BY <1>1, <1>2, <1>3, <1>4

LEMMA NthMonotone ==
    ASSUME NEW n \in Nat, NEW S \in SUBSET (1 .. n),
           NEW i \in 1 .. Cardinality(S), NEW j \in 1 .. Cardinality(S), i < j
    PROVE  Nth(S, i) < Nth(S, j)
<1>1. /\ Nth(S, i) \in S /\ Rank(S, Nth(S, i)) = i
      /\ Nth(S, j) \in S /\ Rank(S, Nth(S, j)) = j
  BY NthInSet DEF Rank
<1> DEFINE x == Nth(S, i)
           y == Nth(S, j)
<1>2. x \in S /\ y \in S /\ Rank(S, x) = i /\ Rank(S, y) = j
  BY <1>1
<1> HIDE DEF x, y
<1>3. x \in Nat /\ y \in Nat /\ i \in Int /\ j \in Int
  BY <1>2
<1>4. ~(y < x)
  <2> SUFFICES ASSUME y < x PROVE FALSE
    OBVIOUS
  <2>1. Rank(S, y) < Rank(S, x)
    BY <1>2, RankMonotone
  <2> QED  BY <1>2, <1>3, <2>1
<1>5. x # y
  BY <1>2
<1> QED  BY <1>3, <1>4, <1>5 DEF x, y

Distinct(seq) == \A i, j \in DOMAIN seq : seq[i] = seq[j] => i = j

Kept(seq, S) == {i \in DOMAIN seq : seq[i] \notin S}

LEMMA WithoutIs ==
    ASSUME NEW T, NEW seq \in Seq(T), NEW S
    PROVE  /\ Kept(seq, S) \in SUBSET (1 .. Len(seq)) /\ Len(seq) \in Nat
           /\ Cardinality(Kept(seq, S)) \in Nat
           /\ DOMAIN Without(seq, S) = 1 .. Cardinality(Kept(seq, S))
           /\ Without(seq, S) \in Seq(T)
           /\ \A i \in DOMAIN Without(seq, S) :
                /\ Nth(Kept(seq, S), i) \in Kept(seq, S)
                /\ Without(seq, S)[i] = seq[Nth(Kept(seq, S), i)]
<1>1. Len(seq) \in Nat /\ Kept(seq, S) \in SUBSET (1 .. Len(seq))
  BY DEF Kept
<1>2. Cardinality(Kept(seq, S)) \in Nat
  BY <1>1, RankType
<1>3. Without(seq, S) = [i \in 1 .. Cardinality(Kept(seq, S)) |-> seq[Nth(Kept(seq, S), i)]]
  BY DEF Without, Kept
<1>4. \A i \in 1 .. Cardinality(Kept(seq, S)) : Nth(Kept(seq, S), i) \in Kept(seq, S)
  BY <1>1, NthInSet
<1> QED  BY <1>1, <1>2, <1>3, <1>4, WithoutType

LEMMA KeptRank ==
    ASSUME NEW T, NEW seq \in Seq(T), NEW S, NEW x \in Kept(seq, S)
    PROVE  /\ Rank(Kept(seq, S), x) \in 1 .. Cardinality(Kept(seq, S))
           /\ Nth(Kept(seq, S), Rank(Kept(seq, S), x)) = x
<1> DEFINE K == Kept(seq, S)
           n == Len(seq)
<1>1. n \in Nat /\ K \in SUBSET (1 .. n) /\ x \in K
  BY WithoutIs
<1> HIDE DEF K, n
<1>2. Rank(K, x) \in 1 .. Cardinality(K) /\ Nth(K, Rank(K, x)) = x
  BY <1>1, NthOfRank
<1> QED  BY <1>2 DEF K

(* Without removes the elements of S and keeps the others. *)
LEMMA WithoutIds ==
    ASSUME NEW T, NEW seq \in Seq(T), NEW S
    PROVE  Ids(Without(seq, S)) = Ids(seq) \ S
<1>1. ASSUME NEW x \in Ids(Without(seq, S))  PROVE x \in Ids(seq) \ S
  <2>1. PICK i \in DOMAIN Without(seq, S) : x = Without(seq, S)[i]
    BY DEF Ids
  <2>2. x = seq[Nth(Kept(seq, S), i)] /\ Nth(Kept(seq, S), i) \in Kept(seq, S)
    BY <2>1, WithoutIs
  <2> QED  BY <2>2 DEF Kept, Ids
<1>2. ASSUME NEW x \in Ids(seq) \ S  PROVE x \in Ids(Without(seq, S))
  <2>1. PICK i \in Kept(seq, S) : x = seq[i]
    BY DEF Ids, Kept
  <2> DEFINE k == Rank(Kept(seq, S), i)
  <2>2. k \in 1 .. Cardinality(Kept(seq, S)) /\ Nth(Kept(seq, S), k) = i
    BY KeptRank
  <2> HIDE DEF k
  <2>3. k \in DOMAIN Without(seq, S) /\ Without(seq, S)[k] = x
    BY <2>1, <2>2, WithoutIs
  <2> QED  BY <2>3 DEF Ids
<1> QED  BY <1>1, <1>2

LEMMA WithoutDistinct ==
    ASSUME NEW T, NEW seq \in Seq(T), NEW S, Distinct(seq)
    PROVE  Distinct(Without(seq, S))
<1> SUFFICES ASSUME NEW i \in DOMAIN Without(seq, S), NEW j \in DOMAIN Without(seq, S), i < j
             PROVE  Without(seq, S)[i] # Without(seq, S)[j]
  <2>1. \A i \in DOMAIN Without(seq, S) : i \in Nat
    BY WithoutIs
  <2> QED  BY <2>1 DEF Distinct
<1> DEFINE p == Nth(Kept(seq, S), i)
           q == Nth(Kept(seq, S), j)
<1>1. p < q
  BY WithoutIs, NthMonotone
<1>2. p \in Kept(seq, S) /\ Without(seq, S)[i] = seq[p]
  BY WithoutIs
<1>3. q \in Kept(seq, S) /\ Without(seq, S)[j] = seq[q]
  BY WithoutIs
<1> HIDE DEF p, q
<1>4. p \in DOMAIN seq /\ q \in DOMAIN seq /\ p # q
  BY <1>1, <1>2, <1>3 DEF Kept
<1> QED  BY <1>2, <1>3, <1>4 DEF Distinct

LEMMA WithoutEmpty ==
    ASSUME NEW T, NEW seq \in Seq(T)
    PROVE  Without(seq, {}) = seq
<1> DEFINE n == Len(seq)
<1>0. \A m \in Nat : Cardinality(1 .. m) = m
  BY FS_Interval
<1>1. n \in Nat /\ Kept(seq, {}) = 1 .. n /\ Cardinality(1 .. n) = n
  BY <1>0 DEF Kept
<1>2. \A i \in 1 .. n : Nth(1 .. n, i) = i
  <2> SUFFICES ASSUME NEW i \in 1 .. n PROVE Nth(1 .. n, i) = i
    OBVIOUS
  <2>1. {y \in 1 .. n : y <= i} = 1 .. i
    BY <1>1
  <2>2. i \in Nat /\ Cardinality(1 .. i) = i
    BY <1>0
  <2>3. Rank(1 .. n, i) = i
    BY <2>1, <2>2 DEF Rank
  <2>4. Nth(1 .. n, Rank(1 .. n, i)) = i
    BY <1>1, NthOfRank
  <2> QED  BY <2>3, <2>4
<1>3. /\ Without(seq, {}) \in Seq(T) /\ DOMAIN Without(seq, {}) = 1 .. n
      /\ \A i \in 1 .. n : Without(seq, {})[i] = seq[i]
  BY <1>1, <1>2, WithoutIs
<1> QED  BY <1>3, SeqEqual

-----------------------------------------------------------------------------
(* The receipt queue: what has been received and not logged, in the order of *)
(* its receipt.                                                              *)
QueueOf(arrivals, queue, logged) ==
    /\ Distinct(arrivals) /\ Distinct(queue)
    /\ logged \subseteq Ids(arrivals)
    /\ Ids(queue) = Ids(arrivals) \ logged
    /\ \A i, j \in DOMAIN queue : i < j =>
          \E p, q \in DOMAIN arrivals : p < q /\ arrivals[p] = queue[i] /\ arrivals[q] = queue[j]

LEMMA AppendParts ==
    ASSUME NEW T, NEW seq \in Seq(T), NEW x \in T
    PROVE  /\ Append(seq, x) \in Seq(T)
           /\ Len(seq) \in Nat /\ DOMAIN seq = 1 .. Len(seq)
           /\ DOMAIN Append(seq, x) = 1 .. Len(seq) + 1
           /\ \A i \in DOMAIN seq : i \in DOMAIN Append(seq, x) /\ Append(seq, x)[i] = seq[i]
           /\ Append(seq, x)[Len(seq) + 1] = x
           /\ \A i \in DOMAIN Append(seq, x) : i \in DOMAIN seq \/ i = Len(seq) + 1
  OBVIOUS

LEMMA AppendIds ==
    ASSUME NEW T, NEW seq \in Seq(T), NEW x \in T
    PROVE  Ids(Append(seq, x)) = Ids(seq) \cup {x}
<1> DEFINE longer == Append(seq, x)
           n == Len(seq) + 1
<1>1. /\ n \in DOMAIN longer /\ longer[n] = x
      /\ \A i \in DOMAIN seq : i \in DOMAIN longer /\ longer[i] = seq[i]
      /\ \A i \in DOMAIN longer : i \in DOMAIN seq \/ i = n
  BY AppendParts
<1> HIDE DEF longer, n
<1>2. ASSUME NEW y \in Ids(longer)  PROVE y \in Ids(seq) \cup {x}
  BY <1>1 DEF Ids
<1>3. ASSUME NEW y \in Ids(seq) \cup {x}  PROVE y \in Ids(longer)
  BY <1>1 DEF Ids
<1> QED  BY <1>2, <1>3 DEF longer

LEMMA AppendDistinct ==
    ASSUME NEW T, NEW seq \in Seq(T), NEW x \in T, Distinct(seq), x \notin Ids(seq)
    PROVE  Distinct(Append(seq, x))
<1> DEFINE longer == Append(seq, x)
           n == Len(seq) + 1
<1>1. /\ n \in DOMAIN longer /\ longer[n] = x
      /\ \A i \in DOMAIN seq : i \in DOMAIN longer /\ longer[i] = seq[i]
      /\ \A i \in DOMAIN longer : i \in DOMAIN seq \/ i = n
  BY AppendParts
<1> HIDE DEF longer, n
<1>2. Distinct(longer)
  BY <1>1 DEF Distinct, Ids
<1> QED  BY <1>2 DEF longer

(* A new transaction goes to the end of both. *)
LEMMA QueueAppend ==
    ASSUME NEW T, NEW arrivals \in Seq(T), NEW queue \in Seq(T), NEW logged, NEW x \in T,
           QueueOf(arrivals, queue, logged), x \notin Ids(arrivals)
    PROVE  QueueOf(Append(arrivals, x), Append(queue, x), logged)
<1> DEFINE rec == Append(arrivals, x)
           que == Append(queue, x)
           m == Len(arrivals) + 1
           n == Len(queue) + 1
<1>1. Distinct(rec) /\ Distinct(que)
  BY AppendDistinct DEF QueueOf
<1>2. Ids(rec) = Ids(arrivals) \cup {x} /\ Ids(que) = Ids(queue) \cup {x}
  BY AppendIds
<1>3. /\ m \in DOMAIN rec /\ rec[m] = x
      /\ \A i \in DOMAIN arrivals : i \in DOMAIN rec /\ rec[i] = arrivals[i] /\ i < m
  BY AppendParts
<1>4. /\ que[n] = x /\ n \in Nat
      /\ \A i \in DOMAIN queue : que[i] = queue[i] /\ i < n /\ i \in Nat
      /\ \A i \in DOMAIN que : i \in DOMAIN queue \/ i = n
  BY AppendParts
<1> HIDE DEF rec, que, m, n
<1>5. ASSUME NEW i \in DOMAIN que, NEW j \in DOMAIN que, i < j
      PROVE  \E p, q \in DOMAIN rec : p < q /\ rec[p] = que[i] /\ rec[q] = que[j]
  <2>1. i \in DOMAIN queue
    <3>1. ~(n < n) /\ \A k \in DOMAIN queue : ~(n < k)
      BY <1>4
    <3> QED  BY <1>4, <1>5, <3>1
  <2>2. CASE j \in DOMAIN queue
    <3>1. PICK p \in DOMAIN arrivals, q \in DOMAIN arrivals :
              p < q /\ arrivals[p] = queue[i] /\ arrivals[q] = queue[j]
      BY <1>5, <2>1, <2>2 DEF QueueOf
    <3> QED  BY <1>3, <1>4, <2>1, <2>2, <3>1
  <2>3. CASE j = n
    <3>1. queue[i] \in Ids(queue)
      BY <2>1 DEF Ids
    <3>2. PICK p \in DOMAIN arrivals : arrivals[p] = queue[i]
      BY <3>1 DEF QueueOf, Ids
    <3> QED  BY <1>3, <1>4, <2>1, <2>3, <3>2
  <2> QED  BY <1>4, <2>2, <2>3
<1>6. logged \subseteq Ids(rec) /\ Ids(que) = Ids(rec) \ logged
  BY <1>2 DEF QueueOf
<1>7. QueueOf(rec, que, logged)
  BY <1>1, <1>5, <1>6 DEF QueueOf
<1> QED  BY <1>7 DEF rec, que

(* Logged identifiers leave the queue. *)
LEMMA QueueCommit ==
    ASSUME NEW T, NEW arrivals \in Seq(T), NEW queue \in Seq(T), NEW logged, NEW ids,
           QueueOf(arrivals, queue, logged), ids \subseteq Ids(queue)
    PROVE  QueueOf(arrivals, Without(queue, ids), logged \cup ids)
<1> DEFINE rest == Without(queue, ids)
<1>1. Distinct(arrivals) /\ Distinct(rest)
  BY WithoutDistinct DEF QueueOf
<1>2. Ids(rest) = Ids(queue) \ ids
  BY WithoutIds
<1>3. logged \cup ids \subseteq Ids(arrivals) /\ Ids(rest) = Ids(arrivals) \ (logged \cup ids)
  <2> HIDE DEF rest
  <2> QED  BY <1>2 DEF QueueOf
<1>4. ASSUME NEW i \in DOMAIN rest, NEW j \in DOMAIN rest, i < j
      PROVE  \E p, q \in DOMAIN arrivals :
                p < q /\ arrivals[p] = rest[i] /\ arrivals[q] = rest[j]
  <2> DEFINE u == Nth(Kept(queue, ids), i)
             v == Nth(Kept(queue, ids), j)
  <2>1. u < v
    BY <1>4, WithoutIs, NthMonotone
  <2>2. u \in Kept(queue, ids) /\ rest[i] = queue[u]
    BY WithoutIs
  <2>3. v \in Kept(queue, ids) /\ rest[j] = queue[v]
    BY WithoutIs
  <2> HIDE DEF u, v, rest
  <2>4. u \in DOMAIN queue /\ v \in DOMAIN queue
    BY <2>2, <2>3 DEF Kept
  <2> QED  BY <2>1, <2>2, <2>3, <2>4 DEF QueueOf
<1> HIDE DEF rest
<1>5. QueueOf(arrivals, rest, logged \cup ids)
  BY <1>1, <1>3, <1>4 DEF QueueOf
<1> QED  BY <1>5 DEF rest

-----------------------------------------------------------------------------
(* The log of a replica, as the orders of it that are in a history. *)

LEMMA OrderCases ==
    ASSUME NEW history, NEW r, NEW entry
    PROVE  entry \in OrdersOf(history, r) <=>
              \E k \in DOMAIN history : \E o \in history[k] : o.replica = r /\ entry = <<k, o.txs>>
<1> DEFINE In(k) == {<<k, o.txs>> : o \in {x \in history[k] : x.replica = r}}
<1>1. OrdersOf(history, r) = UNION {In(k) : k \in DOMAIN history}
  BY DEF OrdersOf
<1>2. \A k : entry \in In(k) <=> \E o \in history[k] : o.replica = r /\ entry = <<k, o.txs>>
  BY Zenon
<1> HIDE DEF In
<1> QED  BY <1>1, <1>2, Zenon

LEMMA LoggedCases ==
    ASSUME NEW history, NEW r, NEW x
    PROVE  x \in LoggedIds(history, r) <=> \E entry \in OrdersOf(history, r) : x \in Ids(entry[2])
  BY Zenon DEF LoggedIds

OwnIn(batch, r) == {o \in batch : o.replica = r}

(* A batch adds the replica's own orders to its log. *)
LEMMA OrdersOfAppend ==
    ASSUME NEW base \in History, NEW batch \in Fragment, NEW r
    PROVE  OrdersOf(Append(base, batch), r)
              = OrdersOf(base, r) \cup {<<Len(base) + 1, o.txs>> : o \in OwnIn(batch, r)}
<1> DEFINE h == Append(base, batch)
           n == Len(base) + 1
           own == OwnIn(batch, r)
           new == {<<n, o.txs>> : o \in own}
<1>1. /\ n \in DOMAIN h /\ h[n] = batch
      /\ \A k \in DOMAIN base : k \in DOMAIN h /\ h[k] = base[k]
      /\ \A k \in DOMAIN h : k \in DOMAIN base \/ k = n
  BY AppendParts DEF History
<1> HIDE DEF h, n
<1>2. ASSUME NEW e \in OrdersOf(h, r)  PROVE e \in OrdersOf(base, r) \cup new
  <2>1. PICK k \in DOMAIN h : \E o \in h[k] : o.replica = r /\ e = <<k, o.txs>>
    BY OrderCases
  <2>2. CASE k \in DOMAIN base
    <3>1. e \in OrdersOf(base, r)
      BY <1>1, <2>1, <2>2, OrderCases
    <3> QED  BY <3>1
  <2>3. CASE k = n
    <3>1. e \in new
      BY <1>1, <2>1, <2>3 DEF OwnIn
    <3> QED  BY <3>1
  <2> QED  BY <1>1, <2>2, <2>3
<1>3. ASSUME NEW e \in OrdersOf(base, r)  PROVE e \in OrdersOf(h, r)
  <2>1. PICK k \in DOMAIN base : \E o \in base[k] : o.replica = r /\ e = <<k, o.txs>>
    BY OrderCases
  <2>2. k \in DOMAIN h /\ h[k] = base[k]
    BY <1>1
  <2> QED  BY <2>1, <2>2, OrderCases
<1>4. ASSUME NEW e \in new  PROVE e \in OrdersOf(h, r)
  <2>1. PICK o \in own : e = <<n, o.txs>>
    OBVIOUS
  <2>2. o \in h[n] /\ o.replica = r
    BY <1>1 DEF OwnIn
  <2> QED  BY <1>1, <2>1, <2>2, OrderCases
<1> QED  BY <1>2, <1>3, <1>4 DEF h, n

(* A batch without an order of the replica leaves its log alone. *)
LEMMA NothingLogged ==
    ASSUME NEW base \in History, NEW batch \in Fragment, NEW r,
           OwnIn(batch, r) = {}
    PROVE  /\ OrdersOf(Append(base, batch), r) = OrdersOf(base, r)
           /\ LoggedIds(Append(base, batch), r) = LoggedIds(base, r)
           /\ LogHead(Append(base, batch), r) = LogHead(base, r)
<1>1. OrdersOf(Append(base, batch), r)
        = OrdersOf(base, r) \cup {<<Len(base) + 1, o.txs>> : o \in {}}
  BY OrdersOfAppend
<1>2. OrdersOf(Append(base, batch), r) = OrdersOf(base, r)
  BY <1>1
<1> QED  BY <1>2, Zenon DEF LoggedIds, LogHead

(* One order of the replica extends its log by its chunk. *)
LEMMA ChunkLogged ==
    ASSUME NEW base \in History, NEW batch \in Fragment, NEW r, NEW order,
           OwnIn(batch, r) = {order}
    PROVE  /\ OrdersOf(Append(base, batch), r)
                = OrdersOf(base, r) \cup {<<Len(base) + 1, order.txs>>}
           /\ LoggedIds(Append(base, batch), r) = LoggedIds(base, r) \cup Ids(order.txs)
<1> DEFINE h == Append(base, batch)
           new == <<Len(base) + 1, order.txs>>
<1>1. OrdersOf(h, r) = OrdersOf(base, r) \cup {<<Len(base) + 1, o.txs>> : o \in {order}}
  BY OrdersOfAppend
<1>2. OrdersOf(h, r) = OrdersOf(base, r) \cup {new}
  BY <1>1
<1>3. new[2] = order.txs
  OBVIOUS
<1> HIDE DEF h, new
<1>4. \A x : x \in LoggedIds(h, r) <=> x \in LoggedIds(base, r) \/ x \in Ids(order.txs)
  <2> TAKE x
  <2>1. x \in LoggedIds(h, r) <=> \E e \in OrdersOf(h, r) : x \in Ids(e[2])
    BY LoggedCases
  <2>2. x \in LoggedIds(base, r) <=> \E e \in OrdersOf(base, r) : x \in Ids(e[2])
    BY LoggedCases
  <2> QED  BY <1>2, <1>3, <2>1, <2>2
<1>5. LoggedIds(h, r) = LoggedIds(base, r) \cup Ids(order.txs)
  BY <1>4
<1> QED  BY <1>2, <1>5 DEF h, new

-----------------------------------------------------------------------------
(* A log follows the order of the arrivals: what arrived before a logged     *)
(* identifier is logged in an earlier chunk or earlier in the same one.      *)
Follows(orders, arrivals) ==
    \A i, j \in DOMAIN arrivals : i < j =>
        \A late \in orders : arrivals[j] \in Ids(late[2]) =>
            \E early \in orders :
                \/ early[1] < late[1] /\ arrivals[i] \in Ids(early[2])
                \/ /\ early = late
                   /\ \E p, q \in DOMAIN late[2] :
                        p < q /\ late[2][p] = arrivals[i] /\ late[2][q] = arrivals[j]

(* The first chunk of the queue can be logged next. *)
LEMMA FollowsNext ==
    ASSUME NEW T, NEW arrivals \in Seq(T), NEW queue \in Seq(T), NEW chunk \in Seq(T),
           NEW history \in History, NEW r, NEW n, n = Len(history) + 1,
           QueueOf(arrivals, queue, LoggedIds(history, r)),
           Prefix(chunk, queue), Follows(OrdersOf(history, r), arrivals)
    PROVE  Follows(OrdersOf(history, r) \cup {<<n, chunk>>}, arrivals)
<1> DEFINE old == OrdersOf(history, r)
           new == <<n, chunk>>
<1>0. new[1] = n /\ new[2] = chunk
  OBVIOUS
<1>1. \A e \in old : e[1] < n
  <2> SUFFICES ASSUME NEW e \in old PROVE e[1] < n
    OBVIOUS
  <2>1. PICK k \in DOMAIN history : \E o \in history[k] : o.replica = r /\ e = <<k, o.txs>>
    BY OrderCases
  <2>2. e[1] = k /\ k < n
    BY <2>1 DEF History
  <2> QED  BY <2>2
<1> HIDE DEF new
<1> SUFFICES ASSUME NEW i \in DOMAIN arrivals, NEW j \in DOMAIN arrivals, i < j,
                    NEW late \in old \cup {new}, arrivals[j] \in Ids(late[2])
             PROVE  \E early \in old \cup {new} :
                        \/ early[1] < late[1] /\ arrivals[i] \in Ids(early[2])
                        \/ /\ early = late
                           /\ \E p, q \in DOMAIN late[2] :
                                p < q /\ late[2][p] = arrivals[i] /\ late[2][q] = arrivals[j]
  BY DEF Follows, new
<1>2. CASE late \in old
  <2> HIDE DEF old
  <2>1. \E early \in old :
            \/ early[1] < late[1] /\ arrivals[i] \in Ids(early[2])
            \/ /\ early = late
               /\ \E p, q \in DOMAIN late[2] :
                    p < q /\ late[2][p] = arrivals[i] /\ late[2][q] = arrivals[j]
    BY <1>2 DEF Follows, old
  <2> QED  BY <2>1
<1>3. CASE late = new /\ arrivals[i] \in LoggedIds(history, r)
  <2>1. PICK early \in old : arrivals[i] \in Ids(early[2])
    BY <1>3, LoggedCases
  <2> QED  BY <1>0, <1>1, <1>3, <2>1
<1>4. CASE late = new /\ arrivals[i] \notin LoggedIds(history, r)
  <2>1. arrivals[i] \in Ids(queue)
    <3>1. arrivals[i] \in Ids(arrivals)
      BY DEF Ids
    <3> QED  BY <1>4, <3>1 DEF QueueOf
  <2>2. PICK u \in DOMAIN queue : queue[u] = arrivals[i]
    BY <2>1 DEF Ids
  <2>3. PICK v \in DOMAIN chunk : chunk[v] = arrivals[j]
    BY <1>0, <1>4 DEF Ids
  <2>4. /\ DOMAIN chunk = 1 .. Len(chunk) /\ DOMAIN queue = 1 .. Len(queue)
        /\ Len(chunk) \in Nat /\ Len(queue) \in Nat
        /\ \A k \in DOMAIN chunk : k \in DOMAIN queue /\ queue[k] = chunk[k]
    BY DEF Prefix
  <2>5. i \in Nat /\ j \in Nat
    OBVIOUS
  <2>6. u < v
    <3>1. u # v
      <4>1. arrivals[i] # arrivals[j]
        BY <2>5 DEF QueueOf, Distinct
      <4> QED  BY <2>2, <2>3, <2>4, <4>1
    <3>2. ~(v < u)
      <4> SUFFICES ASSUME v < u PROVE FALSE
        OBVIOUS
      <4>1. v \in DOMAIN queue /\ queue[v] = arrivals[j]
        BY <2>3, <2>4
      <4>2. PICK p \in DOMAIN arrivals, q \in DOMAIN arrivals :
                p < q /\ arrivals[p] = queue[v] /\ arrivals[q] = queue[u]
        BY <4>1 DEF QueueOf
      <4>3. p = j /\ q = i
        BY <2>2, <4>1, <4>2 DEF QueueOf, Distinct
      <4> QED  BY <2>5, <4>2, <4>3
    <3>3. u \in Nat /\ v \in Nat
      BY <2>4
    <3> QED  BY <3>1, <3>2, <3>3
  <2>7. u \in DOMAIN chunk
    BY <2>4, <2>6
  <2>8. chunk[u] = arrivals[i]
    BY <2>2, <2>4, <2>7
  <2> QED  BY <1>0, <1>4, <2>3, <2>6, <2>7, <2>8
<1> QED  BY <1>2, <1>3, <1>4

(* A new arrival is not in the log yet. *)
LEMMA FollowsAppend ==
    ASSUME NEW T, NEW arrivals \in Seq(T), NEW x \in T, x \notin Ids(arrivals),
           NEW history, NEW r, LoggedIds(history, r) \subseteq Ids(arrivals),
           Follows(OrdersOf(history, r), arrivals)
    PROVE  Follows(OrdersOf(history, r), Append(arrivals, x))
<1> DEFINE orders == OrdersOf(history, r)
           longer == Append(arrivals, x)
           n == Len(arrivals) + 1
<1>1. /\ longer[n] = x /\ n \in Nat
      /\ \A i \in DOMAIN arrivals : longer[i] = arrivals[i] /\ i \in Nat /\ i < n
      /\ \A i \in DOMAIN longer : i \in DOMAIN arrivals \/ i = n
  BY AppendParts
<1>2. \A late \in orders : x \notin Ids(late[2])
  BY LoggedCases
<1> HIDE DEF orders, longer, n
<1>3. Follows(orders, longer)
  <2> SUFFICES ASSUME NEW i \in DOMAIN longer, NEW j \in DOMAIN longer, i < j,
                      NEW late \in orders, longer[j] \in Ids(late[2])
               PROVE  \E early \in orders :
                        \/ early[1] < late[1] /\ longer[i] \in Ids(early[2])
                        \/ /\ early = late
                           /\ \E p, q \in DOMAIN late[2] :
                                p < q /\ late[2][p] = longer[i] /\ late[2][q] = longer[j]
    BY DEF Follows
  <2>1. j \in DOMAIN arrivals
    BY <1>1, <1>2
  <2>2. i \in DOMAIN arrivals
    <3>1. \A k \in DOMAIN arrivals : ~(n < k)
      BY <1>1
    <3> QED  BY <1>1, <2>1, <3>1
  <2>3. longer[i] = arrivals[i] /\ longer[j] = arrivals[j]
    BY <1>1, <2>1, <2>2
  <2>4. \E early \in orders :
            \/ early[1] < late[1] /\ arrivals[i] \in Ids(early[2])
            \/ /\ early = late
               /\ \E p, q \in DOMAIN late[2] :
                    p < q /\ late[2][p] = arrivals[i] /\ late[2][q] = arrivals[j]
    BY <2>1, <2>2, <2>3 DEF Follows, orders
  <2> QED  BY <2>3, <2>4
<1> QED  BY <1>3 DEF orders, longer

-----------------------------------------------------------------------------
(* A fresh chunk. *)

LEMMA CutChunk ==
    ASSUME NEW T, NEW seq \in Seq(T), NEW size \in 0 .. Len(seq), Distinct(seq)
    PROVE  LET ids == SubSeq(seq, 1, size)
           IN  /\ ids \in Seq(T) /\ Len(ids) = size
               /\ Prefix(ids, seq) /\ Distinct(ids) /\ Ids(ids) \subseteq Ids(seq)
<1> DEFINE ids == SubSeq(seq, 1, size)
<1>1. /\ ids \in Seq(T) /\ Len(ids) = size /\ DOMAIN ids = 1 .. size
      /\ Len(seq) \in Nat /\ size \in Nat
      /\ \A i \in 1 .. size : i \in DOMAIN seq /\ ids[i] = seq[i]
  OBVIOUS
<1> HIDE DEF ids
<1>2. Prefix(ids, seq)
  BY <1>1 DEF Prefix
<1>3. Distinct(ids)
  BY <1>1 DEF Distinct
<1>4. Ids(ids) \subseteq Ids(seq)
  BY <1>1 DEF Ids
<1> QED  BY <1>1, <1>2, <1>3, <1>4 DEF ids

LEMMA ReversedChunkIs ==
    ASSUME NEW T, NEW ids \in Seq(T), Distinct(ids)
    PROVE  /\ Len(Reversed(ids)) = Len(ids) /\ Distinct(Reversed(ids))
           /\ Ids(Reversed(ids)) \subseteq Ids(ids)
<1> DEFINE rev == Reversed(ids)
           n == Len(ids)
<1>1. /\ n \in Nat /\ DOMAIN ids = 1 .. n /\ rev = [i \in 1 .. n |-> ids[n - i + 1]]
      /\ \A i \in 1 .. n : n - i + 1 \in 1 .. n
      /\ \A i, j \in 1 .. n : n - i + 1 = n - j + 1 => i = j
  BY DEF Reversed
<1>2. rev \in Seq(T)
  BY ReversedType
<1> HIDE DEF rev, n
<1>3. Len(rev) = n /\ DOMAIN rev = 1 .. n /\ \A i \in 1 .. n : rev[i] = ids[n - i + 1]
  BY <1>1, <1>2
<1>4. Distinct(rev)
  BY <1>1, <1>3 DEF Distinct
<1>5. Ids(rev) \subseteq Ids(ids)
  BY <1>1, <1>3 DEF Ids
<1> QED  BY <1>3, <1>4, <1>5 DEF rev, n

-----------------------------------------------------------------------------
(***************************************************************************)
(* The inductive invariant.  A chunk waits at its replica, still a part of *)
(* the queue and an extension of the replica's own log, until the fragment *)
(* that takes it is installed; a fragment without it leaves both alone.    *)
(***************************************************************************)
ReceiptSound(r) == QueueOf(received[r], receiptQueue[r], LoggedIds(committed[r], r))

ChunkSound(r) ==
    LET order == localOrderPending[r]
    IN  order # NoOrder =>
            /\ order.prev = LogHead(committed[r], r)
            /\ Len(order.txs) <= LoMax /\ Distinct(order.txs)
            /\ Ids(order.txs) \subseteq Ids(receiptQueue[r])
            /\ r \notin Malicious => Prefix(order.txs, receiptQueue[r])

LogSound(r) == r \notin Malicious => Follows(OrdersOf(committed[r], r), received[r])

ReplicaSound(r) == ReceiptSound(r) /\ ChunkSound(r) /\ LogSound(r)

LogBatches == \A k \in DOMAIN committed[Leader] : Batch(committed[Leader][k], k)

(* A round is handed on as soon as it is full, and starts from nothing. *)
CollectorSound ==
    /\ IsFiniteSet(collected)
    /\ \A o1, o2 \in collected : o1.replica = o2.replica => o1 = o2
    /\ phase = "collect" => Cardinality(collected) < N - F
    /\ phase = "construct" => Cardinality(collected) = N - F
    /\ phase # "propose" => pending[Leader] = NoCandidate

ReceiptInv ==
    /\ SigningInv
    /\ LogBatches
    /\ CollectorSound
    /\ \A r \in Replicas : ReplicaSound(r)

-----------------------------------------------------------------------------
(* What a replica has signed and what is logged of it. *)

LEMMA HistoryBatch ==
    ASSUME SigningInv, LogBatches, NEW h \in Histories, NEW k \in DOMAIN h
    PROVE  Batch(h[k], k)
<1> DEFINE log == committed[Leader]
<1>0. h \in Seq(Fragment) /\ log \in Seq(Fragment) /\ k \in 1 .. Len(h)
  <2>1. TypeOK
    BY DEF SigningInv, ReplicationInv
  <2>2. h \in History
    BY <2>1, HistoryType DEF AllHistories
  <2>3. log \in History
    BY <2>1, LeaderType DEF TypeOK
  <2> HIDE DEF log
  <2> QED  BY <2>2, <2>3 DEF History
<1>1. CASE Prefix(h, log)
  <2>1. k \in DOMAIN log /\ h[k] = log[k]
    BY <1>0, <1>1 DEF Prefix
  <2> QED  BY <2>1 DEF LogBatches
<1>2. CASE Extends(h, log) /\ Batch(h[Len(h)], Len(h))
  <2>1. Prefix(log, h) /\ Len(h) = Len(log) + 1
    BY <1>0, <1>2, ExtendsPrefix
  <2>2. CASE k = Len(h)
    BY <1>2, <2>2
  <2>3. CASE k # Len(h)
    <3>1. k \in DOMAIN log /\ h[k] = log[k]
      BY <1>0, <2>1, <2>3 DEF Prefix
    <3> QED  BY <3>1 DEF LogBatches
  <2> QED  BY <2>2, <2>3
<1> QED  BY <1>1, <1>2 DEF SigningInv, HistoriesOnLog, OnLog

(* What a history holds of a replica beyond the replica's own log is the     *)
(* chunk that waits there.                                                   *)
LEMMA OwnOrder ==
    ASSUME SigningInv, LogBatches, NEW h \in Histories, NEW k \in DOMAIN h,
           NEW o \in h[k], NEW r \in Replicas, o.replica = r
    PROVE  /\ k \in Nat /\ k <= Len(committed[r]) + 1
           /\ k = Len(committed[r]) + 1 => localOrderPending[r] = o /\ o # NoOrder
<1>1. Batch(h[k], k)
  BY HistoryBatch
<1>2. o.seq = k
  BY <1>1 DEF Batch
<1>3. o \in SignedOrders
  <2>1. o \in Orders(h)
    BY DEF Orders
  <2> QED  BY <2>1, SignedCases
<1>4. OrderSound(o)
  BY <1>3 DEF SigningInv, SignedSound
<1>5. k \in 1 .. Len(h) /\ Len(h) \in Nat
  BY HistoryType DEF SigningInv, ReplicationInv, AllHistories, History
<1>6. o # NoOrder
  BY <1>2, <1>5 DEF NoOrder
<1> QED  BY <1>2, <1>4, <1>5, <1>6 DEF OrderSound

(* The order of a replica that has a given fragment to sign next is the      *)
(* chunk it keeps, and the replica's log is the leader's.                    *)
LEMMA CurrentOrder ==
    ASSUME SigningInv, NEW o \in SignedOrders, o.seq = Len(committed[Leader]) + 1
    PROVE  /\ o.replica \in Replicas /\ o # NoOrder
           /\ committed[o.replica] = committed[Leader]
           /\ localOrderPending[o.replica] = o
<1> DEFINE r == o.replica
           log == committed[Leader]
<1>1. OrderSound(o) /\ Agreement /\ TypeOK
  BY DEF SigningInv, SignedSound, ReplicationInv
<1>2. r \in Replicas /\ o.seq <= Len(committed[r]) + 1
  BY <1>1 DEF OrderSound, LocalOrder
<1>3. log \in Seq(Fragment) /\ committed[r] \in Seq(Fragment) /\ Prefix(committed[r], log)
  BY <1>1, <1>2, LeaderType DEF TypeOK, History, Agreement
<1>4. Len(committed[r]) = Len(log) /\ Len(log) \in Nat
  BY <1>2, <1>3 DEF Prefix
<1>5. committed[r] = log
  <2>1. \A i \in 1 .. Len(log) : committed[r][i] = log[i]
    BY <1>3, <1>4 DEF Prefix
  <2> QED  BY <1>3, <1>4, <2>1, SeqEqual
<1>6. localOrderPending[r] = o
  BY <1>1, <1>4 DEF OrderSound
<1>7. o # NoOrder
  BY <1>4 DEF NoOrder
<1> QED  BY <1>2, <1>5, <1>6, <1>7

-----------------------------------------------------------------------------
(* What a step changes at a replica. *)

LEMMA WhatReceives ==
    ASSUME ReplicationInv, [Next]_vars
    PROVE  \/ UNCHANGED <<committed, received, receiptQueue, localOrderPending>>
           \/ \E r \in Replicas : GenerateAndSendLocalOrder(r)
           \/ \E r \in Replicas : HandleTransaction(r)
           \/ \E r \in Replicas : CommitPending(r) /\ pending[r] # NoCandidate
<1>1. CASE UNCHANGED vars
  BY <1>1 DEF vars, replicaVars
<1>2. CASE SubmitterStep \/ Expire
  BY <1>2 DEF SubmitterStep, SubmitTransaction, SendTransaction, Expire, replicaVars
<1>3. CASE LeaderStep
  <2>1. CASE CommitCandidate
    <3>1. CommitPending(Leader) /\ pending[Leader] # NoCandidate
      BY <2>1 DEF CommitCandidate, ReplicationInv, PhaseHistory
    <3> QED  BY <3>1, LeaderType
  <2> QED  BY <1>3, <2>1 DEF LeaderStep, ConstructCandidate, AbandonExpired, EndRound, Stop, ShutDown,
     SendCandidate, SendCommit, SendFinish, replicaVars
<1>4. ASSUME NEW r \in Replicas, CollectorStep(r)
      PROVE  UNCHANGED <<committed, received, receiptQueue, localOrderPending>>
  BY <1>4 DEF CollectorStep, CollectLocalOrder, DropLocalOrder, replicaVars
<1>5. ASSUME NEW f \in Followers, ReceiveVerified(f) \/ ReceiveFinish(f) \/ BreakConnection(f)
      PROVE  UNCHANGED <<committed, received, receiptQueue, localOrderPending>>
  BY <1>5 DEF ReceiveVerified, ReceiveFinish, BreakConnection, replicaVars
<1>6. ASSUME NEW r \in Replicas, WorkerStep(r)
      PROVE  \/ UNCHANGED <<committed, received, receiptQueue, localOrderPending>>
             \/ HandleTransaction(r)
             \/ CommitPending(r) /\ pending[r] # NoCandidate
  <2>1. ASSUME r \in Followers, HandleCommit(r), CommitPending(r), pending[r] = Head(down[r]).history
        PROVE  pending[r] # NoCandidate
    <3>1. Inbox(r, "commit")
      BY <2>1 DEF HandleCommit
    <3>2. Head(down[r]) \in Elements(down[r]) /\ Head(down[r]).type = "commit"
      BY <3>1, InboxElements DEF Inbox, ReplicationInv
    <3> QED  BY <2>1, <3>2 DEF ReplicationInv, MessagesSound, SoundMessage, NoCandidate
  <2> QED  BY <1>6, <2>1 DEF WorkerStep, HandleCandidate, KeepCandidate, HandleCommit,
       HandleFinish, replicaVars
<1> QED  BY <1>1, <1>2, <1>3, <1>4, <1>5, <1>6 DEF Next

LEMMA NothingReceived ==
    ASSUME NEW r, ReplicaSound(r),
           committed'[r] = committed[r], received'[r] = received[r],
           receiptQueue'[r] = receiptQueue[r], localOrderPending'[r] = localOrderPending[r]
    PROVE  ReplicaSound(r)'
  BY DEF ReplicaSound, ReceiptSound, ChunkSound, LogSound

(* A tick samples the front of the queue, or signs the waiting chunk again. *)
LEMMA TickSound ==
    ASSUME TypeOK, NEW r \in Replicas, GenerateAndSendLocalOrder(r), ReplicaSound(r)
    PROVE  ReplicaSound(r)'
<1> DEFINE order == IF Retained(r) THEN RetainedOrder(r) ELSE FreshOrder(r)
           queue == receiptQueue[r]
<1>1. /\ localOrderPending'[r] = order
      /\ UNCHANGED <<committed, received, receiptQueue>>
  BY DEF GenerateAndSendLocalOrder, TypeOK
<1>2. queue \in Seq(Txs) /\ localOrderPending[r] \in LocalOrder /\ Len(queue) \in Nat
      /\ Distinct(queue) /\ LoMax \in Nat
  BY BoundAssumption DEF TypeOK, ReplicaSound, ReceiptSound, QueueOf
<1>3. /\ order.prev = LogHead(committed[r], r)
      /\ Len(order.txs) <= LoMax /\ Distinct(order.txs)
      /\ Ids(order.txs) \subseteq Ids(queue)
      /\ r \notin Malicious => Prefix(order.txs, queue)
  <2>1. CASE Retained(r)
    <3> DEFINE kept == localOrderPending[r]
    <3>1. /\ kept # NoOrder /\ kept.prev = LogHead(committed[r], r)
          /\ Len(kept.txs) <= LoMax /\ Distinct(kept.txs)
          /\ Ids(kept.txs) \subseteq Ids(queue)
          /\ r \notin Malicious => Prefix(kept.txs, queue)
      BY <2>1 DEF Retained, ReplicaSound, ChunkSound
    <3>2. order.prev = kept.prev /\ order.txs = kept.txs
      BY <1>2, <2>1 DEF RetainedOrder, LocalOrder
    <3> HIDE DEF order, kept
    <3> QED  BY <3>1, <3>2
  <2>2. CASE ~Retained(r)
    <3> DEFINE size == IF Len(queue) < LoMax THEN Len(queue) ELSE LoMax
               ids == SubSeq(queue, 1, size)
    <3>1. order.prev = LogHead(committed[r], r) /\ order.txs = Chunk(r, ids)
      BY <2>2 DEF FreshOrder
    <3>2. size \in 0 .. Len(queue) /\ size <= LoMax
      BY <1>2
    <3> HIDE DEF order, size
    <3>3. /\ ids \in Seq(Txs) /\ Len(ids) = size
          /\ Prefix(ids, queue) /\ Distinct(ids) /\ Ids(ids) \subseteq Ids(queue)
      BY <1>2, <3>2, CutChunk
    <3> HIDE DEF ids, queue
    <3>4. CASE r \in Malicious
      <4>1. order.txs = Reversed(ids)
        BY <3>1, <3>4 DEF Chunk
      <4>2. /\ Len(Reversed(ids)) = Len(ids) /\ Distinct(Reversed(ids))
            /\ Ids(Reversed(ids)) \subseteq Ids(ids)
        BY <3>3, ReversedChunkIs
      <4> QED  BY <3>1, <3>2, <3>3, <3>4, <4>1, <4>2
    <3>5. CASE r \notin Malicious
      <4>1. order.txs = ids
        BY <3>1, <3>5 DEF Chunk
      <4> QED  BY <3>1, <3>2, <3>3, <4>1
    <3> QED  BY <3>4, <3>5
  <2> QED  BY <2>1, <2>2
<1> HIDE DEF order, queue
<1> QED  BY <1>1, <1>3 DEF ReplicaSound, ReceiptSound, ChunkSound, LogSound, queue

LEMMA TransactionSound ==
    ASSUME TypeOK, NEW r \in Replicas, HandleTransaction(r), ReplicaSound(r)
    PROVE  ReplicaSound(r)'
<1> DEFINE tx == Head(down[r]).tx
<1>1. UNCHANGED <<committed, localOrderPending>>
  BY DEF HandleTransaction
<1>2. tx \in Txs /\ received[r] \in Seq(Txs) /\ receiptQueue[r] \in Seq(Txs)
  BY InboxType, MessageTypes DEF HandleTransaction, TypeOK
<1>3. CASE tx \in Content(r)
  BY <1>1, <1>3, NothingReceived DEF HandleTransaction
<1>4. CASE tx \notin Content(r)
  <2>1. /\ received'[r] = Append(received[r], tx)
        /\ receiptQueue'[r] = Append(receiptQueue[r], tx)
    BY <1>4 DEF HandleTransaction, TypeOK
  <2>2. tx \notin Ids(received[r])
    BY <1>4 DEF Content, Ids
  <2> HIDE DEF tx
  <2>3. ReceiptSound(r)'
    BY <1>1, <1>2, <2>1, <2>2, QueueAppend DEF ReplicaSound, ReceiptSound
  <2>4. LogSound(r)'
    <3>1. LoggedIds(committed[r], r) \subseteq Ids(received[r])
      BY DEF ReplicaSound, ReceiptSound, QueueOf
    <3> QED  BY <1>1, <1>2, <2>1, <2>2, <3>1, FollowsAppend DEF ReplicaSound, LogSound
  <2>5. ChunkSound(r)'
    <3> DEFINE order == localOrderPending[r]
               queue == receiptQueue[r]
    <3> SUFFICES ASSUME order # NoOrder
                 PROVE  /\ order.prev = LogHead(committed[r], r)
                        /\ Len(order.txs) <= LoMax /\ Distinct(order.txs)
                        /\ Ids(order.txs) \subseteq Ids(Append(queue, tx))
                        /\ r \notin Malicious => Prefix(order.txs, Append(queue, tx))
      BY <1>1, <2>1 DEF ChunkSound
    <3>1. /\ order.prev = LogHead(committed[r], r)
          /\ Len(order.txs) <= LoMax /\ Distinct(order.txs)
          /\ Ids(order.txs) \subseteq Ids(queue)
          /\ r \notin Malicious => Prefix(order.txs, queue)
      BY DEF ReplicaSound, ChunkSound
    <3>2. Ids(Append(queue, tx)) = Ids(queue) \cup {tx}
      BY <1>2, AppendIds
    <3>3. order.txs \in Seq(Txs)
      BY DEF TypeOK, LocalOrder
    <3>4. Prefix(order.txs, queue) => Prefix(order.txs, Append(queue, tx))
      <4>1. /\ Len(order.txs) \in Nat /\ Len(queue) \in Nat
            /\ Len(Append(queue, tx)) = Len(queue) + 1
            /\ \A i \in 1 .. Len(queue) : Append(queue, tx)[i] = queue[i]
        BY <1>2, <3>3
      <4> QED  BY <4>1 DEF Prefix
    <3> QED  BY <3>1, <3>2, <3>4
  <2> QED  BY <2>3, <2>4, <2>5 DEF ReplicaSound
<1> QED  BY <1>3, <1>4

(* An installed fragment logs the waiting chunk, or nothing of the replica. *)
LEMMA InstallSound ==
    ASSUME SigningInv, LogBatches, NEW r \in Replicas, ReplicaSound(r),
           CommitPending(r), pending[r] # NoCandidate
    PROVE  ReplicaSound(r)'
<1> DEFINE base == committed[r]
           h == pending[r]
           batch == h[Len(h)]
           own == OwnIn(batch, r)
           order == localOrderPending[r]
           queue == receiptQueue[r]
<1>0. TypeOK /\ h \in Histories
  BY HistoryCases DEF SigningInv, ReplicationInv
<1>1. /\ base \in History /\ h \in Seq(Fragment) /\ base \in Seq(Fragment)
      /\ Extends(h, base) /\ queue \in Seq(Txs) /\ received[r] \in Seq(Txs)
      /\ order \in LocalOrder
  BY <1>0 DEF SigningInv, ReplicationInv, CandidateExtends, TypeOK, History
<1>2. /\ h = Append(base, batch) /\ Len(h) \in DOMAIN h /\ Len(h) = Len(base) + 1
      /\ batch \in Fragment
  <2>1. h = Append(base, batch) /\ Len(h) \in DOMAIN h /\ Len(h) = Len(base) + 1
    BY <1>1, ExtensionParts
  <2> QED  BY <1>1, <2>1
<1>3. \A o \in own : o = order /\ order # NoOrder
  <2> SUFFICES ASSUME NEW o \in own PROVE o = order /\ order # NoOrder
    OBVIOUS
  <2>1. o \in h[Len(h)] /\ o.replica = r
    BY DEF OwnIn
  <2> QED  BY <1>0, <1>2, <2>1, OwnOrder
<1>4. /\ committed'[r] = h /\ received'[r] = received[r]
      /\ receiptQueue'[r] = Without(queue, UNION {Ids(o.txs) : o \in own})
      /\ localOrderPending'[r] = IF order \in own THEN NoOrder ELSE order
  <2>1. OwnOrders(r) = own
    BY DEF OwnOrders, OwnIn
  <2> HIDE DEF own
  <2> QED  BY <1>0, <2>1 DEF CommitPending, TypeOK
<1>5. CASE own = {}
  <2>1. /\ OrdersOf(h, r) = OrdersOf(base, r) /\ LoggedIds(h, r) = LoggedIds(base, r)
        /\ LogHead(h, r) = LogHead(base, r)
    <3> HIDE DEF base, h, batch
    <3> QED  BY <1>1, <1>2, <1>5, NothingLogged
  <2>2. receiptQueue'[r] = queue /\ localOrderPending'[r] = order
    <3>1. UNION {Ids(o.txs) : o \in {}} = {}
      OBVIOUS
    <3>2. Without(queue, {}) = queue
      BY <1>1, WithoutEmpty
    <3> HIDE DEF own, order, queue
    <3> QED  BY <1>4, <1>5, <3>1, <3>2
  <2> QED  BY <1>4, <2>1, <2>2 DEF ReplicaSound, ReceiptSound, ChunkSound, LogSound
<1>6. CASE own # {}
  <2>1. own = {order} /\ order # NoOrder
    BY <1>3, <1>6
  <2>2. /\ OrdersOf(h, r) = OrdersOf(base, r) \cup {<<Len(base) + 1, order.txs>>}
        /\ LoggedIds(h, r) = LoggedIds(base, r) \cup Ids(order.txs)
    <3>1. OwnIn(batch, r) = {order}
      BY <2>1
    <3>2. base \in History /\ batch \in Fragment /\ h = Append(base, batch)
      BY <1>1, <1>2
    <3> HIDE DEF base, h, batch, order, own
    <3>3. /\ OrdersOf(Append(base, batch), r)
                = OrdersOf(base, r) \cup {<<Len(base) + 1, order.txs>>}
          /\ LoggedIds(Append(base, batch), r) = LoggedIds(base, r) \cup Ids(order.txs)
      BY <3>1, <3>2, ChunkLogged, SMTT(60)
    <3> QED  BY <3>2, <3>3
  <2>3. /\ receiptQueue'[r] = Without(queue, Ids(order.txs))
        /\ localOrderPending'[r] = NoOrder
    <3>1. UNION {Ids(o.txs) : o \in {order}} = Ids(order.txs)
      OBVIOUS
    <3> HIDE DEF own, order, queue
    <3> QED  BY <1>4, <2>1, <3>1
  <2>4. /\ Ids(order.txs) \subseteq Ids(queue)
        /\ r \notin Malicious => Prefix(order.txs, queue)
    BY <2>1 DEF ReplicaSound, ChunkSound
  <2>5. QueueOf(received[r], queue, LoggedIds(base, r))
    BY DEF ReplicaSound, ReceiptSound
  <2>6. ReceiptSound(r)'
    <3>1. QueueOf(received[r], Without(queue, Ids(order.txs)), LoggedIds(h, r))
      BY <1>1, <2>2, <2>4, <2>5, QueueCommit
    <3> QED  BY <1>4, <2>3, <3>1 DEF ReceiptSound
  <2>7. LogSound(r)'
    <3> SUFFICES ASSUME r \notin Malicious PROVE Follows(OrdersOf(h, r), received[r])
      BY <1>4 DEF LogSound
    <3>1. Follows(OrdersOf(base, r), received[r])
      BY DEF ReplicaSound, LogSound
    <3>2. order.txs \in Seq(Txs)
      BY <1>1 DEF LocalOrder
    <3>3. Follows(OrdersOf(base, r) \cup {<<Len(base) + 1, order.txs>>}, received[r])
      <4> HIDE DEF order, queue, base
      <4> QED  BY <1>1, <2>4, <2>5, <3>1, <3>2, FollowsNext
    <3> QED  BY <2>2, <3>3
  <2>8. ChunkSound(r)'
    BY <2>3 DEF ChunkSound
  <2> QED  BY <2>6, <2>7, <2>8 DEF ReplicaSound
<1> QED  BY <1>5, <1>6

LEMMA ReplicasSound ==
    ASSUME ReceiptInv, [Next]_vars, NEW q \in Replicas
    PROVE  ReplicaSound(q)'
<1>0. ReplicationInv /\ TypeOK /\ SigningInv /\ LogBatches /\ ReplicaSound(q)
  BY DEF ReceiptInv, SigningInv, ReplicationInv
<1>1. CASE UNCHANGED <<committed, received, receiptQueue, localOrderPending>>
  BY <1>0, <1>1, NothingReceived
<1>2. ASSUME NEW r \in Replicas,
             GenerateAndSendLocalOrder(r) \/ HandleTransaction(r)
                \/ (CommitPending(r) /\ pending[r] # NoCandidate)
      PROVE  ReplicaSound(q)'
  <2>1. CASE r = q
    BY <1>0, <1>2, <2>1, TickSound, TransactionSound, InstallSound
  <2>2. CASE r # q
    <3>1. /\ committed'[q] = committed[q] /\ received'[q] = received[q]
          /\ receiptQueue'[q] = receiptQueue[q]
          /\ localOrderPending'[q] = localOrderPending[q]
      BY <1>0, <1>2, <2>2 DEF GenerateAndSendLocalOrder, HandleTransaction, CommitPending, TypeOK
    <3> QED  BY <1>0, <3>1, NothingReceived
  <2> QED  BY <2>1, <2>2
<1> QED  BY <1>0, <1>1, <1>2, WhatReceives

-----------------------------------------------------------------------------
(* The leader commits nothing but a batch. *)
LEMMA LogBatchesStep ==
    ASSUME SigningInv, LogBatches, [Next]_vars
    PROVE  LogBatches'
<1> DEFINE log == committed[Leader]
           new == pending[Leader]
<1>0. ReplicationInv /\ TypeOK /\ HistoriesOnLog
  BY DEF SigningInv, ReplicationInv
<1>1. CASE committed'[Leader] = log
  BY <1>1 DEF LogBatches
<1>2. CASE committed'[Leader] # log
  <2>1. CommitCandidate
    <3>1. ASSUME NEW f \in Followers, Installs(f)
          PROVE  committed'[Leader] = log
      BY <1>0, <3>1, LeaderType DEF Installs, CommitPending, Followers, TypeOK
    <3> QED  BY <1>2, <3>1, WhatInstalls
  <2>2. committed'[Leader] = new /\ new # NoCandidate /\ new \in Histories
    BY <1>0, <2>1, HistoryCases, LeaderType
       DEF CommitCandidate, CommitPending, ReplicationInv, PhaseHistory, TypeOK
  <2>3. \A k \in DOMAIN new : Batch(new[k], k)
    BY <2>2, HistoryBatch
  <2> QED  BY <2>2, <2>3 DEF LogBatches
<1> QED  BY <1>1, <1>2

LEMMA QuorumSize == N \in Nat /\ F \in Nat /\ N - F \in Nat /\ 0 < N - F
  BY ReplicaAssumption

LEMMA EmptyRound ==
    ASSUME collected' = {}, phase' # "construct",
           phase' # "propose" => pending'[Leader] = NoCandidate
    PROVE  CollectorSound'
<1>1. IsFiniteSet({}) /\ Cardinality({}) = 0
  BY FS_EmptySet
<1> QED  BY <1>1, QuorumSize DEF CollectorSound

LEMMA CollectorSoundStep ==
    ASSUME SigningInv, CollectorSound, [Next]_vars
    PROVE  CollectorSound'
<1>0. TypeOK /\ CollectedSound /\ Leader \in Replicas
  BY LeaderType DEF SigningInv, ReplicationInv
<1>1. ASSUME UNCHANGED collected, UNCHANGED phase, pending'[Leader] = pending[Leader]
      PROVE  CollectorSound'
  BY <1>1 DEF CollectorSound
<1>2. CASE UNCHANGED vars
  BY <1>1, <1>2 DEF vars, replicaVars, leaderVars
<1>3. CASE SubmitterStep \/ Expire
  BY <1>1, <1>3 DEF SubmitterStep, SubmitTransaction, SendTransaction, Expire,
     replicaVars, leaderVars
<1>4. CASE LeaderStep
  <2>1. CASE ConstructCandidate
    <3>1. /\ collected' = {} /\ phase' \in {"collect", "propose"}
          /\ phase' = "collect" => pending' = pending
      BY <2>1 DEF ConstructCandidate
    <3>2. pending[Leader] = NoCandidate
      BY <2>1 DEF ConstructCandidate, CollectorSound
    <3> QED  BY <3>1, <3>2, EmptyRound
  <2>2. CASE AbandonExpired \/ CommitCandidate
    <3>1. collected' = {} /\ phase' \in {"collect", "commit"} /\ pending'[Leader] = NoCandidate
      BY <1>0, <2>2 DEF AbandonExpired, AbandonPending, CommitCandidate, CommitPending,
         CollectedSound, TypeOK
    <3> QED  BY <3>1, EmptyRound
  <2>3. CASE EndRound \/ Stop \/ ShutDown
    <3>1. collected' = {} /\ phase' \in {"collect", "finish", "done"} /\ phase # "propose"
          /\ pending' = pending
      BY <1>0, <2>3 DEF EndRound, Stop, ShutDown, PipelineIdle, replicaVars, CollectedSound
    <3> QED  BY <3>1, EmptyRound DEF CollectorSound
  <2>4. ASSUME NEW f \in Followers, SendCandidate(f)
        PROVE  CollectorSound'
    <3>1. collected' = {} /\ (UNCHANGED <<pending, phase>> \/ AbandonPending)
          /\ phase = "propose"
      BY <1>0, <2>4 DEF SendCandidate, CollectedSound
    <3>2. phase' \in {"propose", "collect"}
          /\ (phase' = "collect" => pending'[Leader] = NoCandidate)
      BY <1>0, <3>1 DEF AbandonPending, TypeOK
    <3> QED  BY <3>1, <3>2, EmptyRound
  <2>5. ASSUME NEW f \in Followers, SendCommit(f) \/ SendFinish(f)
        PROVE  CollectorSound'
    BY <1>1, <2>5 DEF SendCommit, SendFinish, replicaVars
  <2> QED  BY <1>4, <2>1, <2>2, <2>3, <2>4, <2>5 DEF LeaderStep
<1>5. ASSUME NEW r \in Replicas, GenerateAndSendLocalOrder(r)
      PROVE  CollectorSound'
  BY <1>1, <1>5 DEF GenerateAndSendLocalOrder, leaderVars
<1>6. ASSUME NEW order, CollectLocalOrder(order)
      PROVE  CollectorSound'
  <2>1. /\ collected' = collected \cup {order} /\ Wanted(order)
        /\ phase' = IF Cardinality(collected \cup {order}) >= N - F THEN "construct" ELSE "collect"
        /\ UNCHANGED pending
    BY <1>6 DEF CollectLocalOrder, replicaVars
  <2>2. /\ IsFiniteSet(collected) /\ Cardinality(collected) < N - F
        /\ pending[Leader] = NoCandidate /\ order \notin collected
    BY <2>1 DEF CollectorSound, Wanted
  <2>3. /\ IsFiniteSet(collected \cup {order}) /\ Cardinality(collected) \in Nat
        /\ Cardinality(collected \cup {order}) = Cardinality(collected) + 1
    BY <2>2, FS_AddElement, FS_CardinalityType
  <2>4. \A o1, o2 \in collected \cup {order} : o1.replica = o2.replica => o1 = o2
    BY <2>1 DEF CollectorSound, Wanted
  <2>5. /\ phase' = "collect" => Cardinality(collected \cup {order}) < N - F
        /\ phase' = "construct" => Cardinality(collected \cup {order}) = N - F
    BY <2>1, <2>2, <2>3, QuorumSize
  <2> QED  BY <2>1, <2>2, <2>3, <2>4, <2>5 DEF CollectorSound
<1>7. ASSUME NEW order, DropLocalOrder(order)
      PROVE  CollectorSound'
  BY <1>1, <1>7 DEF DropLocalOrder, replicaVars, leaderVars
<1>8. ASSUME NEW r \in Replicas, WorkerStep(r)
      PROVE  CollectorSound'
  <2>1. UNCHANGED collected /\ UNCHANGED phase
    BY <1>8 DEF WorkerStep, HandleTransaction, HandleCandidate, HandleCommit, HandleFinish, leaderVars
  <2>2. pending'[Leader] = pending[Leader]
    BY <1>0, <1>8 DEF WorkerStep, HandleTransaction, HandleCandidate, KeepCandidate,
       HandleCommit, HandleFinish, CommitPending, replicaVars, Followers, TypeOK
  <2> QED  BY <1>1, <2>1, <2>2
<1>9. ASSUME NEW f \in Followers, ReceiveVerified(f)
      PROVE  CollectorSound'
  <2>1. collected' = {} /\ (UNCHANGED <<pending, phase>> \/ AbandonPending)
        /\ phase = "propose"
    BY <1>0, <1>9 DEF ReceiveVerified, OnRejection, CollectedSound
  <2>2. phase' \in {"propose", "collect"}
        /\ (phase' = "collect" => pending'[Leader] = NoCandidate)
    BY <1>0, <2>1 DEF AbandonPending, TypeOK
  <2> QED  BY <2>1, <2>2, EmptyRound
<1>10. ASSUME NEW f \in Followers, ReceiveFinish(f) \/ BreakConnection(f)
      PROVE  CollectorSound'
  BY <1>1, <1>10 DEF ReceiveFinish, BreakConnection, replicaVars, leaderVars
<1> QED
  BY <1>2, <1>3, <1>4, <1>5, <1>6, <1>7, <1>8, <1>9, <1>10 DEF Next, CollectorStep

LEMMA InitReceipt == Init => ReceiptInv
<1> SUFFICES ASSUME Init PROVE ReceiptInv
  OBVIOUS
<1>1. SigningInv
  BY InitSigning
<1>2. LogBatches
  BY LeaderType DEF Init, LogBatches
<1>3. CollectorSound
  <2>1. IsFiniteSet({}) /\ Cardinality({}) = 0
    BY FS_EmptySet
  <2> QED  BY <2>1, QuorumSize, LeaderType DEF Init, CollectorSound
<1>4. ASSUME NEW r \in Replicas  PROVE ReplicaSound(r)
  <2>1. /\ committed[r] = <<>> /\ received[r] = <<>> /\ receiptQueue[r] = <<>>
        /\ localOrderPending[r] = NoOrder
    BY DEF Init
  <2>2. \A entry : entry \notin OrdersOf(<<>>, r)
    BY OrderCases
  <2>3. LoggedIds(<<>>, r) = {}
    BY <2>2, LoggedCases
  <2>4. Ids(<<>>) = {}
    BY DEF Ids
  <2> QED
    BY <2>1, <2>2, <2>3, <2>4
       DEF ReplicaSound, ReceiptSound, ChunkSound, LogSound, QueueOf, Distinct, Follows
<1> QED  BY <1>1, <1>2, <1>3, <1>4 DEF ReceiptInv

LEMMA ReceiptInductive == ReceiptInv /\ [Next]_vars => ReceiptInv'
<1> SUFFICES ASSUME ReceiptInv, [Next]_vars PROVE ReceiptInv'
  OBVIOUS
<1>1. SigningInv'
  BY SigningInductive DEF ReceiptInv
<1>2. LogBatches' /\ CollectorSound'
  BY LogBatchesStep, CollectorSoundStep DEF ReceiptInv
<1>3. \A r \in Replicas : ReplicaSound(r)'
  BY ReplicasSound
<1> QED  BY <1>1, <1>2, <1>3 DEF ReceiptInv

(* The inductive invariant of sampling, collecting and logging. *)
THEOREM ReceiptCorrect == Spec => []ReceiptInv
  BY InitReceipt, ReceiptInductive, PTL DEF Spec

-----------------------------------------------------------------------------
(* The leader never refuses its own batch: every collected order is the      *)
(* chunk its replica keeps, and extends the leader's own log                 *)
(* (constructCandidate, applyEvidence).                                      *)
THEOREM BatchesApply == Spec => []BatchApplicable
<1>1. ReceiptInv => BatchApplicable
  <2> SUFFICES ASSUME ReceiptInv, phase = "construct"
               PROVE  /\ pending[Leader] = NoCandidate
                      /\ Applicable(committed[Leader], collected, Txs)
    BY DEF BatchApplicable
  <2> DEFINE log == committed[Leader]
  <2>0. SigningInv /\ CollectedSound /\ CollectorSound /\ TypeOK
    BY DEF ReceiptInv, SigningInv, ReplicationInv
  <2>1. /\ pending[Leader] = NoCandidate /\ Cardinality(collected) = N - F
        /\ \A o1, o2 \in collected : o1.replica = o2.replica => o1 = o2
    BY <2>0 DEF CollectorSound
  <2>2. ASSUME NEW order \in collected
        PROVE  /\ order.seq = Len(log) + 1
               /\ order.prev = LogHead(log, order.replica)
               /\ Len(order.txs) <= LoMax
               /\ \A i, j \in DOMAIN order.txs : order.txs[i] = order.txs[j] => i = j
               /\ Ids(order.txs) \cap LoggedIds(log, order.replica) = {}
               /\ Ids(order.txs) \subseteq Txs
    <3> DEFINE r == order.replica
    <3>1. order.seq = Len(log) + 1 /\ order \in SignedOrders /\ order \in LocalOrder
      BY <2>0, SignedCases DEF CollectedSound, TypeOK
    <3>2. r \in Replicas /\ order # NoOrder /\ committed[r] = log /\ localOrderPending[r] = order
      BY <2>0, <3>1, CurrentOrder
    <3>3. ReplicaSound(r)
      BY <3>2 DEF ReceiptInv
    <3> HIDE DEF r, log
    <3>4. /\ order.prev = LogHead(log, r) /\ Len(order.txs) <= LoMax
          /\ Distinct(order.txs) /\ Ids(order.txs) \subseteq Ids(receiptQueue[r])
      BY <3>2, <3>3 DEF ReplicaSound, ChunkSound
    <3>5. Ids(receiptQueue[r]) \cap LoggedIds(log, r) = {}
      BY <3>2, <3>3 DEF ReplicaSound, ReceiptSound, QueueOf
    <3>6. Ids(order.txs) \subseteq Txs
      <4>1. order.txs \in Seq(Txs)
        BY <3>1 DEF LocalOrder
      <4> QED  BY <4>1 DEF Ids
    <3>7. Ids(order.txs) \cap LoggedIds(log, r) = {}
      BY <3>4, <3>5
    <3> QED  BY <3>1, <3>4, <3>6, <3>7 DEF Distinct, r, log
  <2> QED  BY <2>1, <2>2 DEF Applicable
<1> QED  BY <1>1, ReceiptCorrect, PTL

(* The committed log of an honest replica keeps the order in which it        *)
(* received the transactions, without a gap (GenerateAndSendLocalOrder and   *)
(* the receipt queue that CommitPending leaves).                             *)
THEOREM ReceiptOrderKept == Spec => []LogFollowsReceipt
<1>1. ReceiptInv => LogFollowsReceipt
  <2> SUFFICES ASSUME ReceiptInv, NEW r \in Replicas \ Malicious
               PROVE  Follows(OrdersOf(committed[Leader], r), received[r])
    BY Zenon DEF LogFollowsReceipt, Follows
  <2> DEFINE log == committed[Leader]
             mine == committed[r]
             order == localOrderPending[r]
             n == Len(mine) + 1
             new == <<n, order.txs>>
             old == OrdersOf(mine, r)
  <2>0. SigningInv /\ LogBatches /\ TypeOK /\ Agreement /\ ReplicaSound(r) /\ r \in Replicas
    BY DEF ReceiptInv, SigningInv, ReplicationInv
  <2>1. /\ log \in Histories /\ log \in Seq(Fragment) /\ mine \in Seq(Fragment)
        /\ Prefix(mine, log) /\ mine \in History
    BY <2>0, HistoryCases, LeaderType DEF TypeOK, Agreement, History
  <2>2. old \subseteq OrdersOf(log, r)
    <3> SUFFICES ASSUME NEW e \in old PROVE e \in OrdersOf(log, r)
      OBVIOUS
    <3>1. PICK k \in DOMAIN mine : \E o \in mine[k] : o.replica = r /\ e = <<k, o.txs>>
      BY OrderCases
    <3>2. k \in DOMAIN log /\ log[k] = mine[k]
      BY <2>1 DEF Prefix
    <3> QED  BY <3>1, <3>2, OrderCases
  <2>3. ASSUME NEW e \in OrdersOf(log, r)
        PROVE  e \in old \/ (e = new /\ order # NoOrder)
    <3>0. PICK k \in DOMAIN log : \E x \in log[k] : x.replica = r /\ e = <<k, x.txs>>
      BY OrderCases
    <3>1. PICK o \in log[k] : o.replica = r /\ e = <<k, o.txs>>
      BY <3>0
    <3>2. /\ k \in Nat /\ k <= n
          /\ k = n => order = o /\ o # NoOrder
      BY <2>0, <2>1, <3>1, OwnOrder
    <3>3. CASE k = n
      BY <3>1, <3>2, <3>3
    <3>4. CASE k # n
      <4>1. k \in DOMAIN mine /\ mine[k] = log[k]
        BY <2>1, <3>2, <3>4 DEF Prefix
      <4>2. e \in OrdersOf(mine, r)
        BY <3>1, <4>1, OrderCases
      <4> QED  BY <4>2
    <3> QED  BY <3>3, <3>4
  <2>4. Follows(old, received[r])
    BY <2>0 DEF ReplicaSound, LogSound
  <2>5. CASE new \in OrdersOf(log, r) /\ order # NoOrder
    <3>1. OrdersOf(log, r) = old \cup {new}
      <4> HIDE DEF old, new
      <4> QED  BY <2>2, <2>3, <2>5
    <3>2. /\ Prefix(order.txs, receiptQueue[r]) /\ order.txs \in Seq(Txs)
          /\ received[r] \in Seq(Txs) /\ receiptQueue[r] \in Seq(Txs)
          /\ QueueOf(received[r], receiptQueue[r], LoggedIds(mine, r))
      BY <2>0, <2>5 DEF ReplicaSound, ChunkSound, ReceiptSound, TypeOK, LocalOrder
    <3>3. Follows(old \cup {new}, received[r])
      <4> HIDE DEF order, mine
      <4> QED  BY <2>1, <2>4, <3>2, FollowsNext
    <3> QED  BY <3>1, <3>3
  <2>6. CASE ~(new \in OrdersOf(log, r) /\ order # NoOrder)
    <3>1. OrdersOf(log, r) = old
      <4> HIDE DEF old, new
      <4> QED  BY <2>2, <2>3, <2>6
    <3> QED  BY <2>4, <3>1
  <2> QED  BY <2>5, <2>6
<1> QED  BY <1>1, ReceiptCorrect, PTL
=============================================================================
