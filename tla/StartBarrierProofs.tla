--------------------------- MODULE StartBarrierProofs ---------------------------
(***************************************************************************)
(* Proofs about StartBarrier, for every number of replicas, every leader    *)
(* and every assignment of replicas to processes: types, the two safety     *)
(* properties, and the refinement of the one-shot barrier.                  *)
(***************************************************************************)
EXTENDS StartBarrier, TLAPS

Has(q, message) == \E i \in DOMAIN q : q[i] = message

Ordered(q, opened) ==
    \A i \in DOMAIN q : q[i] = "tx" => opened \/ \E j \in 1 .. i-1 : q[j] = "start"

Queues == Seq({"start", "tx"})

-----------------------------------------------------------------------------
(* The conjuncts of the inductive invariant. *)

\* A Ready comes from a replica that has registered its handler.
ReadyRegistered ==
    \A r \in Replicas : ready[r] > 0 \/ r \in readySenders => r \in registered

\* The leader starts when everybody is ready, and every Start is its work.
StartMeansReady == started => registered = Replicas
StartComesFromLeader ==
    /\ fanout # {} => started
    /\ open # {} => started
    /\ \A f \in Followers : Has(down[f], "start") => started

\* The experiment runs in a process whose replicas have passed the barrier.
PassedOpen == passed \subseteq open
RunningPassed == \A p \in running : Local(p) \subseteq passed
SubmitterRuns == outbox # {} => Process[Leader] \in running

\* The leader opens its own barrier after the fan-out, and submits after that.
LeaderLast == Leader \in open => fanout = {}
TransactionsLater == \A f \in Followers : Has(down[f], "tx") => Leader \in open

\* A Start that was sent and not missed is in the queue or has been read.
StartArrives ==
    \A f \in Followers \ missed : started /\ f \notin fanout => f \in open \/ Has(down[f], "start")
StartFirst == \A f \in Followers \ missed : Ordered(down[f], f \in open)

IInv ==
    /\ TypeOK
    /\ ReadyRegistered /\ StartMeansReady /\ StartComesFromLeader
    /\ PassedOpen /\ RunningPassed /\ SubmitterRuns
    /\ LeaderLast /\ TransactionsLater
    /\ StartArrives /\ StartFirst

-----------------------------------------------------------------------------
(* Lemmas about the queues. *)

(* What is in a queue after a message was appended. *)
LEMMA HasAppend ==
    ASSUME NEW q \in Queues, NEW m \in {"start", "tx"}, NEW x \in {"start", "tx"}
    PROVE  Has(Append(q, m), x) <=> Has(q, x) \/ x = m
  BY DEF Queues, Has

(* What is in a queue after its head was read. *)
LEMMA HasTail ==
    ASSUME NEW q \in Queues, q # <<>>, NEW x \in {"start", "tx"}
    PROVE  Has(q, x) <=> Head(q) = x \/ Has(Tail(q), x)
<1>1. Has(Tail(q), x) => Has(q, x)
  BY DEF Queues, Has
<1>2. Head(q) = x => Has(q, x)
  BY DEF Queues, Has
<1>3. ASSUME Has(q, x), Head(q) # x
      PROVE  Has(Tail(q), x)
  <2>1. PICK i \in DOMAIN q : q[i] = x
    BY <1>3 DEF Has
  <2>2. i # 1
    BY <2>1, <1>3
  <2>3. i - 1 \in DOMAIN Tail(q) /\ Tail(q)[i - 1] = x
    BY <2>1, <2>2 DEF Queues
  <2> QED
    BY <2>3 DEF Has
<1> QED
  BY <1>1, <1>2, <1>3

(* Reading the head keeps the order of the rest, a Start being remembered. *)
LEMMA OrderedTail ==
    ASSUME NEW q \in Queues, q # <<>>, NEW f, NEW S, NEW T, S \subseteq T,
           Ordered(q, f \in S), f \in T \/ Head(q) # "start"
    PROVE  Ordered(Tail(q), f \in T)
<1> SUFFICES ASSUME NEW i \in DOMAIN Tail(q), Tail(q)[i] = "tx", f \notin T
             PROVE  \E j \in 1 .. i-1 : Tail(q)[j] = "start"
  BY DEF Ordered
<1>1. i \in Nat \ {0} /\ i + 1 \in DOMAIN q /\ q[i + 1] = "tx"
  BY DEF Queues
<1>2. PICK j \in 1 .. i : q[j] = "start"
  BY <1>1 DEF Ordered
<1>3. j # 1
  BY <1>2
<1>4. j - 1 \in 1 .. i-1 /\ Tail(q)[j - 1] = "start"
  BY <1>1, <1>2, <1>3 DEF Queues
<1> QED
  BY <1>4

-----------------------------------------------------------------------------
(* The initial state satisfies the invariant. *)
LEMMA InitInv == Init => IInv
<1> SUFFICES ASSUME Init PROVE IInv
  OBVIOUS
<1>1. \A f \in Followers : ~Has(down[f], "start") /\ ~Has(down[f], "tx")
  BY DEF Init, Has
<1>2. \A f \in Followers : Ordered(down[f], f \in open)
  BY DEF Init, Ordered
<1>3. TypeOK
  <2>1. down \in [Followers -> Seq({"start", "tx"})]
    BY DEF Init
  <2> QED
    BY <2>1 DEF Init, TypeOK
<1>4. ReadyRegistered /\ StartMeansReady /\ StartComesFromLeader
  BY <1>1 DEF Init, ReadyRegistered, StartMeansReady, StartComesFromLeader
<1>5. PassedOpen /\ RunningPassed /\ SubmitterRuns /\ LeaderLast /\ TransactionsLater
  BY <1>1 DEF Init, PassedOpen, RunningPassed, SubmitterRuns, LeaderLast, TransactionsLater
<1>6. StartArrives /\ StartFirst
  BY <1>2 DEF Init, StartArrives, StartFirst
<1> QED
  BY <1>3, <1>4, <1>5, <1>6 DEF IInv

(* What a message to f does to the queues, sent or not. *)
LEMMA SendEffect ==
    ASSUME TypeOK, NEW f \in Followers, NEW m \in {"start", "tx"}, Send(f, m)
    PROVE  /\ down' \in [Followers -> Queues]
           /\ missed \subseteq missed' /\ missed' \subseteq Followers
           /\ faults' \in Nat
           /\ \A g \in Followers : g # f => down'[g] = down[g]
           /\ \/ down'[f] = Append(down[f], m)
              \/ down'[f] = down[f] /\ f \in missed'
<1>1. CASE down' = [down EXCEPT ![f] = Append(@, m)] /\ UNCHANGED <<missed, faults>>
  <2>1. down \in [Followers -> Queues] /\ Append(down[f], m) \in Queues
    BY DEF TypeOK, Queues
  <2>2. down' \in [Followers -> Queues] /\ down'[f] = Append(down[f], m)
    BY <1>1, <2>1
  <2> QED
    BY <1>1, <2>1, <2>2 DEF TypeOK
<1>2. CASE /\ faults < MaxFaults /\ faults' = faults + 1
           /\ missed' = missed \cup {f}
           /\ UNCHANGED down
  BY <1>2 DEF TypeOK, Queues
<1> QED
  BY <1>1, <1>2 DEF Send

(* A message in a queue stays, and what Send adds is the message or a miss. *)
LEMMA SendKeeps ==
    ASSUME TypeOK, NEW f \in Followers, NEW m \in {"start", "tx"}, Send(f, m)
    PROVE  /\ \A g \in Followers : \A x \in {"start", "tx"} : Has(down[g], x) => Has(down'[g], x)
           /\ \A g \in Followers : \A x \in {"start", "tx"} :
                Has(down'[g], x) => Has(down[g], x) \/ x = m
           /\ f \in missed' \/ Has(down'[f], m)
<1>1. down[f] \in Queues
  BY DEF TypeOK, Queues
<1>2. \A x \in {"start", "tx"} : Has(Append(down[f], m), x) <=> Has(down[f], x) \/ x = m
  BY <1>1, HasAppend
<1>3. \A g \in Followers : g # f => down'[g] = down[g]
  BY SendEffect
<1>4. CASE down'[f] = Append(down[f], m)
  BY <1>2, <1>3, <1>4
<1>5. CASE down'[f] = down[f] /\ f \in missed'
  <2>1. \A g \in Followers : down'[g] = down[g]
    BY <1>3, <1>5
  <2> QED
    BY <2>1, <1>5
<1> QED
  BY <1>4, <1>5, SendEffect

(* The order of a queue that is no longer excused survives a Send. *)
LEMMA SendStartOrdered ==
    ASSUME TypeOK, StartFirst, NEW f \in Followers, Send(f, "start"), UNCHANGED open
    PROVE  StartFirst'
<1> SUFFICES ASSUME NEW g \in Followers, g \notin missed'
             PROVE  Ordered(down'[g], g \in open)
  BY DEF StartFirst
<1>1. Ordered(down[g], g \in open)
  BY SendEffect DEF StartFirst
<1>2. CASE down'[g] = down[g]
  BY <1>1, <1>2
<1>3. CASE g = f /\ down'[g] = Append(down[g], "start")
  <2>1. down[g] \in Queues
    BY DEF TypeOK, Queues
  <2> QED
    BY <1>1, <1>3, <2>1 DEF Queues, Ordered
<1> QED
  BY <1>2, <1>3, SendEffect

(* The goroutine of a replica and the experiment's start keep the invariant. *)
LEMMA ReplicaStep ==
    ASSUME IInv, NEW r \in Replicas,
           \/ Register(r) \/ HandlerVisible(r) \/ SendReady(r) \/ LeaveLoop(r)
    PROVE  IInv'
<1> USE DEF IInv, TypeOK, ReadyRegistered, StartMeansReady, StartComesFromLeader, PassedOpen,
            RunningPassed, SubmitterRuns, LeaderLast, TransactionsLater, StartArrives, StartFirst,
            Has, Ordered, barrierVars, networkVars, submitVars
<1>1. CASE Register(r)
  BY <1>1 DEF Register
<1>2. CASE HandlerVisible(r)
  BY <1>2 DEF HandlerVisible
<1>3. CASE SendReady(r)
  BY <1>3 DEF SendReady
<1>4. CASE LeaveLoop(r)
  BY <1>4 DEF LeaveLoop
<1> QED
  BY <1>1, <1>2, <1>3, <1>4

(* So does the beginning of the experiment in a process. *)
LEMMA ProcessStep ==
    ASSUME IInv, NEW p \in Processes, BeginExperiment(p)
    PROVE  IInv'
  BY DEF IInv, TypeOK, ReadyRegistered, StartMeansReady, StartComesFromLeader, PassedOpen,
         RunningPassed, SubmitterRuns, LeaderLast, TransactionsLater, StartArrives, StartFirst,
         Has, Ordered, barrierVars, networkVars, submitVars, BeginExperiment, AllStarted

-----------------------------------------------------------------------------
(* The leader's worker. *)
(* A Ready that is counted, or dropped before the handler is visible. *)
LEMMA CountStep ==
    ASSUME IInv, NEW r \in Replicas, CountReady(r)
    PROVE  IInv'
<1>1. /\ ~started /\ fanout = {} /\ Leader \notin open
      /\ r \in registered
      /\ ready' = [ready EXCEPT ![r] = @ - 1]
      /\ UNCHANGED <<registered, visible, down, missed, faults, open, passed, running, submitVars>>
  BY DEF CountReady, ReadReady, IInv, ReadyRegistered
<1>2. CASE Leader \notin visible
  <2>1. UNCHANGED barrierVars
    BY <1>2 DEF CountReady
  <2>2. ready' \in [Replicas -> Nat] /\ \A s \in Replicas : ready'[s] > 0 => ready[s] > 0
    BY <1>1 DEF CountReady, ReadReady, IInv, TypeOK
  <2>3. TypeOK' /\ ReadyRegistered'
    BY <1>1, <2>1, <2>2 DEF IInv, TypeOK, ReadyRegistered, barrierVars, submitVars
  <2> QED
    BY <1>1, <2>1, <2>3
    DEF IInv, StartMeansReady, StartComesFromLeader, PassedOpen, RunningPassed, SubmitterRuns,
        LeaderLast, TransactionsLater, StartArrives, StartFirst, Has, Ordered, barrierVars,
        submitVars
<1>3. CASE Leader \in visible
  <2>1. /\ readySenders' = readySenders \cup {r}
        /\ started' = (readySenders' = Replicas)
        /\ fanout' = IF started' THEN Followers ELSE {}
    BY <1>3 DEF CountReady, AllReady, Targets
  <2>2. TypeOK'
    <3>1. ready' \in [Replicas -> Nat]
      BY <1>1 DEF CountReady, ReadReady, IInv, TypeOK
    <3>2. readySenders' \subseteq Replicas /\ started' \in BOOLEAN /\ fanout' \subseteq Followers
      BY <2>1 DEF IInv, TypeOK
    <3> QED
      BY <1>1, <3>1, <3>2 DEF IInv, TypeOK, submitVars
  <2>2a. ReadyRegistered' /\ StartMeansReady'
    BY <1>1, <2>1 DEF IInv, TypeOK, ReadyRegistered, StartMeansReady
  <2>3. StartComesFromLeader' /\ TransactionsLater' /\ LeaderLast'
    BY <1>1, <2>1 DEF IInv, StartComesFromLeader, TransactionsLater, LeaderLast, Has
  <2>4. PassedOpen' /\ RunningPassed' /\ SubmitterRuns'
    BY <1>1 DEF IInv, PassedOpen, RunningPassed, SubmitterRuns, submitVars
  <2>5. StartArrives' /\ StartFirst'
    BY <1>1, <2>1 DEF IInv, StartArrives, StartFirst, Ordered
  <2> QED
    BY <2>2, <2>2a, <2>3, <2>4, <2>5 DEF IInv
<1> QED
  BY <1>2, <1>3

(* One Start of the fan-out. *)
LEMMA SendStartStep ==
    ASSUME IInv, NEW f \in Followers, SendStart(f)
    PROVE  IInv'
<1>1. /\ started /\ f \in fanout /\ Send(f, "start") /\ fanout' = fanout \ {f}
      /\ UNCHANGED <<registered, visible, ready, readySenders, started, open, passed, running,
                     submitVars>>
  BY DEF SendStart, IsNext
<1>2. TypeOK /\ TypeOK'
  BY <1>1, SendEffect DEF IInv, TypeOK, submitVars, Queues
<1>8. ReadyRegistered' /\ StartMeansReady' /\ StartComesFromLeader'
  BY <1>1 DEF IInv, ReadyRegistered, StartMeansReady, StartComesFromLeader
<1>9. PassedOpen' /\ RunningPassed' /\ SubmitterRuns' /\ LeaderLast'
  BY <1>1 DEF IInv, PassedOpen, RunningPassed, SubmitterRuns, LeaderLast, submitVars
<1>10. TransactionsLater'
  BY <1>1, <1>2, SendKeeps DEF IInv, TransactionsLater
<1>11. StartArrives'
  BY <1>1, <1>2, SendKeeps, SendEffect DEF IInv, StartArrives
<1>12. StartFirst'
  BY <1>1, <1>2, SendStartOrdered DEF IInv
<1> QED
  BY <1>2, <1>8, <1>9, <1>10, <1>11, <1>12 DEF IInv

(* The answer to a late Ready. *)
LEMMA AnswerStep ==
    ASSUME IInv, NEW r \in Replicas, AnswerReady(r)
    PROVE  IInv'
<1>1. /\ started
      /\ ready[r] > 0 /\ ready' = [ready EXCEPT ![r] = @ - 1]
      /\ UNCHANGED <<registered, visible, barrierVars, open, passed, running, submitVars>>
  BY DEF AnswerReady, ReadReady
<1>2. CASE r = Leader
  BY <1>1, <1>2
  DEF AnswerReady, Answer, IInv, TypeOK, ReadyRegistered, StartMeansReady, StartComesFromLeader,
      PassedOpen, RunningPassed, SubmitterRuns, LeaderLast, TransactionsLater, StartArrives,
      StartFirst, Has, Ordered, barrierVars, submitVars
<1>3. CASE r # Leader
  <2>1. r \in Followers /\ Send(r, "start")
    BY <1>3 DEF AnswerReady, Answer, Followers
  <2>2. TypeOK /\ TypeOK'
    BY <1>1, <2>1, SendEffect DEF IInv, TypeOK, submitVars, barrierVars, Queues
  <2>7. ReadyRegistered' /\ StartMeansReady' /\ StartComesFromLeader'
    BY <1>1, <2>2
    DEF IInv, TypeOK, ReadyRegistered, StartMeansReady, StartComesFromLeader, barrierVars
  <2>8. PassedOpen' /\ RunningPassed' /\ SubmitterRuns' /\ LeaderLast'
    BY <1>1
    DEF IInv, PassedOpen, RunningPassed, SubmitterRuns, LeaderLast, submitVars, barrierVars
  <2>9. TransactionsLater'
    BY <1>1, <2>1, <2>2, SendKeeps DEF IInv, TransactionsLater
  <2>10. StartArrives'
    BY <1>1, <2>1, <2>2, SendKeeps, SendEffect DEF IInv, StartArrives, barrierVars
  <2>11. StartFirst'
    BY <1>1, <2>1, <2>2, SendStartOrdered DEF IInv
  <2> QED
    BY <2>2, <2>7, <2>8, <2>9, <2>10, <2>11 DEF IInv
<1> QED
  BY <1>2, <1>3

(* The leader opens its own barrier. *)
LEMMA StartLeaderStep ==
    ASSUME IInv, StartLeader
    PROVE  IInv'
  BY BarrierAssumption
  DEF StartLeader, FanoutDone, IInv, TypeOK, ReadyRegistered, StartMeansReady,
      StartComesFromLeader, PassedOpen, RunningPassed, SubmitterRuns, LeaderLast,
      TransactionsLater, StartArrives, StartFirst, Has, Ordered, barrierVars, networkVars,
      submitVars

-----------------------------------------------------------------------------
(* A follower's worker, the submitter and the network. *)
LEMMA HandleDownStep ==
    ASSUME IInv, NEW f \in Followers, HandleDown(f)
    PROVE  IInv'
<1>1. /\ down[f] \in Queues /\ down[f] # <<>>
      /\ down' = [down EXCEPT ![f] = Tail(@)]
      /\ UNCHANGED <<registered, visible, barrierVars, ready, faults, passed, running, submitVars>>
  BY DEF HandleDown, IInv, TypeOK, Queues
<1>2. /\ open \subseteq open' /\ open' \subseteq open \cup {f}
      /\ missed \subseteq missed' /\ missed' \subseteq Followers
      /\ f \in open' \/ f \in missed' \/ Head(down[f]) # "start"
      /\ open' # open => Head(down[f]) = "start"
  BY DEF HandleDown, IInv, TypeOK
<1>3. Tail(down[f]) \in Queues
  BY <1>1 DEF Queues
<1>4. \A x \in {"start", "tx"} : Has(down[f], x) <=> Head(down[f]) = x \/ Has(Tail(down[f]), x)
  BY <1>1, HasTail
<1>5. \A g \in Followers : down'[g] = IF g = f THEN Tail(down[f]) ELSE down[g]
  BY <1>1 DEF IInv, TypeOK
<1>6. \A g \in Followers : \A x \in {"start", "tx"} : Has(down'[g], x) => Has(down[g], x)
  BY <1>4, <1>5
<1>7. TypeOK'
  <2>1. down' \in [Followers -> Seq({"start", "tx"})]
    BY <1>1, <1>3 DEF IInv, TypeOK, Queues
  <2>2. open' \subseteq Replicas
    BY <1>2 DEF IInv, TypeOK, Followers
  <2> QED
    BY <1>1, <1>2, <2>1, <2>2 DEF IInv, TypeOK, barrierVars, submitVars
<1>8. ReadyRegistered' /\ StartMeansReady'
  BY <1>1 DEF IInv, ReadyRegistered, StartMeansReady, barrierVars
<1>9. StartComesFromLeader'
  <2>1. open' # {} => started
    BY <1>2, <1>4 DEF IInv, StartComesFromLeader
  <2> QED
    BY <1>1, <1>6, <2>1 DEF IInv, StartComesFromLeader, barrierVars
<1>10. PassedOpen' /\ RunningPassed' /\ SubmitterRuns'
  BY <1>1, <1>2 DEF IInv, PassedOpen, RunningPassed, SubmitterRuns, submitVars
<1>11. Leader \in open' <=> Leader \in open
  BY <1>2 DEF Followers
<1>12. LeaderLast' /\ TransactionsLater'
  BY <1>1, <1>6, <1>11 DEF IInv, LeaderLast, TransactionsLater, barrierVars
<1>13. StartArrives'
  BY <1>1, <1>2, <1>4, <1>5 DEF IInv, StartArrives, barrierVars
<1>14. StartFirst'
  <2> SUFFICES ASSUME NEW g \in Followers, g \notin missed'
               PROVE  Ordered(down'[g], g \in open')
    BY DEF StartFirst
  <2>1. Ordered(down[g], g \in open)
    BY <1>2 DEF IInv, StartFirst
  <2>2. CASE g # f
    BY <1>2, <1>5, <2>1, <2>2 DEF Ordered
  <2>3. CASE g = f
    BY <1>1, <1>2, <1>5, <2>1, <2>3, OrderedTail
  <2> QED
    BY <2>2, <2>3
<1> QED
  BY <1>7, <1>8, <1>9, <1>10, <1>12, <1>13, <1>14 DEF IInv

(* A transaction is drawn. *)
LEMMA SubmitStep ==
    ASSUME IInv, SubmitTransaction
    PROVE  IInv'
  BY DEF SubmitTransaction, IInv, TypeOK, ReadyRegistered, StartMeansReady,
         StartComesFromLeader, PassedOpen, RunningPassed, SubmitterRuns, LeaderLast,
         TransactionsLater, StartArrives, StartFirst, Has, Ordered, barrierVars, networkVars,
         submitVars

(* A transaction is sent to a follower, behind its Start. *)
LEMMA SendTransactionStep ==
    ASSUME IInv, NEW f \in Followers, SendTransaction(f)
    PROVE  IInv'
<1>1. /\ f \in outbox /\ Send(f, "tx") /\ outbox' = outbox \ {f}
      /\ UNCHANGED <<registered, visible, barrierVars, ready, open, passed, running, submitted>>
  BY DEF SendTransaction, IsNext
<1>2. TypeOK /\ TypeOK'
  BY <1>1, SendEffect DEF IInv, TypeOK, barrierVars, Queues
<1>3. Leader \in open /\ fanout = {} /\ started
  <2>1. Leader \in Local(Process[Leader])
    BY BarrierAssumption DEF Local
  <2> QED
    BY <1>1, <2>1 DEF IInv, SubmitterRuns, RunningPassed, PassedOpen, LeaderLast,
                      StartComesFromLeader
<1>4. ReadyRegistered' /\ StartMeansReady'
  BY <1>1 DEF IInv, ReadyRegistered, StartMeansReady, barrierVars
<1>5. StartComesFromLeader' /\ TransactionsLater'
  BY <1>1, <1>3 DEF IInv, StartComesFromLeader, TransactionsLater, barrierVars
<1>6. PassedOpen' /\ RunningPassed' /\ SubmitterRuns' /\ LeaderLast'
  BY <1>1 DEF IInv, PassedOpen, RunningPassed, SubmitterRuns, LeaderLast, barrierVars
<1>7. StartArrives'
  BY <1>1, <1>2, SendKeeps, SendEffect DEF IInv, StartArrives, barrierVars
<1>8. StartFirst'
  <2> SUFFICES ASSUME NEW g \in Followers, g \notin missed'
               PROVE  Ordered(down'[g], g \in open)
    BY <1>1 DEF StartFirst
  <2>1. Ordered(down[g], g \in open) /\ (g \in open \/ Has(down[g], "start"))
    BY <1>1, <1>2, <1>3, SendEffect DEF IInv, StartFirst, StartArrives
  <2>2. CASE down'[g] = down[g]
    BY <2>1, <2>2
  <2>3. CASE g = f /\ down'[g] = Append(down[g], "tx")
    <3>1. down[g] \in Queues
      BY <1>2 DEF TypeOK, Queues
    <3> QED
      BY <2>1, <2>3, <3>1 DEF Queues, Ordered, Has
  <2> QED
    BY <1>1, <1>2, <2>2, <2>3, SendEffect
<1> QED
  BY <1>2, <1>4, <1>5, <1>6, <1>7, <1>8 DEF IInv

(* A connection breaks. *)
LEMMA BreakStep ==
    ASSUME IInv, NEW f \in Followers, BreakConnection(f)
    PROVE  IInv'
<1>1. /\ faults' = faults + 1 /\ missed' = missed \cup {f}
      /\ UNCHANGED <<registered, visible, barrierVars, open, passed, running, submitVars>>
  BY DEF BreakConnection
<1>2. PICK kept \in 0 .. Len(down[f]) : down' = [down EXCEPT ![f] = SubSeq(@, 1, kept)]
  BY DEF BreakConnection
<1>3. PICK k \in 0 .. ready[f] : ready' = [ready EXCEPT ![f] = k]
  BY DEF BreakConnection
<1>4. f \in Replicas /\ ready[f] \in Nat /\ down[f] \in Queues
  BY DEF Followers, IInv, TypeOK, Queues
<1>5. /\ SubSeq(down[f], 1, kept) \in Queues
      /\ \A x \in {"start", "tx"} : Has(SubSeq(down[f], 1, kept), x) => Has(down[f], x)
  BY <1>2, <1>4 DEF Queues, Has
<1>6. \A g \in Followers : down'[g] = IF g = f THEN SubSeq(down[f], 1, kept) ELSE down[g]
  BY <1>2 DEF IInv, TypeOK
<1>7. \A g \in Followers : \A x \in {"start", "tx"} : Has(down'[g], x) => Has(down[g], x)
  BY <1>5, <1>6
<1>8. ready' \in [Replicas -> Nat] /\ \A s \in Replicas : ready'[s] > 0 => ready[s] > 0
  BY <1>3, <1>4 DEF IInv, TypeOK
<1>9. TypeOK'
  <2>1. down' \in [Followers -> Seq({"start", "tx"})]
    BY <1>2, <1>5 DEF IInv, TypeOK, Queues
  <2> QED
    BY <1>1, <1>8, <2>1 DEF IInv, TypeOK, barrierVars, submitVars
<1>10. ReadyRegistered' /\ StartMeansReady'
  BY <1>1, <1>8 DEF IInv, ReadyRegistered, StartMeansReady, barrierVars
<1>11. StartComesFromLeader' /\ TransactionsLater'
  BY <1>1, <1>7 DEF IInv, StartComesFromLeader, TransactionsLater, barrierVars
<1>12. PassedOpen' /\ RunningPassed' /\ SubmitterRuns' /\ LeaderLast'
  BY <1>1 DEF IInv, PassedOpen, RunningPassed, SubmitterRuns, LeaderLast, barrierVars, submitVars
<1>13. StartArrives' /\ StartFirst'
  BY <1>1, <1>6 DEF IInv, StartArrives, StartFirst, barrierVars
<1> QED
  BY <1>9, <1>10, <1>11, <1>12, <1>13 DEF IInv

(* Every step keeps the invariant. *)
LEMMA NextInv == IInv /\ [Next]_vars => IInv'
<1> SUFFICES ASSUME IInv, [Next]_vars PROVE IInv'
  OBVIOUS
<1>1. CASE UNCHANGED vars
  BY <1>1 DEF IInv, TypeOK, ReadyRegistered, StartMeansReady, StartComesFromLeader, PassedOpen,
              RunningPassed, SubmitterRuns, LeaderLast, TransactionsLater, StartArrives,
              StartFirst, Has, Ordered, vars, barrierVars, networkVars, submitVars
<1>2. ASSUME NEW r \in Replicas,
             \/ Register(r) \/ HandlerVisible(r) \/ SendReady(r) \/ LeaveLoop(r)
             \/ CountReady(r) \/ AnswerReady(r)
      PROVE  IInv'
  BY <1>2, ReplicaStep, CountStep, AnswerStep
<1>3. ASSUME NEW f \in Followers, SendStart(f) \/ HandleDown(f) \/ BreakConnection(f)
      PROVE  IInv'
  BY <1>3, SendStartStep, HandleDownStep, BreakStep
<1>4. CASE SubmitterStep
  BY <1>4, SubmitStep, SendTransactionStep DEF SubmitterStep
<1> QED
  BY <1>1, <1>2, <1>3, <1>4, ProcessStep, StartLeaderStep DEF Next, LeaderWorkerStep

-----------------------------------------------------------------------------
(* The theorems. *)

(* The inductive invariant holds in every reachable state. *)
THEOREM Invariance == Spec => []IInv
<1> QED
  BY InitInv, NextInv, PTL DEF Spec

(* The types hold in every reachable state. *)
THEOREM TypeCorrect == Spec => []TypeOK
<1>1. IInv => TypeOK
  BY DEF IInv
<1> QED
  BY Invariance, <1>1, PTL

(* The comment of the leader's fan-out (auth_adapter.go:298): a follower that *)
(* has not missed a Start never gets a transaction before it.                 *)
THEOREM StartsFirst == Spec => []StartBeforeTransactions
<1>1. IInv => StartBeforeTransactions
  BY DEF IInv, StartFirst, Ordered, StartBeforeTransactions
<1> QED
  BY Invariance, <1>1, PTL

(* A running process has passed, so that the leader has seen everybody. *)
LEMMA RunningMeansRegistered == IInv => HandlersBeforeExperiment
<1> SUFFICES ASSUME IInv, NEW p \in running PROVE registered = Replicas
  BY DEF HandlersBeforeExperiment
<1>1. PICK r \in Replicas : r \in Local(p)
  BY DEF IInv, TypeOK, Processes, Local
<1>2. r \in open
  BY <1>1 DEF IInv, RunningPassed, PassedOpen
<1> QED
  BY <1>2 DEF IInv, StartComesFromLeader, StartMeansReady

(* No process starts the experiment's clock before every replica of every     *)
(* process has registered its handler (main.go:145).                          *)
THEOREM HandlersFirst == Spec => []HandlersBeforeExperiment
<1> QED
  BY Invariance, RunningMeansRegistered, PTL

(* Initial states and steps map to those of the one-shot barrier. *)
LEMMA BarrierInit == Init => Barrier!Init
  BY DEF Init, Barrier!Init

(* Registering is arriving, leaving the ready loop is passing. *)
LEMMA BarrierStep == IInv /\ [Next]_vars => [Barrier!Next]_(Barrier!vars)
<1> SUFFICES ASSUME IInv, [Next]_vars, ~(UNCHANGED <<registered, passed>>)
             PROVE  Barrier!Next
  BY DEF Barrier!vars
<1>1. PICK r \in Replicas : Register(r) \/ LeaveLoop(r)
  BY DEF Next, HandlerVisible, SendReady, CountReady, AnswerReady, BeginExperiment, HandleDown,
         BreakConnection, LeaderWorkerStep, StartLeader, SendStart, SubmitterStep,
         SubmitTransaction, SendTransaction, vars
<1>2. CASE Register(r)
  BY <1>2 DEF Register, Barrier!Next, Barrier!Arrive
<1>3. CASE LeaveLoop(r)
  <2>1. registered = Replicas
    BY <1>3 DEF LeaveLoop, IInv, StartComesFromLeader, StartMeansReady
  <2> QED
    BY <1>3, <2>1 DEF LeaveLoop, Barrier!Next, Barrier!Pass
<1> QED
  BY <1>1, <1>2, <1>3

(* The ready loop, Ready messages repeated and Starts lost, implements a      *)
(* barrier that is passed once.                                               *)
THEOREM BarrierRefinement == Spec => ImplementsBarrier
<1> QED
  BY Invariance, BarrierInit, BarrierStep, PTL DEF Spec, ImplementsBarrier, Barrier!Spec
=============================================================================
