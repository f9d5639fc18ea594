--------------------------- MODULE MeasurementProofs ---------------------------
(***************************************************************************)
(* Proofs about Measurement, for every rate, deadline, width of machine     *)
(* integers and number of losses: the load keeps to its target and to its   *)
(* window, every measured commit is sampled, and the report is final.       *)
(***************************************************************************)
EXTENDS Measurement, FiniteSetTheorems, TLAPS

-----------------------------------------------------------------------------
(* The conjuncts of the inductive invariant. *)

Target(elapsed) == (Rate * elapsed) \div Second

\* The submitter creates what the target it has read asks for, and no more.
Paced ==
    /\ phase \in {"wait", "batch", "create"} => expected = Target(readAt)
    /\ phase = "wait" => Len(stamp) = expected
    /\ phase = "create" =>
        /\ Len(stamp) < expected
        /\ readAt <= submittedAt /\ submittedAt < Deadline
    /\ outbox # {} => stamp # <<>>

\* Whatever the proposer may commit has had its submission recorded.
Busy == proposer \in {"waiting", "checked", "committing"}
Recorded == timed \cup output
StoredRecorded == \A tx \in stored : tx \in Recorded \/ tx = storing
VerifiedRecorded == \A txs \in verified : txs \subseteq Recorded
OutputOnce == Busy => candidate \cap output = {}
CheckedVerified == proposer \in {"checked", "committing"} => candidate \in verified

\* What is counted was output, once.
CountsOutput == finalized <= Cardinality(output)

\* After the monitor has read the statistics of a whole run nothing moves.
StatsFinal ==
    stats # NoStats =>
        /\ phase = "done"
        /\ ~cancelled =>
            /\ clock >= Deadline
            /\ stats.finalized = finalized /\ stats.samples = samples
            /\ proposer = "committing" => finalizeTime >= Deadline
ReportOfStats ==
    /\ report # NoReport => stats # NoStats
    /\ report.kind = "results" =>
        /\ report.submitted = Len(stamp)
        /\ report.finalized = stats.finalized /\ report.samples = stats.samples

IInv ==
    /\ TypeOK /\ KeepsToTarget /\ WithinWindow /\ EverySampled
    /\ Paced
    /\ StoredRecorded /\ VerifiedRecorded /\ OutputOnce /\ CheckedVerified /\ CountsOutput
    /\ StatsFinal /\ ReportOfStats

-----------------------------------------------------------------------------
(* Machine arithmetic. *)

(* Division with remainder. *)
LEMMA DivMod ==
    ASSUME NEW a \in Nat, NEW b \in Nat \ {0}
    PROVE  a \div b \in Nat /\ a % b \in 0 .. b-1 /\ a = b * (a \div b) + (a % b)
  BY Z3

(* The quotient is the only number with this property. *)
LEMMA DivUnique ==
    ASSUME NEW a \in Nat, NEW b \in Nat \ {0}, NEW q \in Nat, NEW r \in 0 .. b-1, a = b * q + r
    PROVE  a \div b = q
  BY Z3

(* What fits the machine integer is not wrapped. *)
LEMMA WrapExact ==
    ASSUME NEW x \in 0 .. MaxInt
    PROVE  Wrap(x) = x
<1>1. MaxInt \in Nat
  BY MeasurementAssumption
<1> QED
  BY <1>1 DEF Wrap

(* A product grows with its factors. *)
LEMMA ProductMonotone ==
    ASSUME NEW a \in Nat, NEW b \in Nat, NEW c \in Nat, a <= b
    PROVE  c * a \in Nat /\ c * a <= c * b
  BY Z3

(* The target computed from whole seconds and the rest of a second is the    *)
(* target, although Rate * elapsed need not fit the machine integer.         *)
LEMMA TargetExact ==
    ASSUME NEW elapsed \in 0 .. Horizon
    PROVE  TransactionTarget(elapsed) = Target(elapsed) /\ Target(elapsed) \in 0 .. MaxInt
<1> DEFINE q == elapsed \div Second
           r == elapsed % Second
           h == Horizon \div Second
           whole == Rate * q
           part == Rate * r
           d == part \div Second
           e == part % Second
<1>1. /\ Rate \in Nat /\ Second \in Nat \ {0} /\ MaxInt \in Nat /\ Horizon \in Nat
      /\ Rate * (Second - 1) <= MaxInt /\ h * Rate + Rate <= MaxInt
      /\ elapsed \in Nat /\ elapsed <= Horizon
  BY MeasurementAssumption, MeasurementBounds
<1>2. q \in Nat /\ r \in 0 .. Second-1 /\ elapsed = Second * q + r
  BY <1>1, DivMod
<1>3. h \in Nat /\ Horizon % Second \in 0 .. Second-1
      /\ Horizon = Second * h + (Horizon % Second)
  BY <1>1, DivMod
<1>4. q <= h
  <2> DEFINE k == Horizon % Second
  <2> HIDE DEF q, r, h, k
  <2>1. CASE q >= h + 1
    <3>1. Second * (h + 1) <= Second * q
      BY <1>1, <1>2, <1>3, <2>1, ProductMonotone
    <3>2. Second * (h + 1) = Second * h + Second
      BY <1>1, <1>3, Z3
    <3>3. Second * h \in Nat /\ Second * q \in Nat
      BY <1>1, <1>2, <1>3, ProductMonotone
    <3> QED
      BY <1>1, <1>2, <1>3, <3>1, <3>2, <3>3 DEF k
  <2> QED
    BY <1>2, <1>3, <2>1
<1>5. whole \in Nat /\ whole <= Rate * h
  <2> HIDE DEF q, h
  <2> QED
    BY <1>1, <1>2, <1>3, <1>4, ProductMonotone
<1>6. part \in Nat /\ part <= MaxInt
  <2> HIDE DEF r
  <2>1. r \in Nat /\ Second - 1 \in Nat /\ r <= Second - 1
    BY <1>1, <1>2
  <2> QED
    BY <1>1, <2>1, ProductMonotone
<1>7. d \in Nat /\ e \in 0 .. Second-1 /\ part = Second * d + e
  <2> HIDE DEF part
  <2> QED
    BY <1>1, <1>6, DivMod
<1>8. d <= Rate
  <2> HIDE DEF d, e, r
  <2>1. CASE d >= Rate + 1
    <3>1. Second * (Rate + 1) <= Second * d
      BY <1>1, <1>7, <2>1, ProductMonotone
    <3>2. Second * (Rate + 1) = Rate * (Second - 1) + Rate + Second
      BY <1>1, Z3
    <3>3. Rate * r <= Rate * (Second - 1) /\ Rate * (Second - 1) \in Nat /\ Rate * r \in Nat
      BY <1>1, <1>2, ProductMonotone
    <3>4. Second * d \in Nat
      BY <1>1, <1>7, ProductMonotone
    <3> QED
      BY <1>1, <1>7, <3>1, <3>2, <3>3, <3>4
  <2> QED
    BY <1>1, <1>7, <2>1
<1>9. whole + d \in 0 .. MaxInt /\ whole \in 0 .. MaxInt /\ part \in 0 .. MaxInt
  <2>1. h * Rate = Rate * h
    <3> HIDE DEF h
    <3> QED
      BY <1>1, <1>3, Z3
  <2> HIDE DEF d, h, whole, part
  <2>2. Rate * h \in Nat
    BY <1>1, <1>3, ProductMonotone
  <2> QED
    BY <1>1, <1>5, <1>6, <1>7, <1>8, <2>1, <2>2
<1>10. TransactionTarget(elapsed) = whole + d
  <2>1. Times(q, Rate) = whole
    <3>1. q * Rate = whole
      <4> HIDE DEF q
      <4> QED
        BY <1>1, <1>2, Z3 DEF whole
    <3> HIDE DEF q, whole
    <3> QED
      BY <1>9, <3>1, WrapExact DEF Times
  <2>2. Times(r, Rate) = part
    <3>1. r * Rate = part
      <4> HIDE DEF r
      <4>1. r \in Nat
        BY <1>1, <1>2
      <4> QED
        BY <1>1, <4>1, Z3 DEF part
    <3> HIDE DEF r, part
    <3> QED
      BY <1>9, <3>1, WrapExact DEF Times
  <2>3. TransactionTarget(elapsed) = Wrap(Times(q, Rate) + Times(r, Rate) \div Second)
    BY DEF TransactionTarget
  <2>4. Wrap(whole + d) = whole + d
    <3> HIDE DEF whole, d
    <3> QED
      BY <1>9, WrapExact
  <2> QED
    BY <2>1, <2>2, <2>3, <2>4
<1>11. Target(elapsed) = whole + d
  <2> HIDE DEF q, r, d, e
  <2>1. Rate * elapsed = Second * (whole + d) + e
    <3>1. Rate * (Second * q + r) = Second * (Rate * q) + Rate * r
      <4>1. q \in Int /\ r \in Int /\ Rate \in Int /\ Second \in Int
        BY <1>1, <1>2
      <4> QED
        BY <4>1, Z3
    <3>2. Second * (whole + d) = Second * whole + Second * d
      <4> HIDE DEF whole
      <4> QED
        BY <1>1, <1>5, <1>7, Z3
    <3>3. Second * whole \in Nat /\ Second * d \in Nat
      <4> HIDE DEF whole
      <4> QED
        BY <1>1, <1>5, <1>7, ProductMonotone
    <3> QED
      BY <1>2, <1>6, <1>7, <3>1, <3>2, <3>3
  <2>2. Rate * elapsed \in Nat
    BY <1>1, ProductMonotone
  <2>3. whole + d \in Nat
    <3> HIDE DEF whole
    <3> QED
      BY <1>5, <1>7
  <2> HIDE DEF whole
  <2> QED
    BY <1>1, <1>7, <2>1, <2>2, <2>3, DivUnique DEF Target
<1> QED
  BY <1>9, <1>10, <1>11

-----------------------------------------------------------------------------
(* Types. *)

Queued(n, contents) == [tx : 1 .. n] \cup [ack : SUBSET contents]

LEMMA QueuedTypes ==
    ASSUME NEW n \in Nat, NEW contents
    PROVE  /\ \A m \in Queued(n, contents) : "tx" \in DOMAIN m => m.tx \in 1 .. n
           /\ \A m \in Queued(n, contents) : "ack" \in DOMAIN m => m.ack \subseteq contents
           /\ \A tx \in 1 .. n : [tx |-> tx] \in Queued(n, contents)
           /\ \A txs \in SUBSET contents : [ack |-> txs] \in Queued(n, contents)
  BY DEF Queued

LEMMA QueuedGrows ==
    ASSUME NEW n \in Nat, NEW m \in Nat, n <= m, NEW S, NEW T, S \subseteq T
    PROVE  Queued(n, S) \subseteq Queued(m, T)
  BY DEF Queued

(* A sequence over a set is one over a larger set. *)
LEMMA SeqGrows ==
    ASSUME NEW S, NEW T, S \subseteq T, NEW q \in Seq(S)
    PROVE  q \in Seq(T)
  OBVIOUS

(* One more loss. *)
LEMMA LossTypes ==
    ASSUME NEW l \in [failed : Nat, abandoned : Nat]
    PROVE  /\ [l EXCEPT !.failed = @ + 1] \in [failed : Nat, abandoned : Nat]
           /\ [l EXCEPT !.abandoned = @ + 1] \in [failed : Nat, abandoned : Nat]
           /\ [l EXCEPT !.abandoned = @] \in [failed : Nat, abandoned : Nat]
  OBVIOUS

Stats == [finalized : Nat, samples : Nat]
Results == [kind : {"results"}, submitted : Nat, finalized : Nat, samples : Nat]

LEMMA InitType == Init => TypeOK
<1> SUFFICES ASSUME Init PROVE TypeOK
  OBVIOUS
<1>1. 0 \in 0 .. 0 /\ 0 \in 0 .. Horizon /\ 0 \in 0 .. MaxInt /\ Len(stamp) = 0
      /\ stamp \in Seq(0 .. clock) /\ clock = 0
  BY MeasurementAssumption, MeasurementBounds DEF Init
<1>2. stats \in Stats \cup {NoStats} /\ report \in Results \cup [kind : {"invalid", "none"}]
      /\ losses \in [failed : Nat, abandoned : Nat]
  BY DEF Init, NoReport
<1>3. queue \in Seq(Queued(Len(stamp), stored))
  BY DEF Init
<1>4. /\ cancelled \in BOOLEAN /\ phase \in {"loop", "wait", "batch", "create", "done"}
      /\ outbox \subseteq Targets /\ reported \subseteq 1 .. Len(stamp)
      /\ stored \subseteq 1 .. Len(stamp) /\ storing \in stored \cup {NoTx} /\ timed \subseteq stored
  BY DEF Init
<1>5. /\ proposer \in {"idle", "waiting", "checked", "committing", "stopped"}
      /\ candidate \subseteq stored \cap reported /\ output \subseteq stored
      /\ verifying \subseteq SUBSET stored /\ verified \subseteq SUBSET stored
      /\ finalized \in Nat /\ samples \in Nat
  BY DEF Init
<1>6. clock \in 0 .. Horizon /\ readAt \in 0 .. clock /\ submittedAt \in 0 .. clock
      /\ finalizeTime \in 0 .. clock /\ expected \in 0 .. MaxInt
  BY <1>1 DEF Init
<1> QED
  BY <1>1, <1>2, <1>3, <1>4, <1>5, <1>6 DEF TypeOK, Stats, Results, Queued

(* The submitter's steps. *)
LEMMA SubmitterType ==
    ASSUME TypeOK, Paced,
           ReadTarget \/ Wake \/ CreateTransaction \/ BatchDone \/ StopSubmitting
    PROVE  TypeOK'
<1>1. CASE ReadTarget
  <2>1. TransactionTarget(clock) \in 0 .. MaxInt
    BY TargetExact DEF TypeOK
  <2>2. clock \in 0 .. clock
    BY MeasurementBounds DEF TypeOK
  <2> QED
    BY <1>1, <2>1, <2>2 DEF TypeOK, ReadTarget, clocks, leader, worker, hosting, counts, monitor
<1>2. CASE Wake \/ BatchDone \/ StopSubmitting
  BY <1>2 DEF TypeOK, Wake, BatchDone, StopSubmitting, clocks, pace, leader, worker, hosting,
              counts, monitor
<1>3. CASE CreateTransaction
  <2>1. clock \in 0 .. clock
    BY MeasurementBounds DEF TypeOK
  <2> QED
    BY <1>3, <2>1 DEF TypeOK, CreateTransaction, clocks, pace, leader, worker, hosting, counts,
                      monitor
<1> QED
  BY <1>1, <1>2, <1>3

LEMMA CountType ==
    ASSUME TypeOK, Paced, CountTransaction
    PROVE  TypeOK'
<1>1. /\ stamp \in Seq(0 .. clock) /\ submittedAt \in 0 .. clock
      /\ stamp' = Append(stamp, submittedAt)
  BY DEF TypeOK, CountTransaction
<1>2. stamp' \in Seq(0 .. clock) /\ Len(stamp') = Len(stamp) + 1 /\ Len(stamp) \in Nat
  BY <1>1
<1>3. 1 .. Len(stamp) \subseteq 1 .. Len(stamp')
  BY <1>2
<1>4. queue \in Seq(Queued(Len(stamp'), stored))
  <2>1. queue \in Seq(Queued(Len(stamp), stored))
    BY DEF TypeOK, Queued
  <2>2. Queued(Len(stamp), stored) \subseteq Queued(Len(stamp'), stored)
    BY <1>2, QueuedGrows
  <2> QED
    BY <2>1, <2>2, SeqGrows
<1>5. UNCHANGED <<clocks, pace, submittedAt, leader, losses>> /\ phase' = "batch" /\ outbox' = Targets
  BY DEF CountTransaction
<1> QED
  BY <1>2, <1>3, <1>4, <1>5
     DEF TypeOK, Queued, clocks, pace, leader, worker, hosting, counts, monitor

LEMMA SendType ==
    ASSUME TypeOK, Paced, SendToLeader \/ SendToOthers
    PROVE  TypeOK'
<1>1. outbox # {} /\ stamp # <<>>
  BY DEF SendToLeader, SendToOthers, Paced
<1>2. Len(stamp) \in Nat /\ LastTx \in 1 .. Len(stamp)
  BY <1>1 DEF TypeOK, LastTx
<1>3. UNCHANGED <<clocks, phase, pace, submittedAt, stamp, stored, storing, hosting, counts, monitor>>
      /\ outbox' \subseteq outbox
  BY DEF SendToLeader, SendToOthers, worker
<1>4. losses' \in [failed : Nat, abandoned : Nat]
  <2>1. losses \in [failed : Nat, abandoned : Nat]
    BY DEF TypeOK
  <2>2. losses' = losses \/ losses' = [losses EXCEPT !.failed = @ + 1]
    BY DEF SendToLeader, SendToOthers, Lost
  <2> QED
    BY <2>1, <2>2, LossTypes
<1>5. reported' \subseteq 1 .. Len(stamp)
  BY <1>2 DEF TypeOK, SendToLeader, SendToOthers
<1>6. queue' \in Seq(Queued(Len(stamp), stored))
  <2>1. queue \in Seq(Queued(Len(stamp), stored))
    BY DEF TypeOK, Queued
  <2>2. [tx |-> LastTx] \in Queued(Len(stamp), stored)
    BY <1>2, QueuedTypes
  <2>3. queue' = queue \/ queue' = Append(queue, [tx |-> LastTx])
    BY DEF SendToLeader, SendToOthers, worker
  <2> QED
    BY <2>1, <2>2, <2>3
<1>7. candidate \subseteq stored \cap reported'
  BY DEF TypeOK, SendToLeader, SendToOthers
<1> QED
  BY <1>3, <1>4, <1>5, <1>6, <1>7
     DEF TypeOK, Queued, clocks, pace, hosting, counts, monitor

(* The clock and the interrupt. *)
LEMMA ClockType ==
    ASSUME TypeOK, Tick \/ Cancel
    PROVE  TypeOK'
<1>1. CASE Tick
  <2>1. clock' \in 0 .. Horizon /\ 0 .. clock \subseteq 0 .. clock'
    BY <1>1, MeasurementBounds DEF TypeOK, Tick
  <2>2. stamp \in Seq(0 .. clock')
    BY <2>1, SeqGrows DEF TypeOK
  <2> QED
    BY <1>1, <2>1, <2>2 DEF TypeOK, Tick, submitter, pace, leader, worker, hosting, counts, monitor
<1>2. CASE Cancel
  BY <1>2 DEF TypeOK, Cancel, submitter, pace, leader, worker, hosting, counts, monitor
<1> QED
  BY <1>1, <1>2

(* The leader's message worker. *)
LEMMA WorkerType ==
    ASSUME TypeOK, HandleTransaction \/ RecordTransaction \/ HandleVerified
    PROVE  TypeOK'
<1>0. Len(stamp) \in Nat /\ queue \in Seq(Queued(Len(stamp), stored))
  BY DEF TypeOK, Queued
<1>1. CASE HandleTransaction
  <2>1. queue # <<>> /\ "tx" \in DOMAIN Head(queue)
    BY <1>1 DEF HandleTransaction
  <2>2. Head(queue) \in Queued(Len(stamp), stored) /\ Tail(queue) \in Seq(Queued(Len(stamp), stored))
    BY <1>0, <2>1
  <2>3. Head(queue).tx \in 1 .. Len(stamp)
    BY <1>0, <2>1, <2>2, QueuedTypes
  <2>4. /\ queue' = Tail(queue) /\ storing' = Head(queue).tx
        /\ stored' = stored \cup {Head(queue).tx}
        /\ UNCHANGED <<clocks, submitter, reported, hosting, counts, monitor, losses>>
    BY <1>1 DEF HandleTransaction
  <2>5. queue' \in Seq(Queued(Len(stamp), stored'))
    <3>1. Queued(Len(stamp), stored) \subseteq Queued(Len(stamp), stored')
      BY <1>0, <2>4, QueuedGrows
    <3> QED
      BY <2>2, <2>4, <3>1, SeqGrows
  <2> QED
    BY <2>3, <2>4, <2>5
       DEF TypeOK, Queued, clocks, submitter, pace, hosting, counts, monitor
<1>2. CASE RecordTransaction
  <2>1. timed' = timed \cup {storing} /\ storing' = NoTx /\ storing \in stored
        /\ UNCHANGED <<clocks, submitter, queue, stored, reported, hosting, output, finalized,
                       samples, monitor, losses>>
    BY <1>2 DEF TypeOK, RecordTransaction
  <2>2. timed' \subseteq stored' /\ storing' \in stored' \cup {NoTx}
    BY <2>1 DEF TypeOK
  <2>3. queue' \in Seq([tx : 1 .. Len(stamp')] \cup [ack : SUBSET stored'])
    BY <2>1 DEF TypeOK, submitter
  <2> QED
    BY <2>1, <2>2, <2>3 DEF TypeOK, clocks, submitter, pace, hosting, monitor
<1>3. CASE HandleVerified
  <2>1. queue # <<>> /\ "ack" \in DOMAIN Head(queue)
    BY <1>3 DEF HandleVerified
  <2>2. Head(queue) \in Queued(Len(stamp), stored) /\ Tail(queue) \in Seq(Queued(Len(stamp), stored))
    BY <1>0, <2>1
  <2>3. Head(queue).ack \subseteq stored
    BY <1>0, <2>1, <2>2, QueuedTypes
  <2>4. /\ queue' = Tail(queue) /\ verified' = verified \cup {Head(queue).ack}
        /\ UNCHANGED <<clocks, submitter, stored, storing, reported, proposer, candidate, verifying,
                       finalizeTime, counts, monitor, losses>>
    BY <1>3 DEF HandleVerified
  <2>5. verified' \subseteq SUBSET stored
    BY <2>3, <2>4 DEF TypeOK
  <2>6. queue' \in Seq([tx : 1 .. Len(stamp)] \cup [ack : SUBSET stored])
    BY <2>2, <2>4 DEF Queued
  <2> QED
    BY <2>4, <2>5, <2>6 DEF TypeOK, clocks, submitter, pace, counts, monitor
<1> QED
  BY <1>1, <1>2, <1>3

(* What is committed is finite, so that it can be counted. *)
LEMMA OutputFinite ==
    ASSUME TypeOK
    PROVE  /\ IsFiniteSet(candidate) /\ IsFiniteSet(output) /\ IsFiniteSet(candidate \cap timed)
           /\ Cardinality(candidate) \in Nat /\ Cardinality(candidate \cap timed) \in Nat
           /\ Cardinality(output) \in Nat /\ Cardinality(output) <= Len(stamp)
<1>1. Len(stamp) \in Nat /\ candidate \subseteq 1 .. Len(stamp) /\ output \subseteq 1 .. Len(stamp)
  <2>1. stamp \in Seq(0 .. clock) /\ stored \subseteq 1 .. Len(stamp)
    BY Zenon DEF TypeOK
  <2>2. candidate \subseteq stored /\ output \subseteq stored
    BY Zenon DEF TypeOK
  <2>3. Len(stamp) \in Nat
    BY <2>1
  <2> QED
    BY <2>1, <2>2, <2>3, Zenon
<1>2. IsFiniteSet(1 .. Len(stamp)) /\ Cardinality(1 .. Len(stamp)) = Len(stamp)
  <2>1. 1 \in Int /\ Len(stamp) \in Int /\ (IF 1 > Len(stamp) THEN 0 ELSE Len(stamp) - 1 + 1) = Len(stamp)
    BY <1>1
  <2> QED
    BY <2>1, FS_Interval
<1>3. IsFiniteSet(candidate) /\ IsFiniteSet(output) /\ IsFiniteSet(candidate \cap timed)
  BY <1>1, <1>2, FS_Subset
<1>4. Cardinality(output) <= Len(stamp)
  BY <1>1, <1>2, FS_Subset
<1> QED
  BY <1>3, <1>4, FS_CardinalityType

(* The proposer and the other replicas. *)
LEMMA ProposerType ==
    ASSUME TypeOK,
           \/ ConstructCandidate \/ CheckContext \/ AbandonPending \/ LockCommit \/ CommitPending
           \/ \E txs \in verifying : OthersVerify(txs)
    PROVE  TypeOK'
<1>1. CASE ConstructCandidate
  <2>1. candidate' \subseteq stored \cap reported /\ verifying' = verifying \cup {candidate'}
    BY <1>1 DEF ConstructCandidate
  <2>2. verifying' \subseteq SUBSET stored
    BY <2>1 DEF TypeOK
  <2>3. proposer' = "waiting"
        /\ UNCHANGED <<clocks, submitter, worker, reported, verified, finalizeTime, counts, monitor,
                       losses>>
    BY <1>1 DEF ConstructCandidate
  <2> QED
    BY <2>1, <2>2, <2>3 DEF TypeOK, clocks, submitter, pace, worker, counts, monitor
<1>2. CASE CheckContext
  BY <1>2 DEF TypeOK, CheckContext, clocks, submitter, pace, worker, counts, monitor
<1>3. CASE AbandonPending
  <2>1. losses' \in [failed : Nat, abandoned : Nat]
    <3>1. losses \in [failed : Nat, abandoned : Nat]
      BY DEF TypeOK
    <3>2. losses' = [losses EXCEPT !.abandoned = @] \/ losses' = [losses EXCEPT !.abandoned = @ + 1]
      BY <1>3 DEF AbandonPending
    <3> QED
      BY <3>1, <3>2, LossTypes
  <2>2. proposer' \in {"idle", "stopped"}
        /\ UNCHANGED <<clocks, submitter, worker, reported, candidate, verifying, verified,
                       finalizeTime, counts, monitor>>
    BY <1>3 DEF AbandonPending
  <2> QED
    BY <2>1, <2>2 DEF TypeOK, clocks, submitter, pace, worker, counts, monitor
<1>4. CASE LockCommit
  <2>1. clock \in 0 .. clock
    BY MeasurementBounds DEF TypeOK
  <2> QED
    BY <1>4, <2>1 DEF TypeOK, LockCommit, clocks, submitter, pace, worker, counts, monitor
<1>5. CASE CommitPending
  <2>1. /\ timed' = timed \ candidate /\ output' = output \cup candidate /\ proposer' = "idle"
        /\ UNCHANGED <<clocks, submitter, worker, reported, candidate, verifying, verified,
                       finalizeTime, monitor, losses>>
    BY <1>5 DEF CommitPending
  <2>2. finalized' \in Nat /\ samples' \in Nat
    <3>1. /\ finalized \in Nat /\ samples \in Nat
          /\ Cardinality(candidate) \in Nat /\ Cardinality(candidate \cap timed) \in Nat
      BY OutputFinite DEF TypeOK
    <3>2. /\ finalized' \in {finalized, finalized + Cardinality(candidate)}
          /\ samples' \in {samples, samples + Cardinality(candidate \cap timed)}
      BY <1>5 DEF CommitPending
    <3> QED
      BY <3>1, <3>2
  <2>3. timed' \subseteq stored /\ output' \subseteq stored
    BY <2>1 DEF TypeOK
  <2> QED
    BY <2>1, <2>2, <2>3 DEF TypeOK, clocks, submitter, pace, worker, monitor
<1>6. ASSUME NEW txs \in verifying, OthersVerify(txs)
      PROVE  TypeOK'
  <2>1. Len(stamp) \in Nat /\ queue \in Seq(Queued(Len(stamp), stored)) /\ txs \subseteq stored
    BY DEF TypeOK, Queued
  <2>2. [ack |-> txs] \in Queued(Len(stamp), stored)
    BY <2>1, QueuedTypes
  <2>3. /\ verifying' = verifying \ {txs} /\ queue' = Append(queue, [ack |-> txs])
        /\ UNCHANGED <<clocks, submitter, stored, storing, reported, proposer, candidate, verified,
                       finalizeTime, counts, monitor, losses>>
    BY <1>6 DEF OthersVerify
  <2>4. queue' \in Seq(Queued(Len(stamp), stored)) /\ verifying' \subseteq SUBSET stored
    BY <2>1, <2>2, <2>3 DEF TypeOK
  <2> QED
    BY <2>3, <2>4 DEF TypeOK, Queued, clocks, submitter, pace, counts, monitor
<1> QED
  BY <1>1, <1>2, <1>3, <1>4, <1>5, <1>6

LEMMA MonitorType ==
    ASSUME TypeOK, GetMeasurementStats \/ FinalReport
    PROVE  TypeOK'
<1>1. CASE GetMeasurementStats
  <2>1. stats' \in Stats
    BY <1>1 DEF TypeOK, GetMeasurementStats, Stats
  <2>2. UNCHANGED <<clocks, submitter, worker, reported, hosting, counts, report, losses>>
    BY <1>1 DEF GetMeasurementStats
  <2> QED
    BY <2>1, <2>2 DEF TypeOK, Stats, clocks, submitter, pace, worker, hosting, counts
<1>2. CASE FinalReport
  <2>1. stats \in Stats /\ Len(stamp) \in Nat
    BY <1>2 DEF TypeOK, FinalReport, Stats
  <2>2. report' \in Results \cup [kind : {"invalid", "none"}]
    BY <1>2, <2>1 DEF FinalReport, Stats, Results
  <2>3. UNCHANGED <<clocks, submitter, worker, reported, hosting, counts, stats, losses>>
    BY <1>2 DEF FinalReport
  <2> QED
    BY <2>2, <2>3 DEF TypeOK, Results, clocks, submitter, pace, worker, hosting, counts
<1> QED
  BY <1>1, <1>2

LEMMA TypeStep ==
    ASSUME TypeOK, Paced, [Next]_vars
    PROVE  TypeOK'
<1>1. CASE UNCHANGED vars
  BY <1>1 DEF TypeOK, vars, clocks, submitter, pace, leader, worker, hosting, counts, monitor
<1>2. CASE Next
  BY <1>2, SubmitterType, CountType, SendType, ClockType, WorkerType, ProposerType, MonitorType
     DEF Next
<1> QED
  BY <1>1, <1>2

-----------------------------------------------------------------------------
(* The pace. *)

(* What the target asks for is due. *)
LEMMA DueBefore ==
    ASSUME NEW k \in Nat, NEW elapsed \in Nat, k <= Target(elapsed)
    PROVE  k * Second <= Rate * elapsed
<1> DEFINE a == Rate * elapsed
           d == a \div Second
           r == a % Second
<1>1. Rate \in Nat /\ Second \in Nat \ {0} /\ a \in Nat
  BY MeasurementAssumption, ProductMonotone
<1> HIDE DEF a
<1>2. d \in Nat /\ r \in 0 .. Second-1 /\ a = Second * d + r
  BY <1>1, DivMod
<1>3. k <= d
  BY DEF Target, a
<1> HIDE DEF d, r
<1>4. Second * k \in Nat /\ Second * k <= Second * d /\ Second * d \in Nat
  BY <1>1, <1>2, <1>3, ProductMonotone
<1>5. k * Second = Second * k
  BY <1>1, Z3
<1>6. k * Second <= a
  BY <1>1, <1>2, <1>4, <1>5
<1> QED
  BY <1>6 DEF a

(* What is due stays due. *)
LEMMA DueLater ==
    ASSUME NEW k \in Nat, NEW m \in Nat, NEW n \in Nat, m <= n, k * Second <= Rate * m
    PROVE  k * Second <= Rate * n
<1>1. Rate \in Nat /\ Second \in Nat
  BY MeasurementAssumption
<1>2. Rate * m \in Nat /\ Rate * m <= Rate * n
  BY <1>1, ProductMonotone
<1>3. k * Second \in Nat /\ Rate * n \in Nat
  BY <1>1, ProductMonotone, Z3
<1> QED
  BY <1>2, <1>3

(* The target is the last transaction that is due. *)
LEMMA DueAtTarget ==
    ASSUME NEW k \in Nat, NEW elapsed \in Nat, k * Second <= Rate * elapsed
    PROVE  k <= Target(elapsed)
<1> DEFINE a == Rate * elapsed
           d == a \div Second
           r == a % Second
<1>1. Rate \in Nat /\ Second \in Nat \ {0} /\ a \in Nat
  BY MeasurementAssumption, ProductMonotone
<1>2. k * Second <= a
  OBVIOUS
<1> HIDE DEF a
<1>3. d \in Nat /\ r \in 0 .. Second-1 /\ a = Second * d + r
  BY <1>1, DivMod
<1> HIDE DEF d, r
<1>4. ASSUME k >= d + 1
      PROVE  FALSE
  <2>1. Second * (d + 1) <= Second * k /\ Second * k \in Nat
    BY <1>1, <1>3, <1>4, ProductMonotone
  <2>2. Second * (d + 1) = Second * d + Second /\ Second * k = k * Second
    BY <1>1, <1>3, Z3
  <2>3. Second * d \in Nat
    BY <1>1, <1>3, ProductMonotone
  <2> QED
    BY <1>1, <1>2, <1>3, <2>1, <2>2, <2>3
<1>5. k <= d
  <2>1. k \in Nat /\ d \in Nat
    BY <1>3
  <2> QED
    BY <1>4, <2>1
<1> QED
  BY <1>5 DEF Target, a, d

(* Pace, window and target: only the submitter and the clock matter. *)
LEMMA PaceStep ==
    ASSUME TypeOK, Paced, KeepsToTarget, WithinWindow, [Next]_vars
    PROVE  (Paced /\ KeepsToTarget /\ WithinWindow)'
<1>0. /\ clock \in Nat /\ clock \in 0 .. Horizon /\ readAt \in Nat /\ readAt <= clock
      /\ submittedAt \in Nat /\ submittedAt <= clock
      /\ stamp \in Seq(0 .. clock) /\ Len(stamp) \in Nat /\ expected \in Nat /\ Deadline \in Nat
      /\ \A k \in DOMAIN stamp : stamp[k] \in Nat /\ stamp[k] <= clock
  <2>1. /\ Horizon \in Nat /\ Deadline \in Nat
    BY MeasurementAssumption, MeasurementBounds
  <2>2. /\ clock \in 0 .. Horizon /\ readAt \in 0 .. clock /\ submittedAt \in 0 .. clock
        /\ stamp \in Seq(0 .. clock) /\ expected \in Nat
    BY MeasurementAssumption, MeasurementBounds DEF TypeOK
  <2>3. clock \in Nat
    BY <2>1, <2>2
  <2>4. Len(stamp) \in Nat /\ \A k \in DOMAIN stamp : stamp[k] \in 0 .. clock
    BY <2>2
  <2>5. \A k \in DOMAIN stamp : stamp[k] \in Nat /\ stamp[k] <= clock
    BY <2>3, <2>4
  <2> QED
    BY <2>1, <2>2, <2>3, <2>4, <2>5
<1>1. ASSUME UNCHANGED submitter
      PROVE  (Paced /\ KeepsToTarget /\ WithinWindow)'
  BY <1>1 DEF submitter, pace, Paced, KeepsToTarget, WithinWindow
<1>2. CASE ReadTarget
  <2>1. /\ readAt' = clock /\ expected' = Target(clock) /\ Target(clock) \in Nat
        /\ UNCHANGED <<submittedAt, stamp, outbox>>
        /\ phase' = IF Len(stamp) >= expected' THEN "wait" ELSE "batch"
    BY <1>0, <1>2, TargetExact DEF ReadTarget
  <2>2. Len(stamp) <= Target(clock)
    <3>1. CASE Len(stamp) = 0
      BY <2>1, <3>1
    <3>2. CASE Len(stamp) # 0
      <4> DEFINE k == Len(stamp)
      <4>1. k \in DOMAIN stamp
        BY <1>0, <3>2
      <4>2. k * Second <= Rate * stamp[k] /\ stamp[k] \in Nat /\ stamp[k] <= clock
        BY <1>0, <4>1 DEF KeepsToTarget
      <4>3. k \in Nat
        BY <1>0
      <4> HIDE DEF k
      <4>4. k * Second <= Rate * clock
        BY <1>0, <4>2, <4>3, DueLater
      <4>5. k <= Target(clock)
        BY <1>0, <4>3, <4>4, DueAtTarget
      <4> QED
        BY <4>5 DEF k
    <3> QED
      BY <3>1, <3>2
  <2>3. phase' = "wait" => Len(stamp') = expected'
    BY <1>0, <2>1, <2>2
  <2>4. Paced'
    BY <2>1, <2>3 DEF Paced, Target
  <2>5. KeepsToTarget' /\ WithinWindow'
    BY <2>1, <2>3 DEF KeepsToTarget, WithinWindow, Target
  <2> QED
    BY <2>4, <2>5
<1>3. CASE Wake \/ BatchDone \/ StopSubmitting
  <2>1. phase' \in {"loop", "done"} /\ UNCHANGED <<pace, submittedAt, stamp, outbox>>
    BY <1>3 DEF Wake, BatchDone, StopSubmitting
  <2> QED
    BY <2>1 DEF Paced, KeepsToTarget, WithinWindow, pace
<1>4. CASE CreateTransaction
  <2>1. /\ phase = "batch" /\ Len(stamp) < expected /\ clock < Deadline
        /\ phase' = "create" /\ submittedAt' = clock /\ UNCHANGED <<readAt, expected, stamp, outbox>>
    BY <1>0, <1>4 DEF CreateTransaction, StillMeasured, Over, pace
  <2> QED
    BY <1>0, <2>1 DEF Paced, KeepsToTarget, WithinWindow
<1>5. CASE CountTransaction
  <2> DEFINE k == Len(stamp) + 1
  <2>1. /\ phase = "create" /\ phase' = "batch" /\ stamp' = Append(stamp, submittedAt)
        /\ UNCHANGED <<readAt, expected, submittedAt>>
    BY <1>5 DEF CountTransaction, pace
  <2>2. Len(stamp) < Target(readAt) /\ expected = Target(readAt)
        /\ readAt <= submittedAt /\ submittedAt < Deadline
    BY <2>1 DEF Paced
  <2>3. k * Second <= Rate * submittedAt
    <3>1. k \in Nat /\ k <= Target(readAt)
      BY <1>0, <2>2
    <3> HIDE DEF k
    <3>2. k * Second <= Rate * readAt
      BY <1>0, <3>1, DueBefore
    <3> QED
      BY <1>0, <2>2, <3>1, <3>2, DueLater
  <2>4. /\ stamp' # <<>> /\ DOMAIN stamp' = (DOMAIN stamp) \cup {k}
        /\ \A j \in DOMAIN stamp : stamp'[j] = stamp[j]
        /\ stamp'[k] = submittedAt
    BY <1>0, <2>1
  <2>5. Paced'
    BY <2>1, <2>2, <2>4 DEF Paced
  <2> HIDE DEF k
  <2>6. KeepsToTarget'
    <3>1. \A j \in DOMAIN stamp' : j * Second <= Rate * stamp'[j]
      BY <2>3, <2>4 DEF KeepsToTarget
    <3> QED
      BY <2>1, <3>1 DEF KeepsToTarget
  <2>7. WithinWindow'
    BY <2>2, <2>4 DEF WithinWindow
  <2> QED
    BY <2>5, <2>6, <2>7
<1>6. CASE SendToLeader \/ SendToOthers
  <2>1. outbox # {} /\ UNCHANGED <<phase, pace, submittedAt, stamp>>
    BY <1>6 DEF SendToLeader, SendToOthers
  <2> QED
    BY <2>1 DEF Paced, KeepsToTarget, WithinWindow, pace
<1>7. CASE Tick \/ Cancel
  BY <1>1, <1>7 DEF Tick, Cancel
<1>8. CASE HandleTransaction \/ RecordTransaction \/ HandleVerified
  BY <1>1, <1>8 DEF HandleTransaction, RecordTransaction, HandleVerified
<1>9. CASE \/ ConstructCandidate \/ CheckContext \/ AbandonPending \/ LockCommit \/ CommitPending
           \/ \E txs \in verifying : OthersVerify(txs)
  BY <1>1, <1>9 DEF ConstructCandidate, CheckContext, AbandonPending, LockCommit, CommitPending,
                    OthersVerify
<1>10. CASE GetMeasurementStats \/ FinalReport
  BY <1>1, <1>10 DEF GetMeasurementStats, FinalReport
<1>11. CASE UNCHANGED vars
  BY <1>1, <1>11 DEF vars
<1> QED
  BY <1>2, <1>3, <1>4, <1>5, <1>6, <1>7, <1>8, <1>9, <1>10, <1>11 DEF Next

-----------------------------------------------------------------------------
(* The samples. *)

Sampling == StoredRecorded /\ VerifiedRecorded /\ OutputOnce /\ CheckedVerified /\ CountsOutput

LEMMA SampleStep ==
    ASSUME TypeOK, Sampling, EverySampled, [Next]_vars
    PROVE  (Sampling /\ EverySampled)'
<1>1. ASSUME UNCHANGED <<stored, storing, hosting, counts>>
      PROVE  (Sampling /\ EverySampled)'
  BY <1>1 DEF hosting, counts, Sampling, StoredRecorded, VerifiedRecorded, Recorded, OutputOnce,
              Busy, CheckedVerified, CountsOutput, EverySampled
<1>2. CASE HandleTransaction
  <2>1. /\ storing = NoTx /\ stored' = stored \cup {storing'}
        /\ UNCHANGED <<hosting, counts>>
    BY <1>2 DEF HandleTransaction
  <2>2. \A tx \in stored : tx # NoTx
    BY DEF TypeOK, NoTx
  <2>3. StoredRecorded'
    BY <2>1, <2>2 DEF Sampling, StoredRecorded, Recorded, counts
  <2> QED
    BY <2>1, <2>3 DEF hosting, counts, Sampling, VerifiedRecorded, Recorded, OutputOnce,
              Busy, CheckedVerified, CountsOutput, EverySampled
<1>3. CASE RecordTransaction
  <2>1. /\ timed' = timed \cup {storing}
        /\ UNCHANGED <<stored, hosting, output, finalized, samples>>
    BY <1>3 DEF RecordTransaction
  <2> QED
    BY <2>1 DEF hosting, Sampling, StoredRecorded, VerifiedRecorded, Recorded, OutputOnce,
              Busy, CheckedVerified, CountsOutput, EverySampled
<1>4. CASE HandleVerified
  <2>1. /\ storing = NoTx /\ queue # <<>> /\ "ack" \in DOMAIN Head(queue)
        /\ verified' = verified \cup {Head(queue).ack}
        /\ UNCHANGED <<stored, storing, proposer, candidate, verifying, finalizeTime, counts>>
    BY <1>4 DEF HandleVerified, WorkerFree
  <2>2. Head(queue).ack \subseteq stored
    <3>1. Len(stamp) \in Nat /\ Head(queue) \in Queued(Len(stamp), stored)
      BY <2>1 DEF TypeOK, Queued
    <3> QED
      BY <2>1, <3>1, QueuedTypes
  <2>3. stored \subseteq Recorded
    BY <2>1 DEF TypeOK, Sampling, StoredRecorded, NoTx
  <2>4. VerifiedRecorded'
    BY <2>1, <2>2, <2>3 DEF Sampling, VerifiedRecorded, Recorded, counts
  <2> QED
    BY <2>1, <2>4 DEF counts, Sampling, StoredRecorded, Recorded, OutputOnce, Busy,
              CheckedVerified, CountsOutput, EverySampled
<1>5. CASE ConstructCandidate
  <2>1. /\ candidate' \cap output = {} /\ proposer' = "waiting"
        /\ UNCHANGED <<stored, storing, verified, counts>>
    BY <1>5 DEF ConstructCandidate, worker
  <2> QED
    BY <2>1 DEF counts, Sampling, StoredRecorded, VerifiedRecorded, Recorded, OutputOnce, Busy,
              CheckedVerified, CountsOutput, EverySampled
<1>6. CASE CheckContext \/ AbandonPending \/ LockCommit
  <2>1. /\ Busy' => Busy
        /\ proposer' \in {"checked", "committing"} => candidate \in verified
        /\ UNCHANGED <<stored, storing, candidate, verified, counts>>
    BY <1>6 DEF CheckContext, AbandonPending, LockCommit, worker, Busy, Sampling, CheckedVerified
  <2> QED
    BY <2>1 DEF counts, Sampling, StoredRecorded, VerifiedRecorded, Recorded, OutputOnce,
              CheckedVerified, CountsOutput, EverySampled
<1>7. CASE CommitPending
  <2>1. /\ proposer = "committing" /\ proposer' = "idle"
        /\ timed' = timed \ candidate /\ output' = output \cup candidate
        /\ UNCHANGED <<stored, storing, candidate, verified>>
        /\ finalized' = IF Measured THEN finalized + Cardinality(candidate) ELSE finalized
        /\ samples' = IF Measured THEN samples + Cardinality(candidate \cap timed) ELSE samples
    BY <1>7 DEF CommitPending, worker
  <2>2. candidate \cap output = {} /\ candidate \subseteq Recorded
    BY <2>1 DEF Sampling, OutputOnce, Busy, CheckedVerified, VerifiedRecorded
  <2>3. candidate \cap timed = candidate
    BY <2>2 DEF Recorded
  <2>4. EverySampled'
    BY <2>1, <2>3 DEF EverySampled
  <2>5. CountsOutput'
    <3>1. IsFiniteSet(output) /\ IsFiniteSet(candidate)
          /\ Cardinality(candidate) \in Nat /\ Cardinality(output) \in Nat
      BY OutputFinite
    <3>2. Cardinality(output \cup candidate) = Cardinality(output) + Cardinality(candidate)
      <4>1. output \cap candidate = {}
        BY <2>2
      <4>2. Cardinality(output \cap candidate) = 0
        BY <4>1, FS_EmptySet
      <4>3. Cardinality(output \cup candidate)
              = Cardinality(output) + Cardinality(candidate) - Cardinality(output \cap candidate)
        BY <3>1, FS_Union
      <4> QED
        BY <3>1, <4>2, <4>3
    <3>3. finalized \in Nat /\ finalized <= Cardinality(output)
      BY DEF TypeOK, Sampling, CountsOutput
    <3>4. finalized' \in {finalized, finalized + Cardinality(candidate)}
      BY <2>1
    <3> QED
      BY <2>1, <3>1, <3>2, <3>3, <3>4 DEF CountsOutput
  <2>6. StoredRecorded' /\ VerifiedRecorded'
    BY <2>1 DEF Sampling, StoredRecorded, VerifiedRecorded, Recorded
  <2>7. OutputOnce' /\ CheckedVerified'
    BY <2>1 DEF OutputOnce, Busy, CheckedVerified
  <2> QED
    BY <2>4, <2>5, <2>6, <2>7 DEF Sampling
<1>8. CASE \/ ReadTarget \/ Wake \/ CreateTransaction \/ CountTransaction \/ BatchDone
           \/ StopSubmitting \/ SendToLeader \/ SendToOthers \/ Tick \/ Cancel
  BY <1>1, <1>8 DEF ReadTarget, Wake, CreateTransaction, CountTransaction, BatchDone, StopSubmitting,
                    SendToLeader, SendToOthers, Tick, Cancel, leader, worker
<1>9. CASE GetMeasurementStats \/ FinalReport
  BY <1>1, <1>9 DEF GetMeasurementStats, FinalReport, worker
<1>10. CASE \E txs \in verifying : OthersVerify(txs)
  <2>1. UNCHANGED <<stored, storing, proposer, candidate, verified, counts>>
    BY <1>10 DEF OthersVerify
  <2> QED
    BY <2>1 DEF counts, Sampling, StoredRecorded, VerifiedRecorded, Recorded, OutputOnce,
              Busy, CheckedVerified, CountsOutput, EverySampled
<1>11. CASE UNCHANGED vars
  BY <1>1, <1>11 DEF vars, leader, worker
<1> QED
  BY <1>2, <1>3, <1>4, <1>5, <1>6, <1>7, <1>8, <1>9, <1>10, <1>11 DEF Next

-----------------------------------------------------------------------------
(* The report. *)

Reporting == StatsFinal /\ ReportOfStats

LEMMA ReportStep ==
    ASSUME TypeOK, Reporting, [Next]_vars
    PROVE  Reporting'
<1>0. clock \in Nat /\ Deadline \in Nat /\ finalizeTime \in Nat
  BY MeasurementAssumption, MeasurementBounds DEF TypeOK
<1>1. CASE GetMeasurementStats
  <2>1. /\ Over /\ phase = "done" /\ stats = NoStats /\ proposer # "committing"
        /\ stats' = [finalized |-> finalized, samples |-> samples]
        /\ UNCHANGED <<clock, cancelled, phase, stamp, proposer, finalizeTime, finalized, samples,
                       report>>
    BY <1>1 DEF GetMeasurementStats, SubmissionOver, ReadLock, Unlocked, clocks, submitter, pace,
                hosting, counts
  <2>2. report = NoReport
    BY <2>1 DEF Reporting, ReportOfStats
  <2>3. StatsFinal'
    BY <1>0, <2>1 DEF StatsFinal, Over
  <2>4. ReportOfStats'
    BY <2>1, <2>2 DEF ReportOfStats, NoReport
  <2> QED
    BY <2>3, <2>4 DEF Reporting
<1>2. CASE FinalReport
  <2>1. /\ stats # NoStats
        /\ report' = IF clock < Deadline THEN [kind |-> "invalid"]
                     ELSE [kind |-> "results", submitted |-> Len(stamp),
                           finalized |-> stats.finalized, samples |-> stats.samples]
        /\ UNCHANGED <<clock, cancelled, phase, stamp, proposer, finalizeTime, finalized, samples,
                       stats>>
    BY <1>2 DEF FinalReport, clocks, submitter, pace, hosting, counts
  <2>2. StatsFinal'
    BY <2>1 DEF Reporting, StatsFinal
  <2>3. ReportOfStats'
    BY <2>1 DEF ReportOfStats
  <2> QED
    BY <2>2, <2>3 DEF Reporting
<1>3. ASSUME UNCHANGED <<monitor, phase, stamp>>,
             /\ cancelled => cancelled'
             /\ stats # NoStats /\ ~cancelled /\ clock >= Deadline =>
                 /\ clock' >= Deadline
                 /\ UNCHANGED <<finalized, samples>> \/ (proposer = "committing" /\ Measured)
                 /\ proposer' = "committing" =>
                        finalizeTime' >= Deadline
                        \/ (proposer = "committing" /\ finalizeTime' = finalizeTime)
      PROVE  Reporting'
  BY <1>0, <1>3 DEF Reporting, StatsFinal, ReportOfStats, monitor, Measured
<1>4. ASSUME UNCHANGED <<monitor, phase, stamp, clock, proposer, finalizeTime, finalized, samples>>,
             cancelled => cancelled'
      PROVE  Reporting'
  BY <1>3, <1>4
<1>5. CASE Tick
  <2>1. clock' = clock + 1
        /\ UNCHANGED <<cancelled, monitor, phase, stamp, proposer, finalizeTime, finalized, samples>>
    BY <1>5 DEF Tick, submitter, leader, hosting, counts
  <2>2. clock >= Deadline => clock' >= Deadline
    BY <1>0, <2>1
  <2> QED
    BY <1>3, <2>1, <2>2
<1>6. CASE Cancel
  BY <1>4, <1>6 DEF Cancel, submitter, leader, hosting, counts
<1>7. CASE \/ ReadTarget \/ Wake \/ CreateTransaction \/ CountTransaction \/ BatchDone
           \/ StopSubmitting
  <2>1. phase # "done" /\ UNCHANGED <<clocks, leader>>
    BY <1>7 DEF ReadTarget, Wake, CreateTransaction, CountTransaction, BatchDone, StopSubmitting
  <2>2. stats = NoStats /\ report = NoReport
    BY <2>1 DEF Reporting, StatsFinal, ReportOfStats
  <2> QED
    BY <2>1, <2>2 DEF Reporting, StatsFinal, ReportOfStats, leader, monitor, NoReport
<1>8. CASE SendToLeader \/ SendToOthers
  BY <1>4, <1>8 DEF SendToLeader, SendToOthers, clocks, worker, hosting, counts
<1>9. CASE HandleTransaction \/ RecordTransaction \/ HandleVerified
  BY <1>4, <1>9 DEF HandleTransaction, RecordTransaction, HandleVerified, clocks, submitter, hosting,
                    counts
<1>10. CASE \/ ConstructCandidate \/ CheckContext \/ AbandonPending
            \/ \E txs \in verifying : OthersVerify(txs)
  <2>1. /\ UNCHANGED <<monitor, phase, stamp, clock, cancelled, finalizeTime, finalized, samples>>
        /\ proposer' # "committing" \/ proposer' = proposer
    BY <1>10 DEF ConstructCandidate, CheckContext, AbandonPending, OthersVerify, clocks, submitter,
                 counts
  <2> QED
    BY <1>3, <2>1
<1>11. CASE LockCommit
  <2>1. /\ UNCHANGED <<monitor, phase, stamp, clock, cancelled, finalized, samples>>
        /\ finalizeTime' = clock
    BY <1>11 DEF LockCommit, clocks, submitter, counts
  <2> QED
    BY <1>3, <2>1
<1>12. CASE CommitPending
  <2>1. /\ UNCHANGED <<monitor, phase, stamp, clock, cancelled, finalizeTime>>
        /\ proposer = "committing" /\ proposer' = "idle"
        /\ ~Measured => UNCHANGED <<finalized, samples>>
    BY <1>12 DEF CommitPending, clocks, submitter
  <2> QED
    BY <1>3, <2>1
<1>13. CASE UNCHANGED vars
  BY <1>4, <1>13 DEF vars, clocks, submitter, leader, hosting, counts
<1> QED
  BY <1>1, <1>2, <1>5, <1>6, <1>7, <1>8, <1>9, <1>10, <1>11, <1>12, <1>13 DEF Next

-----------------------------------------------------------------------------
(* The theorems. *)

LEMMA InitCorrect == Init => IInv
<1> SUFFICES ASSUME Init PROVE IInv
  OBVIOUS
<1>1. TypeOK
  BY InitType
<1>2. Paced /\ KeepsToTarget /\ WithinWindow
  BY DEF Init, Paced, KeepsToTarget, WithinWindow
<1>3. StoredRecorded /\ VerifiedRecorded /\ OutputOnce /\ CheckedVerified /\ EverySampled
  BY DEF Init, StoredRecorded, VerifiedRecorded, OutputOnce, Busy, CheckedVerified, EverySampled
<1>4. CountsOutput
  <2>1. finalized = 0 /\ Cardinality(output) = 0
    BY FS_EmptySet DEF Init
  <2> QED
    BY <2>1 DEF CountsOutput
<1>5. StatsFinal /\ ReportOfStats
  BY DEF Init, StatsFinal, ReportOfStats, NoReport
<1> QED
  BY <1>1, <1>2, <1>3, <1>4, <1>5 DEF IInv

LEMMA StepCorrect == IInv /\ [Next]_vars => IInv'
<1> SUFFICES ASSUME IInv, [Next]_vars PROVE IInv'
  OBVIOUS
<1>1. TypeOK'
  BY TypeStep DEF IInv
<1>2. (Paced /\ KeepsToTarget /\ WithinWindow)'
  BY PaceStep DEF IInv
<1>3. (Sampling /\ EverySampled)'
  BY SampleStep DEF IInv, Sampling
<1>4. Reporting'
  BY ReportStep DEF IInv, Reporting
<1> QED
  BY <1>1, <1>2, <1>3, <1>4 DEF IInv, Sampling, Reporting

(* The inductive invariant of the measurement. *)
THEOREM Invariance == Spec => []IInv
  BY InitCorrect, StepCorrect, PTL DEF Spec

(* Every variable keeps its type; in particular no target exceeds the        *)
(* machine integer (transactionTarget).                                      *)
THEOREM TypeCorrect == Spec => []TypeOK
<1>1. IInv => TypeOK
  BY DEF IInv
<1> QED
  BY <1>1, Invariance, PTL

(* The submitter creates floor(Rate * elapsed) transactions, computed without *)
(* the product that may overflow, and none before it is due.                 *)
THEOREM OnTarget == Spec => []KeepsToTarget
<1>1. IInv => KeepsToTarget
  BY DEF IInv
<1> QED
  BY <1>1, Invariance, PTL

(* No transaction is created at or after the deadline, whatever blocked.     *)
THEOREM InWindow == Spec => []WithinWindow
<1>1. IInv => WithinWindow
  BY DEF IInv
<1> QED
  BY <1>1, Invariance, PTL

(* CommitPending finds the submission time of every measured transaction.    *)
THEOREM AllSampled == Spec => []EverySampled
<1>1. IInv => EverySampled
  BY DEF IInv
<1> QED
  BY <1>1, Invariance, PTL

(* The report of an uninterrupted run says what was submitted and finalized. *)
THEOREM FinalReportHolds == Spec => []ReportFinal
<1>1. IInv => ReportFinal
  <2> SUFFICES ASSUME IInv, report.kind = "results", ~cancelled
               PROVE  /\ report.submitted = Len(stamp)
                      /\ report.finalized = finalized /\ report.samples = samples
                      /\ finalized <= report.submitted
    BY DEF ReportFinal
  <2>1. report # NoReport
    BY DEF NoReport
  <2>2. /\ report.submitted = Len(stamp)
        /\ report.finalized = finalized /\ report.samples = samples
    BY <2>1 DEF IInv, StatsFinal, ReportOfStats
  <2>3. finalized <= Cardinality(output) /\ Cardinality(output) <= Len(stamp)
        /\ Cardinality(output) \in Nat /\ finalized \in Nat /\ Len(stamp) \in Nat
    <3>1. TypeOK /\ CountsOutput
      BY DEF IInv
    <3>2. Cardinality(output) \in Nat /\ Cardinality(output) <= Len(stamp)
      BY <3>1, OutputFinite
    <3> QED
      BY <3>1, <3>2 DEF TypeOK, CountsOutput
  <2> QED
    BY <2>2, <2>3
<1> QED
  BY <1>1, Invariance, PTL
=============================================================================
