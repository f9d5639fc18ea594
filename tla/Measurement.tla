------------------------------ MODULE Measurement ------------------------------
(***************************************************************************)
(* The measured load and what is reported of it (pkg/main.go, the           *)
(* measurement of pkg/ofo/service.go), all in the leader's process:         *)
(*   - the submitter keeps to the cumulative target floor(Rate * elapsed)   *)
(*     and sends each transaction to every replica, one after the other;    *)
(*   - the leader's message worker stores the content of a transaction,     *)
(*     then takes the lock and records when it was submitted;               *)
(*   - the proposer commits what is stored here and reported elsewhere;     *)
(*   - the monitor reports what was submitted and finalized by the deadline.*)
(* The other replicas are one party that reports and verifies.  The clock   *)
(* counts time units from the measurement start; a second is Second units.  *)
(***************************************************************************)
EXTENDS Integers, Sequences, FiniteSets

CONSTANTS
    Rate,       \* transactions per second
    Second,     \* time units in a second (10^9 nanoseconds in the code)
    Deadline,   \* end of the measurement
    Horizon,    \* bound: the clock stops here
    MaxInt,     \* largest machine integer (2^63 - 1 in the code)
    MaxFailures,\* bound: transactions lost on a full queue or a broken connection
    MaxAbandons \* bound: attempts the hosting gate abandons

(* What the split computation needs; Rate * elapsed itself may exceed MaxInt. *)
ASSUME MeasurementAssumption ==
    /\ Rate \in Nat /\ Second \in Nat \ {0} /\ Deadline \in Nat \ {0} /\ MaxInt \in Nat \ {0}
    /\ Rate * (Second - 1) <= MaxInt
    /\ (Horizon \div Second) * Rate + Rate <= MaxInt

ASSUME MeasurementBounds ==
    Horizon \in Nat /\ Horizon > Deadline /\ MaxFailures \in Nat /\ MaxAbandons \in Nat

NoTx == 0
Txs == 1 .. (Deadline * Rate) \div Second
Leader == "leader"
Others == "others"
Targets == {Leader, Others}

VARIABLES
    clock,       \* time since the measurement start
    cancelled,   \* the process was interrupted
    phase,       \* the submitter: "loop", "wait", "batch", "create" or, at the end, "done"
    readAt,      \* the clock when the target was computed
    expected,    \* the target
    submittedAt, \* the clock when the transaction being created passed the check
    stamp,       \* SubmissionTime of every transaction, numbered from 1; txCounter is its length
    outbox,      \* where the current transaction has still to be sent
    queue,       \* msgQueue of the leader: transactions and acknowledged candidates
    reported,    \* transactions the other replicas have reported
    stored,      \* admission: contents the leader has
    storing,     \* stored by the worker, not yet recorded
    timed,       \* txSubmissionTimes: recorded and not yet committed
    proposer,    \* "idle", "waiting", "checked", "stopped" or, holding the lock, "committing"
    candidate,   \* the transactions the pending candidate outputs
    verifying,   \* candidates on their way to the other replicas
    verified,    \* candidates whose acknowledgements the worker has handed over
    finalizeTime,\* read by CommitPending
    output,      \* transactions committed
    finalized,   \* measuredFinalized
    samples,     \* finalizedCountForLatency
    stats,       \* what GetMeasurementStats returned to the monitor
    report,      \* the final report
    losses       \* lost transactions and abandoned attempts

clocks == <<clock, cancelled>>
pace == <<readAt, expected>>
submitter == <<phase, pace, submittedAt, stamp, outbox>>
worker == <<queue, stored, storing>>
hosting == <<proposer, candidate, verifying, verified, finalizeTime>>
counts == <<timed, output, finalized, samples>>
monitor == <<stats, report>>
leader == <<worker, reported, hosting, counts, monitor>>
vars == <<clocks, submitter, leader, losses>>

NoStats == [finalized |-> -1, samples |-> -1]
NoReport == [kind |-> "none"]

Init ==
    /\ clock = 0 /\ cancelled = FALSE
    /\ phase = "loop" /\ readAt = 0 /\ expected = 0 /\ submittedAt = 0
    /\ stamp = <<>> /\ outbox = {}
    /\ queue = <<>> /\ stored = {} /\ storing = NoTx
    /\ reported = {}
    /\ proposer = "idle" /\ candidate = {} /\ verifying = {} /\ verified = {} /\ finalizeTime = 0
    /\ timed = {} /\ output = {} /\ finalized = 0 /\ samples = 0
    /\ stats = NoStats /\ report = NoReport
    /\ losses = [failed |-> 0, abandoned |-> 0]

Unlocked == proposer # "committing"

Tick == clock < Horizon /\ clock' = clock + 1
        /\ UNCHANGED <<cancelled, submitter, leader, losses>>

Cancel == ~cancelled /\ cancelled' = TRUE
          /\ UNCHANGED <<clock, submitter, leader, losses>>

(* experimentCtx has ended, or the clock shows that it has to. *)
Over == cancelled \/ clock >= Deadline

-----------------------------------------------------------------------------
(* submitTransactions *)

Wrap(x) == ((x + MaxInt + 1) % (2 * (MaxInt + 1))) - MaxInt - 1
Times(x, y) == Wrap(x * y)

\* Mutant: the product is not split.
NaiveTarget(elapsed) == Times(Rate, elapsed) \div Second
TransactionTarget(elapsed) ==
    Wrap(Times(elapsed \div Second, Rate) + Times(elapsed % Second, Rate) \div Second)

ReadTarget ==
    /\ phase = "loop" /\ Rate > 0 /\ ~Over
    /\ readAt' = clock /\ expected' = TransactionTarget(clock)
    /\ phase' = IF Len(stamp) >= expected' THEN "wait" ELSE "batch"
    /\ UNCHANGED <<clocks, submittedAt, stamp, outbox, leader, losses>>

(* Ticks only wake the loop; they do not stand for arrivals. *)
Wake ==
    /\ phase = "wait"
    /\ phase' = "loop"
    /\ UNCHANGED <<clocks, pace, submittedAt, stamp, outbox, leader, losses>>

\* Mutant: the clock is read once for the whole batch.
ReadBefore == ~cancelled /\ readAt < Deadline
StillMeasured == ~Over

CreateTransaction ==
    /\ phase = "batch" /\ outbox = {} /\ Len(stamp) < expected
    /\ StillMeasured
    /\ phase' = "create" /\ submittedAt' = clock
    /\ UNCHANGED <<clocks, pace, stamp, outbox, leader, losses>>

CountTransaction ==
    /\ phase = "create"
    /\ phase' = "batch" /\ stamp' = Append(stamp, submittedAt) /\ outbox' = Targets
    /\ UNCHANGED <<clocks, pace, submittedAt, leader, losses>>

LastTx == Len(stamp)

Lost == losses.failed < MaxFailures /\ losses' = [losses EXCEPT !.failed = @ + 1]

SendToLeader ==
    /\ Leader \in outbox /\ outbox' = outbox \ {Leader}
    /\ \/ queue' = Append(queue, [tx |-> LastTx]) /\ UNCHANGED losses
       \/ Lost /\ UNCHANGED queue
    /\ UNCHANGED <<clocks, phase, pace, submittedAt, stamp, stored, storing, reported, hosting,
                   counts, monitor>>

SendToOthers ==
    /\ Others \in outbox /\ outbox' = outbox \ {Others}
    /\ \/ reported' = reported \cup {LastTx} /\ UNCHANGED losses
       \/ Lost /\ UNCHANGED reported
    /\ UNCHANGED <<clocks, phase, pace, submittedAt, stamp, worker, hosting, counts, monitor>>

BatchDone ==
    /\ phase = "batch" /\ outbox = {} /\ Len(stamp) >= expected
    /\ phase' = "loop"
    /\ UNCHANGED <<clocks, pace, submittedAt, stamp, outbox, leader, losses>>

StopSubmitting ==
    /\ \/ phase \in {"loop", "wait"} /\ Over
       \/ phase = "loop" /\ Rate = 0
       \/ phase = "batch" /\ outbox = {} /\ Len(stamp) < expected /\ ~StillMeasured
    /\ phase' = "done"
    /\ UNCHANGED <<clocks, pace, submittedAt, stamp, outbox, leader, losses>>

-----------------------------------------------------------------------------
(* The leader's message worker: one message at a time. *)

\* Mutant: a second worker goes on while the first is in a handler.
ManyWorkers == TRUE
WorkerFree == storing = NoTx

HandleTransaction ==
    /\ WorkerFree /\ storing = NoTx /\ queue # <<>> /\ "tx" \in DOMAIN Head(queue)
    /\ queue' = Tail(queue) /\ storing' = Head(queue).tx /\ stored' = stored \cup {storing'}
    /\ UNCHANGED <<clocks, submitter, reported, hosting, counts, monitor, losses>>

RecordTransaction ==
    /\ storing # NoTx /\ Unlocked
    /\ timed' = timed \cup {storing} /\ storing' = NoTx
    /\ UNCHANGED <<clocks, submitter, queue, stored, reported, hosting, output, finalized,
                   samples, monitor, losses>>

HandleVerified ==
    /\ WorkerFree /\ queue # <<>> /\ "ack" \in DOMAIN Head(queue)
    /\ queue' = Tail(queue) /\ verified' = verified \cup {Head(queue).ack}
    /\ UNCHANGED <<clocks, submitter, stored, storing, reported, proposer, candidate, verifying,
                   finalizeTime, counts, monitor, losses>>

-----------------------------------------------------------------------------
(* The proposer: the evidence names only contents the leader can resolve,    *)
(* and nothing is committed that the others have not acknowledged.           *)

ConstructCandidate ==
    /\ proposer = "idle"
    /\ \E txs \in (SUBSET ((stored \cap reported) \ output)) \ {{}} :
        /\ candidate' = txs /\ verifying' = verifying \cup {txs}
    /\ proposer' = "waiting"
    /\ UNCHANGED <<clocks, submitter, worker, reported, verified, finalizeTime, counts, monitor,
                   losses>>

OthersVerify(txs) ==
    /\ txs \in verifying
    /\ verifying' = verifying \ {txs} /\ queue' = Append(queue, [ack |-> txs])
    /\ UNCHANGED <<clocks, submitter, stored, storing, reported, proposer, candidate, verified,
                   finalizeTime, counts, monitor, losses>>

CheckContext ==
    /\ proposer = "waiting" /\ candidate \in verified /\ ~Over
    /\ proposer' = "checked"
    /\ UNCHANGED <<clocks, submitter, worker, reported, candidate, verifying, verified,
                   finalizeTime, counts, monitor, losses>>

(* A rejected or failed attempt; after Over there is none that is retried. *)
AbandonPending ==
    /\ proposer = "waiting"
    /\ Over \/ losses.abandoned < MaxAbandons
    /\ losses' = [losses EXCEPT !.abandoned = IF Over THEN @ ELSE @ + 1]
    /\ proposer' = IF Over THEN "stopped" ELSE "idle"
    /\ UNCHANGED <<clocks, submitter, worker, reported, candidate, verifying, verified,
                   finalizeTime, counts, monitor>>

LockCommit ==
    /\ proposer = "checked"
    /\ proposer' = "committing" /\ finalizeTime' = clock
    /\ UNCHANGED <<clocks, submitter, worker, reported, candidate, verifying, verified, counts,
                   monitor, losses>>

Measured == finalizeTime < Deadline

CommitPending ==
    /\ proposer = "committing"
    /\ finalized' = IF Measured THEN finalized + Cardinality(candidate) ELSE finalized
    /\ samples' = IF Measured THEN samples + Cardinality(candidate \cap timed) ELSE samples
    /\ timed' = timed \ candidate /\ output' = output \cup candidate
    /\ proposer' = "idle"
    /\ UNCHANGED <<clocks, submitter, worker, reported, candidate, verifying, verified,
                   finalizeTime, monitor, losses>>

-----------------------------------------------------------------------------
(* monitorWithLeader after the end of the experiment *)

\* Mutant: the report does not wait for the submitter.
AtOnce == Over
SubmissionOver == Over /\ phase = "done"

ReadLock == Unlocked

GetMeasurementStats ==
    /\ SubmissionOver /\ stats = NoStats /\ ReadLock
    /\ stats' = [finalized |-> finalized, samples |-> samples]
    /\ UNCHANGED <<clocks, submitter, worker, reported, hosting, counts, report, losses>>

FinalReport ==
    /\ stats # NoStats /\ report = NoReport
    /\ report' = IF clock < Deadline THEN [kind |-> "invalid"]
                 ELSE [kind |-> "results", submitted |-> Len(stamp),
                       finalized |-> stats.finalized, samples |-> stats.samples]
    /\ UNCHANGED <<clocks, submitter, worker, reported, hosting, counts, stats, losses>>

-----------------------------------------------------------------------------
Next ==
    \/ Tick \/ Cancel
    \/ ReadTarget \/ Wake \/ CreateTransaction \/ CountTransaction \/ SendToLeader
    \/ SendToOthers \/ BatchDone \/ StopSubmitting
    \/ HandleTransaction \/ RecordTransaction \/ HandleVerified
    \/ ConstructCandidate \/ CheckContext \/ AbandonPending \/ LockCommit \/ CommitPending
    \/ \E txs \in verifying : OthersVerify(txs)
    \/ GetMeasurementStats \/ FinalReport

Spec == Init /\ [][Next]_vars

-----------------------------------------------------------------------------
(* Properties. *)

(* Every variable has the type its declaration gives it. *)
TypeOK ==
    /\ clock \in 0 .. Horizon /\ cancelled \in BOOLEAN
    /\ phase \in {"loop", "wait", "batch", "create", "done"}
    /\ readAt \in 0 .. clock /\ submittedAt \in 0 .. clock
    /\ expected \in 0 .. MaxInt /\ outbox \subseteq Targets
    /\ stamp \in Seq(0 .. clock) /\ reported \subseteq 1 .. Len(stamp)
    /\ stored \subseteq 1 .. Len(stamp) /\ storing \in stored \cup {NoTx} /\ timed \subseteq stored
    /\ proposer \in {"idle", "waiting", "checked", "committing", "stopped"}
    /\ candidate \subseteq stored \cap reported /\ output \subseteq stored
    /\ verifying \subseteq SUBSET stored /\ verified \subseteq SUBSET stored
    /\ queue \in Seq([tx : 1 .. Len(stamp)] \cup [ack : SUBSET stored])
    /\ finalizeTime \in 0 .. clock /\ finalized \in Nat /\ samples \in Nat
    /\ stats \in [finalized : Nat, samples : Nat] \cup {NoStats}
    /\ report \in [kind : {"results"}, submitted : Nat, finalized : Nat, samples : Nat]
                  \cup [kind : {"invalid", "none"}]
    /\ losses \in [failed : Nat, abandoned : Nat]

(* The generator keeps "floor(rate * elapsed_seconds)" (benchmark/README):   *)
(* no transaction is created before it is due, however late the loop was,    *)
(* "delayed or dropped ticks do not discard arrivals", and at rest nothing   *)
(* that was due when the target was read is missing, although                *)
(* Rate * elapsed does not fit the machine integer.                          *)
KeepsToTarget ==
    /\ \A k \in DOMAIN stamp : k * Second <= Rate * stamp[k]
    /\ phase = "wait" => Len(stamp) = (Rate * readAt) \div Second

(* "no transactions are generated after the cutoff" (benchmark/README), not  *)
(* even to catch up after a send that blocked across it.                     *)
WithinWindow == \A k \in DOMAIN stamp : stamp[k] < Deadline

(* Every measured commit has its latency sample, or the whole run is         *)
(* reported invalid: the worker stores a transaction's content before it     *)
(* records its submission time, and the proposer may use the content in      *)
(* between, but the worker that hands over the acknowledgements is the same. *)
EverySampled == samples = finalized

(* What the report of an uninterrupted run says is final: no          *)
(* transaction and no commit that had begun by the deadline is missing.      *)
ReportFinal ==
    report.kind = "results" /\ ~cancelled =>
        /\ report.submitted = Len(stamp)
        /\ report.finalized = finalized /\ report.samples = samples
        /\ finalized <= report.submitted
=============================================================================
