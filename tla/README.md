# Verification of AUTIG

TLA+ models of AUTIG (`src/`), a fair-ordering engine: replicas send chunks of
the order in which they first received transactions, a fixed leader builds from
them a dependency graph and outputs the part of it whose order is settled, and
the other replicas check that output against the evidence before a hosting gate
commits it. The models are checked with TLC on small instances; the theorems are
proved with TLAPS for every value of the constants.

## 1. The system

| Component | Source | State | Operations |
|---|---|---|---|
| Order leader pipeline | `pkg/ofo/service.go` | `pending`, the collector's orders, `UtigManager` | `runCollectorStage`, `runProposerStage`, `constructCandidate`, `CommitPending`, `AbandonPending`, `Stop` |
| Replica evidence submission | `pkg/ofo/service.go` | `observed`, `receiptQueue`, `localOrderPending` | `HandleMessage` (Transaction), `GenerateAndSendLocalOrder`, `applyCommittedLocalOrder` |
| Follower | `service.go`, `auth_adapter.go` | `committed`, `pending` | `verifyCandidate`, the acknowledgement, `CommitPending` |
| Hosting gate | `auth_adapter.go` | `accepted`, the channel `verified` | `Propose` |
| Evidence state | `pkg/ofo/dependency.go` | logs, positions, visibility, weights, states, `Done` | `applyEvidence`, `finalize` |
| Dependency graph | `dependency.go` | nodes, weights, edges, inverse edges | `refresh`, `removeFinalized`, `buildProposal` |
| Certificate check | `dependency.go` | none | `verifyStructuralCertificate` |
| Start barrier | `auth_adapter.go`, `pkg/main.go`, `network.go` | `readySenders`, `startChan`, the registered handler | `Register`, the ready loop, the leader's and followers' handlers |
| Composition | `pkg/main.go`, `auth_adapter.go` | contexts, finish barrier | submitter, local-order ticker, deadline, finish exchange |
| Measurement and report | `pkg/main.go`, `service.go` | `txCounter`, submission times, measured counters | `submitTransactions`, `CommitPending`, `GetMeasurementStats`, the leader's monitor |
| Transport | `pkg/network/network.go` | connections, `connAttempts`, receive queue, one message worker | `Send`, `messageWorker`, `tryConnect`, `handleIncomingConnection` |
| Wire digests | `pkg/types/type.go`, `pkg/ofo/dependency.go` | none | the digests of orders, states and candidates |
| Key files, diagnostics, benchmark scripts | `cmd/`, `pkg/diagnostics`, `benchmark/` | none of the protocol's | |

How they interact. A transaction goes from the submitter to every replica, one
send after the other, on the leader's connections. Each replica's ticker samples
the head of its receipt queue, signs the chunk and sends it to the leader, and
sends it again until it is committed. The leader's collector takes one chunk of
each of the n-f replicas scheduled for the next fragment, the proposer applies
them to a clone of the committed state, derives the output and its certificate
and hands the candidate to the gate. The gate broadcasts it on the same
connections, waits for n-f acceptances, commits at the leader and announces the
commit. A follower applies the same evidence to its own committed state, checks
the certificate without any graph, and keeps the candidate pending until the
commit names its digest.

All of this runs on one message worker per replica, which hands local orders to
the collector and acknowledgements to the gate through channels of limited
capacity and blocks when one is full, and on one connection per pair of replicas,
which either end may lose and the one with the lower identifier dials again. A run
begins when the leader has counted a Ready message of every replica and told
everybody to start, and ends when the leader has the answer of every follower to
its finish marker; the leader's process then reports what its submitter and its
proposer have counted.

What is hard about it:

* transactions, candidates, commits and the finish marker share FIFO connections
  that are filled by several goroutines;
* attempts are abandoned after some followers have verified them, and followers
  never abandon; late acknowledgements are read by the next attempt;
* a chunk is retained and re-signed over fragments its replica is left out of;
* the deadline may fall between any two steps;
* positions, weights and edges are maintained incrementally while transactions
  leave them and are reported again;
* one worker blocks on either of two channels that different goroutines read, and
  what would make them read may be behind the message it holds;
* Ready, Start and transactions share connections, a Start may reach a replica
  whose handler is not there yet, and its loss is not noticed;
* goroutines of a broken connection go on beside those of its successor;
* content is stored, timed, committed and counted by different goroutines, and
  the report reads the counters right at the deadline.

`PROJECT.json` lists each hazard with its line and the properties about it.

What makes each component correct: a replica's installed history is a prefix of
the leader's and backed by n-f replicas (pipeline, gate, follower); a log is a
contiguous first-receipt log and is never signed twice differently (evidence
submission); abandoned attempts and their leftovers do not stop the pipeline as long
as no channel is full (section 3 says when one is), what the leader commits follows
every candidate a follower has verified, and the final state reaches everybody when
every replica must verify (composition); caches and graph equal their definition on the logs, the output
respects every quorum preference, holds nothing back needlessly and only grows
(evidence state, graph); the check accepts what a correct leader builds, and
nothing else (certificate); nobody starts before everybody is ready and everybody
starts (start barrier); the load keeps to its target and the report is complete
and final (measurement); both ends of a pair settle on one live stream and nothing
arrives out of order at the dialer (transport); no two things hash the same bytes
(wire digests).

## 2. Modules

    AgreedLog  <--- implemented by --- FragmentReplication --- MCFragmentReplication
                                              |
                                    FragmentReplicationProofs

    EvidenceState <- DependencyManager <- StructuralCertificate <- EvidenceEngine
                                                                      |      |
                        MCEvidenceEngine ---> GraphAlgorithms -+      |
                               |                    ^                 |
                               |         GraphAlgorithmsProofs        |
                               |                    |                 |
                               |         EvidenceEngineProofs         |
                               |                    |                 |
                               +----------> CertificateSoundness -----+

    HostingGate <- MCHostingGate, HostingGateProofs

    OneShotBarrier  <--- implemented by --- StartBarrier <- MCStartBarrier
                                                 |
                                         StartBarrierProofs

    Connections <- MCConnections, ConnectionsProofs
    Measurement <- MeasurementProofs
    WireEncoding <- WireEncodingProofs

(An arrow to the left or right points at the module that is extended.)

`FragmentReplication` is the protocol. A digest is modelled by what it commits
to: a history is the sequence of evidence batches up to a fragment, which
determines the final order, the certificate and the state identifiers. `committed`
is `s.committed`, `pending` the history that `s.pending` would install,
`localOrderPending` the retained chunk, `down[r]` the FIFO connection from the
leader, `acks[r]` the connection back up to `hosting.verified`, `phase` the
position of the leader's collector, proposer and main goroutines, `collected` the
collector's orders, `todo` the rest of a fan-out, `confirmed` the map `accepted`
(later `finishedPeers`). The actions are the handlers: `SubmitTransaction` and
`SendTransaction` (submitter), `GenerateAndSendLocalOrder` (ticker),
`CollectLocalOrder` and `DropLocalOrder` (collector), `ConstructCandidate`,
`SendCandidate`, `ReceiveVerified`, `AbandonExpired`, `CommitCandidate`,
`SendCommit`, `EndRound` (proposer and `Propose`), `HandleTransaction`,
`HandleCandidate`, `HandleCommit`, `HandleFinish` (message workers), `Expire`,
`Stop`, `SendFinish`, `ReceiveFinish`, `ShutDown` (end of a run) and
`BreakConnection` (transport). Local orders reach the collector in any order.

`AgreedLog` is what replication promises: one log that is only extended, and
learners that learn its entries in order. `ImplementsAgreedLog` maps the log to
the leader's committed history and a learner to a follower's.

`EvidenceState`, `DependencyManager` and `StructuralCertificate` are the pure
algorithms of `dependency.go` as operators on records: `ApplyEvidence` returns
the new state with the touched nodes and pairs, `Refresh` updates the graph from
them, `BuildProposal` derives the output with its certificate, `FinalizeState`
and `RemoveFinalized` purge it, `VerifyCertificate` is the follower's check. A
head is the whole log that the hash chain commits to. Tarjan's algorithm is
modelled by its result, mutual reachability (step by step in `GraphAlgorithms`); Kahn's order, the breadth-first
trees and the block forest follow the code, with the smallest identifier first.

`EvidenceEngine` drives them as the leader does: orders are collected, a
candidate is built on copies, and a commit installs it or an abandon forgets it.
The replicas' logs are arbitrary sequences without repetition, so every evidence
batch the protocol can produce is among them.

`GraphAlgorithms` has Tarjan's search and Kahn's sort as the code runs them, with
stack, indices, links and the sorted ready list, compared with the definitions of
`DependencyManager` on the graphs that candidates are built from. The recursion of
`connect` is a list of the calls under way (`calls`) and, for each, the neighbours its
loop has still to look at (`left`); a step visits a neighbour, ends the innermost call
or starts the next one, and a function counts the steps. `CertificateSoundness` enumerates every final order and
every certificate a leader could send instead of its own for the same evidence;
what a follower accepts has the leader's final order. Only the certificate has
freedom, not the order it proves.

`HostingGate` has the goroutines of the leader and the channels between them:
`localOrderChan`, `hosting.verified` with room for 2n messages, the message the
worker is blocked with, the collector collecting or draining, the proposer in and
around `Propose`, and the main goroutine at the end of a run. What
`FragmentReplication` establishes is used to leave the content of messages out: a
retry rebuilds the same digest (`SingleHistory`) and a complete batch is applied
(`BatchApplicable`), so a candidate is the number of its fragment, and all a
follower may lack is a transaction the submitter sends it late. Failed sends of
commits are left to `FragmentReplication`.

`StartBarrier` has the ready loop of every replica, the handler that
`net.Register` sets without the worker's knowledge, the leader's count and
fan-out, the answer to a late Ready, and the submitter's first transactions on the
same connections; `missed` holds the followers that may have missed a Start.
`OneShotBarrier` is what it promises: parties arrive, and pass when all have
arrived. `ImplementsBarrier` maps arriving to registering the handler and passing
to leaving the loop.

`Connections` is one pair of replicas, which is independent of every other:
dial, handshake, the `connections` table of each end, a sender that looks the
stream up and then writes, one reader per stream, the message queue, replacement
and removal. `BreakStream` stands for a network failure and for a write that
exceeds its five seconds.

`Measurement` is the leader's process around the deadline: the submitter's pace in
machine arithmetic, the worker that stores content and then records its time,
commits under the lock, and the monitor's final report.

`WireEncoding` writes what is hashed as sequences of cells, in the order the code
writes them, with counts and tags; fields of constant width that everything has
are left out. A nil and an empty list encode alike, and a root's parent is written
as zeros after a tag, as in the code.

## 3. Checks

| Run | Instance | Shows |
|---|---|---|
| `replication_faults` | N=3, F=0, 2 transactions, chunks of 2, 2 fragments, 1 fault, backlog 1, replica 1 reverses; constraint `BeforeDeadline` | `SingleHistory`, `CommitFindsCandidate`, `BatchApplicable`, `LogFollowsReceipt`, `ImplementsAgreedLog` |
| `replication_rotation` | N=5, F=1, 1 transaction, 2 fragments, no fault; constraint `Lockstep` | `Agreement`, `QuorumBacked`, `NoEquivocation`, `CommitOwed` |
| `replication_liveness` | N=3, F=0, 1 transaction, 2 fragments, no fault, `FairSpec`; action constraints `Patient`, `OneAtATime` | `Progress`, `FinishArrives`, `FinalPrefixReceived` |
| `replication_final_prefix` | N=5, F=1, 1 transaction, 1 fragment, no fault; constraint `Committing` | violates `FinalPrefixReceived` |
| `engine_cycles` | 3 replicas, F=0, qH=2, 3 transactions, chunks of 3, 2 fragments | `CertificateAccepted`, `TarjanExact`, `KahnExact`, `OneOrderAccepted` |
| `engine_fairness` | 5 replicas, F=1, qH=4, 2 transactions, chunks of 2, 3 fragments | `CachesExact`, `GraphExact`, `BatchOrderFairness`, `OnlyShadedBlocks`, `OneOrderAccepted`, `OutputGrows` |
| `gate_channels` | N=2, F=0, order channel of 1, 2 fragments, 1 fault, 1 late transaction, `FairSpec` | `OnlyVerificationsRead`, `Progress`, `OrdersNeverBlock`, `FinishCompletes` |
| `gate_backlog` | N=5, F=1, order channel of 1, 3 fragments, 3 faults, 1 late transaction; constraints `NoDeadline`, `OrdersInTurn`, `Lockstep`, `LastFailure` | `WedgeNeedsRetries` |
| `barrier` | N=3 in two processes, 1 Ready in flight, 1 transaction, 2 faults, `FairSpec` | `StartBeforeTransactions`, `HandlersBeforeExperiment`, `ImplementsBarrier`, `EverybodyStarts` |
| `connections` | 2 messages to the dialer, 1 to the acceptor, 2 breaks, 6 streams, `FairSpec` | `DialerOrder`, `NoOrphanStream`, `RedialsBounded`, `Reconnects` |
| `measurement` | 2 transactions a second of 3 units, deadline at 5, clock to 6, integers to 7 | `KeepsToTarget`, `WithinWindow`, `EverySampled`, `ReportFinal` |
| `wire_encoding` | 3 cells, hashes of 2 cells, lists up to 2 | `SelfDelimiting` |

**The disagreement found.** `replication_final_prefix` needs no failure. With
n=5 and f=1 the submitter has sent a transaction to replicas 0 to 3 when they
report it and the leader proposes it; the candidate overtakes the last send.
Replica 4 rejects it because it lacks the content, the other four are enough to
commit, and the commit finds nothing pending (`BENCHMARK INVALID: commit without
matching verified candidate`). Nothing lets replica 4 catch up, so it reaches the
finish marker behind the leader, where `main.go:329` says "Keep receiving the
final committed prefix after measurement stops." With F=0 the leader waits for
every replica and the property holds (`replication_liveness`). A rejection that the
gate does read makes it abandon the attempt; the retry succeeds (`Progress`). Of a
follower that did verify, only later than the gate waited for, `CommitOwed` says that
its commit still comes, for every F.
A replica left behind is also scheduled again before long, and since the senders of
a fragment are fixed the collector then waits for it for good, a stall that
`benchmark/README.md` knows of ("no handoff is implemented").

**What a reader of the code may want to know.**

* The leader can stand still without any failure (`Wedged` in `HostingGate`). A
  rejection abandons the attempt and leaves the other acknowledgements unread, and
  each stale rejection of the same fragment abandons a further attempt. A
  transaction late at all four followers of n=5 for one attempt is enough: four
  rejections, four abandoned attempts, 4*3 = 12 > 10 unread messages; the worker
  then blocks on `hosting.verified` with the local orders of the next attempt behind
  it, until the finish loop drains the channel. `WedgeNeedsRetries` bounds what it takes
  from below: an abandoned attempt leaves n-2 acknowledgements unread at most, a
  committed one f, and older fragments f, f-1, .. 1 more, of followers that were left
  out of every batch since; only more than 2n of them fill the channel. For n=5 that
  takes three abandoned attempts (`gate_backlog` reaches a state where three do it),
  and by this count omissions alone need f >= 14. A run with a rejection is already
  reported as "BENCHMARK INVALID", and nothing in the repository claims otherwise.
* A broken stream may cost two redials (`RedialsBounded` is tight): when the
  acceptor completes the broken stream's handshake late, it closes its successor.
* Across a reconnection the acceptor may enqueue a later message first, since the
  readers of both streams run. `DialerOrder` holds because the dialer dials again
  only after its old reader has gone. A reader that is blocked on a full message
  queue thus delays the redial until the queue is drained.
* The report of an interrupted run may miss a commit: the monitor may read the
  counters before the clock reaches the deadline and look at the clock after it.
  `ReportFinal` is about runs that are not interrupted.
* `EverySampled` rests on the single message worker: the acknowledgements of a
  candidate are handed over after the submission times of its transactions have
  been recorded.

**Bounds and why they are enough.** `MaxSeq` bounds the fragments of a behaviour,
`MaxFaults` failed sends and broken connections together, `MaxBacklog` what a
connection to a follower and back holds when a new attempt starts, `LoMax` is the
configured chunk size. Two fragments show every dependence of one round on the one
before (retained chunks, stale acknowledgements, late commits); one fault can hit
any send or connection at any point, and the retry then runs over what it left
behind; a backlog of one is what lets an abandoned attempt's acknowledgement meet
the retry. `replication_faults` is checked up to the fan-out of the last commit
and before the deadline, with orders sampled and collected in increasing order
when the collector waits for them, and what is ever received of the transactions
received by the first commit; every loss, attempt, retry and stale
acknowledgement remains free. The deadline and the end of a run are in
`replication_liveness`. N >= 4F+1 follows from the check in `NewOFOService`
(gamma <= 1), so five replicas are the fewest that tolerate a fault and rotate
their senders; that instance is checked under `Lockstep`: one local order in flight
and, besides the replica that the second fragment does without, one replica with
undelivered messages at a time, transactions sent in the first round, and the end at
the second commit. The replica left out may lag until the leader has committed both
fragments and then verify the first, which is the case `CommitOwed` is about.
None of the four properties of that run rests on that part: they are proved. The
violation run explores the part in `Committing`, where its counterexample lies.

The liveness run needs two followers, so that one attempt can be abandoned on the
answer of one while that of the other is still unread or not yet given: the retry
then reads a stale rejection of a follower that has accepted meanwhile, or counts a
stale acceptance while its own candidate is under way, and the next fragment reads
what the last attempt left. (TLC reaches each of these.) Two action constraints delay
steps. `Patient`: an attempt may start while a transaction is on its way and be
refused for it, but the next one starts when no transaction is under way, unless
nothing of earlier attempts is left. Without it nothing limits the attempts that are
refused for the same late content, and each leaves answers behind; in the model the
connections grow, in the code `hosting.verified` fills, which `HostingGate` shows.
`OneAtATime`: one local order in flight, and more are dropped one after the other. Both
let the delayed step happen later, since transactions arrive and orders are read, so
`Progress` is not met by a behaviour that merely stops; it is about the schedules in
which content that came too late for one attempt is there for the next, or nothing of
the attempt is left.

Three transactions are the fewest that form a cycle and a component with
something before or after it; three replicas with qH=2 give the Condorcet cycle
and transactions blank below 2 reports; `engine_cycles` compares the algorithms and
the certificates on the candidates of the first fragment (`MaxCompared` = 1), whose
orders are all permutations; five replicas with F=1 and qH=4 are the fewest that
tolerate a fault, with all three transaction states, edges that change direction
and solid transactions without a preference. Replicas are interchangeable in
`EvidenceEngine`, where nothing looks at their identity, and transactions in
`FragmentReplication`, hence the symmetries; rotation and fan-out use the replicas'
identifiers and are not permuted.

In `HostingGate` the order channel has the smallest capacity, 1 (512 in the code),
which blocks earliest. Two replicas are enough for the liveness properties, where what
matters is one worker, one collector and one proposer, and the order channel is the
one that is full (`hosting.verified` never is there, and holds no stale rejection: they
say nothing about it). `gate_backlog` has the five replicas for which the channel of
2n can be filled within three rounds, and looks at one follower's messages at a time, except
that in runs without rejections the follower left out of the second batch may lag
behind on its own (`Lagging`), which is where its answers become stale, and that the
third failed send is looked at in the last fragment of such a run only
(`LastFailure`). `MaxAttempts`
bounds the attempts made before late content arrives: without it the retries of
an unlucky schedule have no bound and the channel always fills. In `StartBarrier`
two replicas share a process, as the code allows, and two faults can lose a Start
and the Ready that would be answered. In `Connections` two breaks show what a break
does to what the last one left behind; one stream and two redials per break fit in
six. In `Measurement` the machine integer of 7 makes `Rate * elapsed` overflow
within the run while the split computation does not, as 64 bits do in the code.
`WireEncoding` needs two cells for a hash so that a list element can be confused with
a shorter thing, and lists of two so that their border can move.

Deadlock is not checked: a run ends (`phase = "done"`, `main = "done"`, everybody
started, the report written, or nothing left to send), and in the bounded instances
when every fragment is committed.

**Fairness.** In `FragmentReplication`, weak fairness for the submitter, the
leader's pipeline and main loop, each ticker, the collector for each sender, each
message worker, and the gate's receive from each replica: every one is a goroutine
that loops, blocked only by what its action's guard says. A ticker fires again and
again, and an enabled send on a working connection completes. Nothing is assumed
of the deadline, failures or lost connections: `Progress` holds or the deadline
has come. That run has no fault, since a lost transaction, candidate or commit
is never sent again by this code; `gate_channels` has one, on a candidate whose
transaction is there. That what a follower is owed (`CommitOwed`) reaches it is then
a matter of its message worker. In `HostingGate` and `StartBarrier` the leader's one worker
serves every connection, so its handling of a message of a given replica is
strongly fair: it is disabled while the worker is busy or the channel full, and
readers put messages into one queue in the order they come. `StopProposer` is
strongly fair because Go's select picks among ready cases at random. In
`Connections` the connection manager ticks and goroutines go on; nobody has to
send, since a broken TCP stream is noticed by its keep-alive. No run assumes that
a fault happens, or that the deadline comes.

## 4. Proofs

`FragmentReplicationProofs` (for every N >= 4F+1, leader, set of misbehaving
replicas, set of transactions and bounds):

* `TypeCorrect`: `Spec => []TypeOK`.
* `ReplicationCorrect`: `Spec => []ReplicationInv`, the inductive invariant.
* `AgreementHolds`, `QuorumBackedHolds`: from it.
* `Refinement`: `Spec => ImplementsAgreedLog`.
* `CommitsFindCandidates`: `Spec => [](F = 0 => CommitFindsCandidate)`.
* `FinalPrefixHolds`: `Spec => [](F = 0 /\ faults = 0 => FinalPrefixReceived)`.
* `CommitOwedHolds`: `Spec => []CommitOwed`.

`Agreement` alone is not inductive: a follower installs what is pending, so
pending candidates must extend their replica's log by one fragment
(`CandidateExtends`), there must be one while the leader proposes
(`PhaseHistory`), and the history that a commit in flight names must be a prefix of
the leader's log (`MessagesSound`); an acceptance that is still queued must be
backed by its sender, which either still has the candidate pending or has installed it (`AcksSound`), and what the
gate has counted likewise (`ConfirmedHold`). The last two carry `QuorumBacked`
over a retry: a stale acceptance counts only if its digest is the new candidate's,
and then its sender holds that candidate, because a follower gives a candidate up
only by installing it. `AcksSound` also shows that no finish acknowledgement is
in the channel while `Propose` reads it, where a type assertion would fail. The
proof has one step for each action; it uses no bound except to know that they are
natural numbers. `CommitsFindCandidates` adds `CommitSound`: with F=0 the gate has
counted every replica, so at the leader's commit each follower has the candidate
pending and no older commit on its connection, and it keeps the candidate until
that one commit is read. `FinalPrefixHolds` adds `Delivered`: while nothing has been
lost, each commit of the leader is, for each follower, still to be sent by the fan-out,
on its connection in front of any finish marker, or installed. Both hypotheses are
needed: the run `replication_final_prefix` shows what happens with F=1, and after a
lost commit the follower cannot have it. `CommitOwedHolds` holds for every F. Its
invariant `Owed` also looks at the candidates a follower has not read yet: once the
leader has committed what such a candidate holds, the commit is still to be sent or is
on the connection behind the candidate (`Coming`), so it is there when the follower
verifies. A commit decides nothing new but the history it installs (`NewlyDecided`).

`NothingSignedTwice`
(`NoEquivocation`) and `RetriesAgree` (`SingleHistory`) follow from `SigningCorrect`. A
replica signs for the fragment after its last one, and what it has signed for that
fragment is its `localOrderPending` (`SignedSound`), so signing again repeats it.
What the collector holds comes from the senders scheduled for the next fragment
(`CollectedSound`), and every history in the system is on the leader's log or
extends it by n-f such orders (`HistoriesOnLog`). Two such batches hold an order of
every scheduled replica, because the rotation is injective and there are n-f places
(`BatchUnique`); signed once, they are the same orders.

`BatchesApply` (`BatchApplicable`) and `ReceiptOrderKept` (`LogFollowsReceipt`) follow from
`ReceiptCorrect`. At every replica the queue holds what was received and not
logged, in the order of receipt (`QueueOf`), the waiting chunk is its front
(`ChunkSound`) and the log follows the receipts (`LogSound`). These are kept because
an installed fragment holds either the waiting chunk of the replica, which then
leaves the queue, or nothing of it (`OwnOrder`, `InstallSound`). What the collector holds is
signed for the fragment after the leader's last one; its replica must then have the
leader's log (`CurrentOrder`), so the chunk extends that. The log of a replica in
the leader's history is the replica's own log, and after it at most the waiting
chunk, which `FollowsNext` shows to be the next in the order of receipt.

`EvidenceEngineProofs` (for every set of replicas, finite set of transactions, chunk
size and all thresholds that `NewOFOService` accepts):

* `CachesExactHolds`, `GraphExactHolds`, `OutputGrowsHolds`, from `EngineInvariant`.
  The two equalities are not inductive alone: a commit installs what
  `constructCandidate` computed earlier, on a copy. `EngineInv` therefore says of
  the pending candidate which batch it was built from, and `CycleExact` is one cycle
  on arbitrary exact states: `AppliedExact` (each order of the batch adds to the
  counts what its first reports say, no reporter twice), `RefreshedExact` (a pair
  that is not dirty keeps its edges), `FinalizedExact` and `RemovedExact`.
* `BatchOrderFairnessHolds`: `QuorumOverlap` is the counting behind the check
  2*ceil(gamma*(n-f)) >= n+2f+1, and `FairPairHasEdge` draws from it that two live
  transactions, one of them solid and a quorum preferring the other, have the edge in
  that direction only. What is output follows every predecessor
  (`ReachabilityLeast`, `TopoSortOrdered`), which settles the pair at that moment;
  `FairInv` keeps it settled, since what a replica logged before a logged
  transaction never changes.
* `OnlyShadedBlocksHolds`: the marks of the unsafe components are what the
  components that are not solid reach.
* `AcceptedIsProposal`, and `OneOrderAcceptedHolds` from it: a verifier sees no graph,
  but spanning trees of one component at a time, crossing pairs, ranks and a forest of
  blocked transactions. Every certificate that passes makes the parts of the order
  the selected components of the graph defined by the evidence, in the order of
  Kahn's algorithm.
* `ProposalAccepted`, and `CertificateAcceptedHolds` from it: the certificate that
  `buildProposal` makes passes each check. `SearchFindsReachable` is the search both
  trees and forest are made with.

Functions defined by recursion have no usable induction principle here, since the
library's theorems take an operator. What is needed of them is proved with bounded
induction on a set: every non-empty set of numbers has a least member
(`LeastNumber`), a set that holds 0 and with k-1 also k holds 0..n (`UpTo`), a step can
be iterated (`IteratesExist`), and a growing chain of subsets of a finite set stops
(`ChainStops`).

`GraphAlgorithmsProofs` (for every graph, hence in every state, with no invariant):

* `KahnIsTopoSort`, and `KahnExactHolds` (`KahnExact`) from it. Before each turn the
  indegree of a component counts its predecessors not emitted yet (`Missing`) and the
  ready list holds the components with none, in order (`SortStates`), so each turn
  emits what one step of `TopoSort` picks (`KahnStepNamed`), whatever positions
  Tarjan's search has given the components and whichever of them are included.
* `TarjanIsListing`, and `TarjanExactHolds` (`TarjanExact`) from it. `Explored` is the
  invariant of the search: a vertex whose call is under way leads to all that lies
  above it on the stack, and what lies on the stack leads to a call under way that is
  not above it (`Joined`); a lowlink is the place of a vertex on the stack that can be
  reached, and no higher than the edges already looked at lead (`Linked`); what has
  been emitted is closed under edges, and so is what has been left, but for the edges
  still to look at (`Followed`). When a lowlink equals its vertex's own index, what is
  popped is therefore one class of mutual reachability (`PopExplores`). Each step
  visits a vertex, ends a call or looks at an edge (`CountGrows`), of which there are
  at most 2 * nodes + edges (`CountBounded`); then every component has been
  emitted, once (`FinishedListing`).

`StartBarrierProofs` (for every number of replicas, assignment to processes and
bounds): `TypeCorrect`, `StartsFirst` (`StartBeforeTransactions`), `HandlersFirst`
(`HandlersBeforeExperiment`) and `BarrierRefinement` (`ImplementsBarrier`), from
`Invariance`, the inductive invariant: a Ready in flight or counted has a
registered sender, `started` means all were counted, whoever is open has been told,
and during the fan-out every follower that is not still to be told, and has not
missed it, has a Start in its connection or is open.

`ConnectionsProofs` (for every bound): `TypeCorrect`, `NothingOrphaned`
(`NoOrphanStream`) and `OrderAcrossReconnection` (`DialerOrder`), from `Invariance`:
at the dialer at most one stream is in a handshake or read, and `connAttempts` is set
while one is; messages in a stream, held by its reader and received are in
increasing order and none exceeds what has been sent. `RedialsBoundedHolds`
(`RedialsBounded`) adds the accounting: a break pays for the stream it kills and,
while the acceptor has not completed that stream's handshake, for the successor it
will then replace (`Paid`); nothing else kills a stream, and every stream but the last
is dead when the dialer dials.

`HostingGateProofs` (for every number of replicas, capacity and bound):
`TypeCorrect`, which includes that no channel exceeds its capacity, and
`GateReadsVerifications` (`OnlyVerificationsRead`), from `Invariance`: once the stages
have been waited for they stay stopped, and no finish acknowledgement exists before
the finish marker, which is sent after that.

`WedgeNeedsRetriesHolds` (`WedgeNeedsRetries`) needs to know how old an unread
acknowledgement can be, for which only followers left out of the batches since
matter. `Backlog` says why: a follower's order for a fragment is sent behind all its
answers for older ones (`Upward`) and reaches the one worker behind them, so when a
batch is complete the answers of its senders are in `hosting.verified` (`Arrived`,
`Cleared`), and the gate, which reads that channel in order, has read them before it
counts an answer for the new fragment. What is left is charged (`Accounted`): n-2 to
an abandoned attempt (the leader needs none and at least one was read), at most f to a
committed fragment, each as a debt of a follower that still owes the answer
(`Owing`). A follower that owes an answer of age k has been in none of the last k
batches; the rotation moves by one, so there are f - k + 1 such followers, and the debts lie
in a triangle (`DebtsBounded`). The proof uncovered that the statement checked
before, with f debts in all, holds for two fragments only.

`WireEncodingProofs` (for lists of any length, cells of any content and hashes of any
length): `DigestsDetermine` and `SelfDelimitingHolds` (`SelfDelimiting`). Two encodings
that agree as far as both go are of equal values (`Agree`): true of a cell and of a
hash, kept by concatenation, and by a list because its count comes first.

`MeasurementProofs` (for every rate, deadline, horizon and machine integer that
holds the final target): `TypeCorrect`, `OnTarget` (`KeepsToTarget`), `InWindow`
(`WithinWindow`), `AllSampled` (`EverySampled`) and `FinalReportHolds`
(`ReportFinal`), from `Invariance`. Its arithmetic is `TargetExact`: splitting whole
seconds from the rest yields floor(rate * elapsed) with no intermediate result
that exceeds the machine integer. The sampling part says where a transaction may be
before its time is recorded (in the worker's hands, and then in no acknowledged
candidate); the reporting part what the submitter and the proposer can still do
when the counters are read.

Assumptions, each evaluated by TLC in a run whose module extends theirs:
`ReplicaAssumption`, `BoundAssumption`, `ThresholdAssumption`, `TxAssumption`,
`MaxSeqAssumption`, `ComparedAssumption`, `BarrierAssumption`, `BarrierBounds`,
`ConnectionBounds`, `MeasurementAssumption`, `MeasurementBounds`,
`EncodingAssumption`.

Only model-checked: the liveness properties `Progress` (of both modules),
`FinishArrives`, `OrdersNeverBlock`, `FinishCompletes`, `EverybodyStarts` and
`Reconnects`. The prover has no rule for fairness of this kind.

## 5. Not modelled

* Digests are injective and signatures unforgeable; key files (input and output,
  no state shared with the protocol); gob, the transport encoding, a library.
* Byzantine leaders and replicas that deviate otherwise than by reversing their
  chunks, which is the only misbehaviour the code implements; its artificial delay
  is a slow ticker, which the models include.
* The exemption of finalized identifiers in `Applicable` of `FragmentReplication`
  (explained there); `EvidenceState` has it.
* The follower's cut-off after the measurement time plus 30 s, after which it leaves
  without the finish marker.
* `WaitForPeers`, the count of connected peers and the transport's `Stop`, which
  decide only whether the program starts or exits.
* Messages out of order after a reconnection at the acceptor: `FragmentReplication`
  keeps the order and loses messages instead, with the same effect on a commit that
  meets no candidate.
* The computation of ceil(gamma*(n-f)) in floating point (`service.go:78`): the
  resulting integer is a constant, of which the models require what
  `NewOFOService` checks.
* That the collector waits for good for a scheduled replica that is silent or
  behind (`service.go:293`): documented in `benchmark/README.md`; the liveness
  properties are stated for runs in which nobody is left behind.
* Latency sums, rates, spans and progress lines, `dm.txStates` (written and never
  read), the deployment and log scripts and the delay that the benchmark injects in
  one ticker.

## 6. Plan

Done: replication with its inductive invariant and refinement; the engine with its
algorithms step by step and its certificate against all others; the leader's
channels; the start barrier, the connections, the measurement and the digests; and
proofs of every safety property the passing runs check.

Left: `WaitForPeers` as a part of `StartBarrier`.
