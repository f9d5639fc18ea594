------------------------------ MODULE StartBarrier ------------------------------
(***************************************************************************)
(* The start of an experiment (pkg/auth_adapter.go, pkg/main.go).  Every    *)
(* replica, its mesh of connections complete, registers its handler and     *)
(* sends BenchmarkReady to the leader every 200 ms until its start channel  *)
(* is closed.  The leader collects the senders, sends BenchmarkStart to     *)
(* every follower and starts itself; a Ready that comes later is answered   *)
(* with another Start.  A process may run several replicas and begins the   *)
(* experiment when all of them have left the loop; the submitter runs in    *)
(* the leader's process.                                                    *)
(*                                                                          *)
(* Register writes the handler without a lock while the message worker      *)
(* reads it, so the worker may go on dropping messages for a while.         *)
(***************************************************************************)
EXTENDS Integers, Sequences, FiniteSets

CONSTANTS
    N,          \* number of replicas, identified by 0 .. N-1
    Leader,     \* the fixed order leader
    Process,    \* [Replicas -> process]: the process that runs a replica
    MaxReady,   \* bound: messages under way from and to a replica that sends Ready
    MaxTxs,     \* bound: transactions submitted
    MaxFaults   \* bound: failed sends and broken connections

Replicas == 0 .. N-1
Followers == Replicas \ {Leader}
Processes == {Process[r] : r \in Replicas}
Local(p) == {r \in Replicas : Process[r] = p}

ASSUME BarrierAssumption ==
    N \in Nat \ {0} /\ Leader \in Replicas /\ DOMAIN Process = Replicas

ASSUME BarrierBounds == MaxReady \in Nat \ {0} /\ MaxTxs \in Nat /\ MaxFaults \in Nat

VARIABLES
    registered,   \* replicas that have executed net.Register and run the ready loop
    visible,      \* replicas whose message worker sees the handler
    ready,        \* [Replicas -> Nat]: Ready messages on their way to the leader
    readySenders, \* senders the leader has counted
    started,      \* adapter.started of the leader
    fanout,       \* followers that the leader's worker has still to send Start
    down,         \* [Followers -> Seq]: from the leader to each follower, FIFO
    open,         \* replicas whose start channel is closed
    passed,       \* replicas that have left the ready loop
    running,      \* processes whose experimentStart is closed
    submitted,    \* transactions the submitter has begun to send
    outbox,       \* followers the current transaction has still to be sent to
    missed,       \* followers that a failed send, a lost connection or a worker without
                  \* handler may have cost a Start
    faults        \* failed sends and broken connections so far

barrierVars == <<readySenders, started, fanout>>
submitVars == <<submitted, outbox>>
networkVars == <<ready, down, missed, faults>>
vars == <<registered, visible, barrierVars, networkVars, open, passed, running, submitVars>>

Init ==
    /\ registered = {} /\ visible = {}
    /\ ready = [r \in Replicas |-> 0]
    /\ readySenders = {} /\ started = FALSE /\ fanout = {}
    /\ down = [f \in Followers |-> <<>>]
    /\ open = {} /\ passed = {} /\ running = {}
    /\ submitted = 0 /\ outbox = {}
    /\ missed = {} /\ faults = 0

IsNext(f, targets) == f \in targets /\ \A g \in targets : f <= g

(* network.Send puts the message on the connection or reports a failure. *)
Send(f, message) ==
    \/ down' = [down EXCEPT ![f] = Append(@, message)] /\ UNCHANGED <<missed, faults>>
    \/ /\ faults < MaxFaults /\ faults' = faults + 1
       /\ missed' = missed \cup {f}
       /\ UNCHANGED down

-----------------------------------------------------------------------------
(* The goroutine of each replica: net.Register, the ready loop, localStarted. *)

Register(r) ==
    /\ r \notin registered
    /\ registered' = registered \cup {r}
    /\ UNCHANGED <<visible, barrierVars, networkVars, open, passed, running, submitVars>>

HandlerVisible(r) ==
    /\ r \in registered \ visible
    /\ visible' = visible \cup {r}
    /\ UNCHANGED <<registered, barrierVars, networkVars, open, passed, running, submitVars>>

UnderWay(r) == ready[r] + IF r = Leader THEN 0 ELSE Len(down[r])

(* A failed send is repeated at the next tick. *)
SendReady(r) ==
    /\ r \in registered \ passed /\ UnderWay(r) < MaxReady
    /\ ready' = [ready EXCEPT ![r] = @ + 1]
    /\ UNCHANGED <<registered, visible, barrierVars, down, missed, faults, open, passed, running,
                   submitVars>>

\* Mutant: the ready loop ends without waiting for the start channel.
NotWaiting(r) ==
    /\ r \in registered \ passed
    /\ passed' = passed \cup {r}
    /\ UNCHANGED <<registered, visible, barrierVars, networkVars, open, running, submitVars>>

LeaveLoop(r) ==
    /\ r \in (registered \cap open) \ passed
    /\ passed' = passed \cup {r}
    /\ UNCHANGED <<registered, visible, barrierVars, networkVars, open, running, submitVars>>

AllStarted(p) == Local(p) \subseteq passed

BeginExperiment(p) ==
    /\ p \notin running /\ AllStarted(p)
    /\ running' = running \cup {p}
    /\ UNCHANGED <<registered, visible, barrierVars, networkVars, open, passed, submitVars>>

-----------------------------------------------------------------------------
(* The leader's message worker: HandleMessage(benchmarkReady). *)

ReadReady(r) ==
    /\ fanout = {} /\ (started <=> Leader \in open)
    /\ ready[r] > 0
    /\ ready' = [ready EXCEPT ![r] = @ - 1]

\* Mutant: the barrier does not wait for the last replica.
AllButOne(senders) == Cardinality(senders) + 1 >= N
AllReady(senders) == senders = Replicas

Targets == Followers

CountReady(r) ==
    /\ ReadReady(r) /\ ~started
    /\ IF Leader \in visible
       THEN /\ readySenders' = readySenders \cup {r}
            /\ started' = AllReady(readySenders')
            /\ fanout' = IF started' THEN Targets ELSE {}
       ELSE UNCHANGED barrierVars
    /\ UNCHANGED <<registered, visible, down, missed, faults, open, passed, running, submitVars>>

SendStart(f) ==
    /\ started /\ IsNext(f, fanout)
    /\ Send(f, "start")
    /\ fanout' = fanout \ {f}
    /\ UNCHANGED <<registered, visible, ready, readySenders, started, open, passed, running,
                   submitVars>>

\* Mutant: the leader starts before it has told the others.
Started == started
FanoutDone == started /\ fanout = {}

StartLeader ==
    /\ FanoutDone /\ Leader \notin open
    /\ open' = open \cup {Leader}
    /\ UNCHANGED <<registered, visible, barrierVars, networkVars, passed, running, submitVars>>

\* Mutant: a late Ready is not answered.
Ignored(r) == UNCHANGED <<down, missed, faults>>
Answer(r) == IF r = Leader THEN UNCHANGED <<down, missed, faults>> ELSE Send(r, "start")

AnswerReady(r) ==
    /\ ReadReady(r) /\ started
    /\ Answer(r)
    /\ UNCHANGED <<registered, visible, barrierVars, open, passed, running, submitVars>>

-----------------------------------------------------------------------------
(* A follower's message worker, and the submitter in the leader's process. *)

HandleDown(f) ==
    /\ down[f] # <<>>
    /\ down' = [down EXCEPT ![f] = Tail(@)]
    /\ IF f \in visible
       THEN /\ open' = IF Head(down[f]) = "start" THEN open \cup {f} ELSE open
            /\ UNCHANGED missed
       ELSE /\ missed' = missed \cup {f}
            /\ UNCHANGED open
    /\ UNCHANGED <<registered, visible, barrierVars, ready, faults, passed, running, submitVars>>

SubmitTransaction ==
    /\ Process[Leader] \in running /\ outbox = {} /\ submitted < MaxTxs
    /\ submitted' = submitted + 1 /\ outbox' = Followers
    /\ UNCHANGED <<registered, visible, barrierVars, networkVars, open, passed, running>>

SendTransaction(f) ==
    /\ IsNext(f, outbox)
    /\ Send(f, "tx")
    /\ outbox' = outbox \ {f}
    /\ UNCHANGED <<registered, visible, barrierVars, ready, open, passed, running, submitted>>

(* The connection between f and the leader breaks and is dialled again. *)
BreakConnection(f) ==
    /\ faults < MaxFaults /\ faults' = faults + 1
    /\ missed' = missed \cup {f}
    /\ \E kept \in 0 .. Len(down[f]) : down' = [down EXCEPT ![f] = SubSeq(@, 1, kept)]
    /\ \E kept \in 0 .. ready[f] : ready' = [ready EXCEPT ![f] = kept]
    /\ UNCHANGED <<registered, visible, barrierVars, open, passed, running, submitVars>>

-----------------------------------------------------------------------------
SubmitterStep == SubmitTransaction \/ \E f \in Followers : SendTransaction(f)

LeaderWorkerStep ==
    \/ StartLeader
    \/ \E f \in Followers : SendStart(f)

Next ==
    \/ \E r \in Replicas :
        \/ Register(r) \/ HandlerVisible(r) \/ SendReady(r) \/ LeaveLoop(r)
        \/ CountReady(r) \/ AnswerReady(r)
    \/ \E p \in Processes : BeginExperiment(p)
    \/ \E f \in Followers : HandleDown(f) \/ BreakConnection(f)
    \/ LeaderWorkerStep
    \/ SubmitterStep

Spec == Init /\ [][Next]_vars

(* Every goroutine goes on, a write by Register becomes visible, and the     *)
(* leader's worker serves every connection.  Faults are not forced.          *)
Fairness ==
    /\ \A r \in Replicas :
        /\ WF_vars(Register(r)) /\ WF_vars(HandlerVisible(r))
        /\ WF_vars(SendReady(r)) /\ WF_vars(LeaveLoop(r))
        /\ SF_vars(CountReady(r)) /\ SF_vars(AnswerReady(r))
    /\ \A p \in Processes : WF_vars(BeginExperiment(p))
    /\ \A f \in Followers : WF_vars(HandleDown(f))
    /\ WF_vars(LeaderWorkerStep)

FairSpec == Spec /\ Fairness

-----------------------------------------------------------------------------
(* Properties. *)

(* Every variable has the type its declaration gives it. *)
TypeOK ==
    /\ registered \subseteq Replicas /\ visible \subseteq Replicas
    /\ ready \in [Replicas -> Nat]
    /\ readySenders \subseteq Replicas /\ started \in BOOLEAN /\ fanout \subseteq Followers
    /\ down \in [Followers -> Seq({"start", "tx"})]
    /\ open \subseteq Replicas /\ passed \subseteq Replicas /\ running \subseteq Processes
    /\ submitted \in Nat /\ outbox \subseteq Followers
    /\ missed \subseteq Followers /\ faults \in Nat

(* "All remote Start messages have been sent before the leader can begin    *)
(* submitting transactions on those same FIFO connections"                  *)
(* (auth_adapter.go:298): unless the follower may have missed a Start, a    *)
(* transaction is behind one or reaches a follower that has started.        *)
StartBeforeTransactions ==
    \A f \in Followers \ missed : \A i \in DOMAIN down[f] :
        down[f][i] = "tx" => f \in open \/ \E j \in 1 .. i-1 : down[f][j] = "start"

(* "The experiment timeout starts only after every replica handler is       *)
(* ready" (main.go:145), in whichever process, although Ready messages are  *)
(* repeated, lost and counted by a handler the worker sees late.            *)
HandlersBeforeExperiment == running # {} => registered = Replicas

(* Every replica leaves the ready loop and every process begins, whatever   *)
(* Ready or Start a finite number of faults has lost.                       *)
EverybodyStarts == <>(passed = Replicas /\ running = Processes)

-----------------------------------------------------------------------------
(* The ready loop implements the one-shot barrier: a replica arrives when it *)
(* has registered its handler and passes when it leaves the loop.            *)
Barrier == INSTANCE OneShotBarrier WITH
    Parties <- Replicas, arrived <- registered, passed <- passed

ImplementsBarrier == Barrier!Spec
=============================================================================
