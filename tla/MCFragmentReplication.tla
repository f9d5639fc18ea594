----------------------- MODULE MCFragmentReplication ------------------------
(***************************************************************************)
(* Model-checking instances of FragmentReplication, whose interleavings    *)
(* are thinned out.  Nothing looks at the identity of a transaction.       *)
(***************************************************************************)
EXTENDS FragmentReplication, TLC

Symmetry == Permutations(Txs)

(* Orders are collected from the replicas in increasing order, and sampled  *)
(* only when the collector waits for them.                                  *)
OrdersInTurn ==
    /\ Cardinality(localOrders) <= 1
    /\ \A order \in localOrders :
        /\ phase = "collect"
        /\ \A o \in collected : o.replica < order.replica
        /\ \A r \in 0 .. order.replica - 1 :
            Scheduled(r, Len(committed[Leader]) + 1) => \E o \in collected : o.replica = r

(* A run ends with the fan-out of its last commit. *)
UpToLastCommit == Len(committed[Leader]) = MaxSeq => phase = "commit"

(* The part of a run before the deadline in which every replica receives    *)
(* what it will ever receive of the transactions by the first commit: what  *)
(* remains free is every loss, attempt, retry and stale acknowledgement.    *)
BeforeDeadline ==
    /\ OrdersInTurn /\ UpToLastCommit /\ ~expired
    /\ committed[Leader] # <<>> =>
        /\ submitted = Txs /\ outbox = {}
        /\ \A r \in Replicas : \A i \in DOMAIN down[r] : down[r][i].type # "tx"

(* The replicas whose orders the second fragment does without. *)
LeftOut == {r \in Replicas : ~Scheduled(r, 2)}

(* One local order in flight at a time and, besides the replicas left out,   *)
(* one with undelivered messages from the leader: what remains free is when *)
(* each replica samples and receives, what the gate counts, who lacks       *)
(* content, and how far those left out lag behind.                          *)
Thinned ==
    /\ Cardinality(localOrders) <= 1
    /\ Cardinality({r \in Replicas \ LeftOut : down[r] # <<>>}) <= 1

(* When an attempt starts a replica has one message unread; one that is left *)
(* out of the second fragment may still have the whole first one before it.  *)
Backlog ==
    phase = "propose" /\ todo = Followers =>
        \A f \in Followers :
            Len(down[f]) + Len(acks[f]) <= IF f \in LeftOut THEN Len(committed[Leader]) + 1 ELSE 1

(* The part of a run before the deadline, up to the last commit, in which    *)
(* the transactions are sent in the first round.                             *)
Lockstep ==
    /\ Thinned /\ Backlog /\ OrdersInTurn /\ ~expired
    /\ committed[Leader] # <<>> => submitted = Txs /\ outbox = {}
    /\ Len(committed[Leader]) = MaxSeq => phase = "commit" /\ todo = Followers

(* Runs whose deadline comes after the first commit. *)
Committing == Thinned /\ (expired => committed[Leader] # <<>>)

(* Some transaction is still on its way to a replica. *)
TxUnderWay ==
    \/ outbox # {}
    \/ \E r \in Replicas : \E i \in DOMAIN down[r] : down[r][i].type = "tx"

(* Nothing of an earlier attempt is left. *)
Clean ==
    \A f \in Followers :
        /\ acks[f] = <<>> /\ pending[f] = NoCandidate
        /\ \A i \in DOMAIN down[f] : down[f][i].type = "tx"

(* For action constraints, which only delay steps.  An attempt may start    *)
(* while content is on its way, and be refused for it; the next then waits  *)
(* until the content is there.  Without this, attempts repeated against     *)
(* content that does not come leave ever more unread acknowledgements.      *)
Patient == phase = "construct" /\ phase' = "propose" /\ TxUnderWay => Clean

(* One local order is in flight at a time. *)
OneAtATime == Cardinality(localOrders') <= 1
=============================================================================
