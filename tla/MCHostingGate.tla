----------------------------- MODULE MCHostingGate -----------------------------
(***************************************************************************)
(* Constraints that keep the instances of HostingGate small.               *)
(***************************************************************************)
EXTENDS HostingGate

(* The deadline comes after the part of the run that is looked at. *)
NoDeadline == ~expired

Awaited == {r \in Replicas : Scheduled(r, committed + 1)} \ collected

(* Only the orders the collector waits for are sent, the smallest first. *)
OrdersInTurn ==
    /\ \A r \in Replicas : ~NoOrderFrom(r) =>
        /\ collector = "collect" /\ r \in Awaited /\ \A q \in Awaited : r <= q
        /\ localOrderChan = <<>>
    /\ holding.type = "order" \/ localOrderChan # <<>> => collector = "collect"

Undelivered(f) == down[f] # <<>> \/ \E i \in DOMAIN up[f] : up[f][i].type # "order"

Rejections == abandons > faults \/ late # {} \/ \E f \in Followers : lacks[f]

(* The follower that may stay behind, in runs without rejections: the one   *)
(* left out of the second batch.                                            *)
Lagging == IF Rejections THEN {} ELSE {f \in Followers : ~Scheduled(f, 2)}

(* Of the others one at a time has messages under way. *)
Lockstep == Cardinality({f \in Followers \ Lagging : Undelivered(f)}) <= 1

(* The last failed send comes in the last fragment of a run without          *)
(* rejections.                                                               *)
LastFailure == faults = MaxFaults => ~Rejections /\ committed = MaxSeq - 1
=============================================================================
