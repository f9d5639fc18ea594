---------------------------- MODULE OneShotBarrier ----------------------------
(***************************************************************************)
(* What the start of an experiment promises: a barrier that is passed once. *)
(* A party arrives when its message handler is registered, and no party     *)
(* passes before all have arrived.                                          *)
(***************************************************************************)
CONSTANT Parties

VARIABLES
    arrived,  \* parties that have arrived
    passed    \* parties that have gone on

vars == <<arrived, passed>>

Init == arrived = {} /\ passed = {}

Arrive(p) ==
    /\ p \notin arrived
    /\ arrived' = arrived \cup {p}
    /\ UNCHANGED passed

Pass(p) ==
    /\ arrived = Parties /\ p \notin passed
    /\ passed' = passed \cup {p}
    /\ UNCHANGED arrived

Next == \E p \in Parties : Arrive(p) \/ Pass(p)

Spec == Init /\ [][Next]_vars
=============================================================================
