---------------------------- MODULE MCStartBarrier ----------------------------
(***************************************************************************)
(* Instances of StartBarrier: how replicas are spread over processes.       *)
(***************************************************************************)
EXTENDS StartBarrier

OnePerProcess == [r \in Replicas |-> r]
FirstTwoTogether == [r \in Replicas |-> IF r < 2 THEN 0 ELSE r]
=============================================================================
