---------------------------- MODULE MCConnections -----------------------------
(***************************************************************************)
(* An instance of Connections.                                             *)
(***************************************************************************)
EXTENDS Connections

(* Two messages are the fewest that have an order at the dialer. *)
TwoToDialer == [e \in Ends |-> IF e = Acceptor THEN 2 ELSE 1]
=============================================================================
