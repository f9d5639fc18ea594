-------------------------- MODULE MCEvidenceEngine ---------------------------
(***************************************************************************)
(* Model-checking instances of EvidenceEngine with the algorithms and the  *)
(* candidates it is compared with.  No operator looks at the identity or   *)
(* the order of replicas, so they are interchangeable.                     *)
(***************************************************************************)
EXTENDS CertificateSoundness, GraphAlgorithms, TLC

Symmetry == Permutations(Replicas)
=============================================================================
