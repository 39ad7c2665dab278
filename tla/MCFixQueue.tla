----------------------------- MODULE MCFixQueue -----------------------------
(* Instances of FixQueue for TLC. *)
EXTENDS FixQueue, TLC

(* Restarts under unchanged rules. *)
MCStable == [g \in Fingerprints |-> {g}]

(* Restarts whose rules may fold any group into any other. *)
MCAnyRules == [g \in Fingerprints |-> Fingerprints]

MCSymmetry == Permutations(Jobs)
=============================================================================
