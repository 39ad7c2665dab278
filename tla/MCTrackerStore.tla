--------------------------- MODULE MCTrackerStore ---------------------------
(* Instances of TrackerStore for TLC. *)
EXTENDS TrackerStore, TLC

MCServerSymmetry == Permutations(Servers)
=============================================================================
