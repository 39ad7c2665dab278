--------------------------- MODULE MCFixReactions ---------------------------
(* Instances of FixReactions for TLC.  Nothing tells two attempts apart.   *)
EXTENDS FixReactions, TLC

JobSymmetry == Permutations(Jobs)
=============================================================================
