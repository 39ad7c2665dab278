---------------------------- MODULE MCMigration ----------------------------
(* Instances of Migration for TLC.  Neither texts nor traces have names the *)
(* rules tell apart.                                                        *)
EXTENDS Migration, TLC

MCSymmetry == Permutations(Texts) \cup Permutations(Traces)
=============================================================================
