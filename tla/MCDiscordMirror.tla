-------------------------- MODULE MCDiscordMirror --------------------------
(* Instances of DiscordMirror for TLC. *)
EXTENDS DiscordMirror, TLC

MCSymmetry == Permutations(Groups) \cup Permutations(Spawned)
=============================================================================
