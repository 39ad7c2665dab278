------------------------------ MODULE FixSlots ------------------------------
(***************************************************************************)
(* What the fix queue promises each exception group, without its table of  *)
(* attempts: a single slot.  A fix can be requested only while the slot is *)
(* free; Chisel starts a queued fix once; and a slot that was taken comes  *)
(* back only as free, however the attempt ended.  The hourly sweep may     *)
(* free several slots in one step.                                         *)
(***************************************************************************)
CONSTANT Fingerprints

VARIABLE slot        \* slot[g]: the state of group g's only slot

SlotState == {"free", "queued", "working"}

SlotsTypeOK == slot \in [Fingerprints -> SlotState]

Init == slot = [g \in Fingerprints |-> "free"]

(* A request is accepted for a group without an attempt in flight. *)
Take(g) ==
    /\ slot[g] = "free"
    /\ slot' = [slot EXCEPT ![g] = "queued"]

(* A poll hands the group's attempt to Chisel. *)
Work(g) ==
    /\ slot[g] = "queued"
    /\ slot' = [slot EXCEPT ![g] = "working"]

(* The attempts of the groups in S end: a result, a cancel or a timeout. *)
Release(S) ==
    /\ \A g \in S : slot[g] # "free"
    /\ slot' = [g \in Fingerprints |-> IF g \in S THEN "free" ELSE slot[g]]

Next ==
    \/ \E g \in Fingerprints : Take(g) \/ Work(g)
    \/ \E S \in SUBSET Fingerprints : Release(S)

Spec == Init /\ [][Next]_slot
=============================================================================
