--------------------------- MODULE FixQueueProofs ---------------------------
(***************************************************************************)
(* TLAPS proofs about FixQueue, for any number of attempts and groups, any *)
(* timeout and any length of run.                                          *)
(***************************************************************************)
EXTENDS FixQueue, TLAPS

(* Every variable keeps its type. *)
THEOREM TypeCorrect == Spec => []TypeOK
<1> USE DEF TypeOK
<1>1. Init => TypeOK
  BY DEF Init, Statuses, Writers
<1>2. TypeOK /\ [Next]_vars => TypeOK'
  <2> SUFFICES ASSUME TypeOK, [Next]_vars
               PROVE  TypeOK'
    OBVIOUS
  <2> USE DEF Statuses, Active, Reported, Writers
  <2>1. ASSUME NEW j \in Jobs, NEW g \in Fingerprints, RequestFix(j, g)
        PROVE  TypeOK'
    BY <2>1 DEF RequestFix, InsertAttempt
  <2>2. ASSUME NEW j \in Jobs, ClaimAttempt(j)
        PROVE  TypeOK'
    BY <2>2 DEF ClaimAttempt
  <2>3. ASSUME NEW j \in Jobs, NEW result \in Reported,
               Callback(j, result)
        PROVE  TypeOK'
    BY <2>3 DEF Callback, CompleteAttempt
  <2>4. ASSUME NEW j \in Jobs, CancelRequest(j)
        PROVE  TypeOK'
    BY <2>4 DEF CancelRequest, attempt
  <2>5. ASSUME NEW j \in Jobs, CancelResume(j)
        PROVE  TypeOK'
    BY <2>5 DEF CancelResume, CancelAttempt
  <2>6. CASE TimeoutStale
    BY <2>6 DEF TimeoutStale
  <2>7. ASSUME NEW g \in Fingerprints, GroupAppears(g)
        PROVE  TypeOK'
    BY <2>7 DEF GroupAppears, attempt
  <2>8. ASSUME NEW g \in Fingerprints, GroupVanishes(g)
        PROVE  TypeOK'
    BY <2>8 DEF GroupVanishes, attempt
  <2>9. CASE Restart
    BY <2>9 DEF Restart, attempt
  <2>10. ASSUME NEW g \in Fingerprints, NEW n \in Fingerprints, MigrateGroup(g, n)
         PROVE  TypeOK'
    BY <2>10 DEF MigrateGroup
  <2>11. CASE Tick
    BY <2>11 DEF Tick, attempt
  <2>12. CASE UNCHANGED vars
    BY <2>12 DEF vars, attempt
  <2> QED
    BY <2>1, <2>2, <2>3, <2>4, <2>5, <2>6, <2>7, <2>8, <2>9, <2>10, <2>11, <2>12
       DEF Next
<1> QED
  BY <1>1, <1>2, PTL DEF Spec
-----------------------------------------------------------------------------
(* What a poll, a cancel, a callback and the sweep leave of an attempt: a  *)
(* handed attempt left the queue for good, only Chisel's word makes a row  *)
(* "chisel", nothing was queued in the future, and every row has a group's *)
(* fingerprint.                                                            *)
HandedHasStarted ==
    \A j \in handed : status[j] \notin {"none", "pending", "cancelled"}
ChiselRowIsReported == \A j \in Jobs : message[j] = "chisel" => status[j] \in Reported
QueuedInThePast == \A j \in Jobs : queuedAt[j] <= now
Addressed == \A j \in Jobs : status[j] # "none" => fingerprint[j] \in Fingerprints

QueueInv ==
    /\ HandedHasStarted
    /\ ChiselRowIsReported
    /\ QueuedInThePast
    /\ Addressed
    /\ OldestFirst

LEMMA QueueInvInit == Init => QueueInv
  BY DEF Init, QueueInv, HandedHasStarted, ChiselRowIsReported, QueuedInThePast,
         Addressed, OldestFirst

LEMMA QueueInvNext == TypeOK /\ QueueInv /\ [Next]_vars => QueueInv'
<1> SUFFICES ASSUME TypeOK, QueueInv, [Next]_vars
             PROVE  QueueInv'
  OBVIOUS
<1> USE DEF TypeOK, QueueInv, HandedHasStarted, ChiselRowIsReported,
            QueuedInThePast, Addressed, OldestFirst, Active, Reported
<1>1. ASSUME NEW j \in Jobs, NEW g \in Fingerprints, RequestFix(j, g)
      PROVE  QueueInv'
  <2>1. j \notin handed
    BY <1>1 DEF RequestFix
  <2> QED
    BY <1>1, <2>1 DEF RequestFix, InsertAttempt
<1>2. ASSUME NEW j \in Jobs, ClaimAttempt(j)
      PROVE  QueueInv'
  BY <1>2 DEF ClaimAttempt, OldestPending
<1>3. ASSUME NEW j \in Jobs, NEW result \in Reported,
             Callback(j, result)
      PROVE  QueueInv'
  BY <1>3 DEF Callback, CompleteAttempt
<1>4. ASSUME NEW j \in Jobs, CancelRequest(j)
      PROVE  QueueInv'
  BY <1>4 DEF CancelRequest, attempt
<1>5. ASSUME NEW j \in Jobs, CancelResume(j)
      PROVE  QueueInv'
  BY <1>5 DEF CancelResume, CancelAttempt
<1>6. CASE TimeoutStale
  BY <1>6 DEF TimeoutStale, IsStale, IsActive
<1>7. ASSUME NEW g \in Fingerprints, GroupAppears(g) \/ GroupVanishes(g)
      PROVE  QueueInv'
  BY <1>7 DEF GroupAppears, GroupVanishes, attempt
<1>8. CASE Restart
  BY <1>8 DEF Restart, attempt
<1>9. ASSUME NEW g \in Fingerprints, NEW n \in Fingerprints, MigrateGroup(g, n)
      PROVE  QueueInv'
  BY <1>9 DEF MigrateGroup
<1>10. CASE Tick
  BY <1>10 DEF Tick, attempt
<1>11. CASE UNCHANGED vars
  BY <1>11 DEF vars, attempt
<1> QED
  BY <1>1, <1>2, <1>3, <1>4, <1>5, <1>6, <1>7, <1>8, <1>9, <1>10, <1>11 DEF Next

LEMMA QueueInvCorrect == Spec => []QueueInv
<1> QED
  BY TypeCorrect, QueueInvInit, QueueInvNext, PTL DEF Spec

(* A cancelled attempt was never handed to Chisel, under any rules.        *)
THEOREM CancelledNeverHandedCorrect == Spec => []CancelledNeverHanded
<1>1. QueueInv => CancelledNeverHanded
  BY DEF QueueInv, HandedHasStarted, CancelledNeverHanded
<1> QED
  BY <1>1, QueueInvCorrect, PTL

(* Chisel is served in queue order, under any rules.                       *)
THEOREM OldestFirstCorrect == Spec => []OldestFirst
<1>1. QueueInv => OldestFirst
  BY DEF QueueInv
<1> QED
  BY <1>1, QueueInvCorrect, PTL

(* What Chisel reported is never replaced by a timeout or a cancel.        *)
THEOREM ReportStandsCorrect == Spec => ReportStands
<1>1. ASSUME TypeOK, QueueInv, [Next]_vars, NEW j \in Jobs, message[j] = "chisel"
      PROVE  message'[j] = "chisel" /\ status'[j] \in Reported
  <2> USE DEF TypeOK, Active, Reported
  <2>1. status[j] \in Reported
    BY <1>1 DEF QueueInv, ChiselRowIsReported
  <2>2. ASSUME NEW k \in Jobs, NEW g \in Fingerprints, RequestFix(k, g)
        PROVE  message'[j] = "chisel" /\ status'[j] \in Reported
    BY <1>1, <2>1, <2>2 DEF RequestFix, InsertAttempt
  <2>3. ASSUME NEW k \in Jobs, ClaimAttempt(k)
        PROVE  message'[j] = "chisel" /\ status'[j] \in Reported
    BY <1>1, <2>1, <2>3 DEF ClaimAttempt, OldestPending
  <2>4. ASSUME NEW k \in Jobs, NEW result \in Reported,
               Callback(k, result)
        PROVE  message'[j] = "chisel" /\ status'[j] \in Reported
    BY <1>1, <2>1, <2>4 DEF Callback, CompleteAttempt
  <2>5. ASSUME NEW k \in Jobs, CancelResume(k)
        PROVE  message'[j] = "chisel" /\ status'[j] \in Reported
    BY <1>1, <2>1, <2>5 DEF CancelResume, CancelAttempt
  <2>6. CASE TimeoutStale
    BY <1>1, <2>1, <2>6 DEF TimeoutStale, IsStale, IsActive
  <2>7. CASE UNCHANGED <<status, message>>
    BY <1>1, <2>1, <2>7
  <2> QED
    BY <1>1, <2>2, <2>3, <2>4, <2>5, <2>6, <2>7
       DEF Next, vars, attempt, CancelRequest, GroupAppears, GroupVanishes,
           Restart, MigrateGroup, Tick
<1>2. TypeOK /\ QueueInv /\ [Next]_vars
      => [\A j \in Jobs : message[j] = "chisel" =>
             message'[j] = "chisel" /\ status'[j] \in Reported]_vars
  BY <1>1
<1> QED
  BY <1>2, TypeCorrect, QueueInvCorrect, PTL DEF Spec, ReportStands
-----------------------------------------------------------------------------
(* While restarts keep the rules, a migration re-addresses no attempt ...  *)
LEMMA StableMigration ==
  ASSUME StableRules, TypeOK,
         NEW g \in Fingerprints, NEW n \in Fingerprints, MigrateGroup(g, n)
  PROVE  UNCHANGED <<status, fingerprint>>
<1>1. n = g
  BY DEF StableRules, MigrateGroup
<1> QED
  BY <1>1 DEF MigrateGroup, TypeOK

(* ... and the check in request_fix keeps the attempts of a group apart.   *)
LEMMA OneActiveNext ==
  ASSUME StableRules, TypeOK, OneActivePerGroup, [Next]_vars
  PROVE  OneActivePerGroup'
<1> USE DEF TypeOK, OneActivePerGroup, IsActive, Active, Reported
<1>1. ASSUME NEW j \in Jobs, NEW g \in Fingerprints, RequestFix(j, g)
      PROVE  OneActivePerGroup'
  BY <1>1 DEF RequestFix, InsertAttempt, HasActive
<1>2. ASSUME NEW j \in Jobs, ClaimAttempt(j)
      PROVE  OneActivePerGroup'
  BY <1>2 DEF ClaimAttempt, OldestPending
<1>3. ASSUME NEW j \in Jobs, NEW result \in Reported,
             Callback(j, result)
      PROVE  OneActivePerGroup'
  BY <1>3 DEF Callback, CompleteAttempt
<1>4. ASSUME NEW j \in Jobs, CancelResume(j)
      PROVE  OneActivePerGroup'
  BY <1>4 DEF CancelResume, CancelAttempt
<1>5. CASE TimeoutStale
  BY <1>5 DEF TimeoutStale, IsStale
<1>6. ASSUME NEW g \in Fingerprints, NEW n \in Fingerprints, MigrateGroup(g, n)
      PROVE  OneActivePerGroup'
  BY <1>6, StableMigration
<1>7. CASE UNCHANGED <<status, fingerprint>>
  BY <1>7
<1> QED
  BY <1>1, <1>2, <1>3, <1>4, <1>5, <1>6, <1>7
     DEF Next, vars, attempt, CancelRequest, GroupAppears, GroupVanishes, Restart, Tick

(* One attempt in flight per group, as long as restarts keep the rules.    *)
THEOREM OneActiveCorrect ==
  ASSUME StableRules
  PROVE  Spec => []OneActivePerGroup
<1>1. Init => OneActivePerGroup
  BY DEF Init, OneActivePerGroup, IsActive, Active
<1>2. TypeOK /\ OneActivePerGroup /\ [Next]_vars => OneActivePerGroup'
  BY OneActiveNext
<1> QED
  BY <1>1, <1>2, TypeCorrect, PTL DEF Spec
-----------------------------------------------------------------------------
(* The slots of the groups, as FixQueue!Slots instantiates FixSlots.       *)
SlotMap == [g \in Fingerprints |-> SlotOf(g)]

LEMMA SlotsUnmoved ==
  ASSUME UNCHANGED <<status, fingerprint>>
  PROVE  UNCHANGED SlotMap
BY DEF SlotMap, SlotOf

(* A step that ends the active attempts in E, and leaves every other one   *)
(* its status, frees the slots of their groups.                            *)
LEMMA SlotsReleased ==
  ASSUME TypeOK, QueueInv, OneActivePerGroup, UNCHANGED fingerprint,
         NEW E \in SUBSET Jobs, \A j \in E : IsActive(j) /\ ~IsActive(j)',
         \A j \in Jobs \ E : status'[j] = status[j]
  PROVE  Slots!Next
<1> DEFINE S == {fingerprint[j] : j \in E}
<1> USE DEF IsActive, Active
<1>1. ASSUME NEW g \in Fingerprints, g \in S
      PROVE  SlotOf(g) # "free" /\ SlotOf(g)' = "free"
  <2>1. PICK j \in E : fingerprint[j] = g
    BY <1>1
  <2>2. \A k \in Jobs : fingerprint[k] = g /\ k # j => ~IsActive(k)
    BY <2>1 DEF OneActivePerGroup
  <2>3. \A k \in Jobs : fingerprint'[k] = g => ~IsActive(k)'
    BY <2>1, <2>2
  <2> QED
    BY <2>1, <2>3 DEF SlotOf
<1>2. ASSUME NEW g \in Fingerprints, g \notin S
      PROVE  SlotOf(g)' = SlotOf(g)
  <2>1. \A j \in Jobs : fingerprint[j] = g => status'[j] = status[j]
    BY <1>2
  <2> QED
    BY <2>1 DEF SlotOf
<1>3. S \subseteq Fingerprints
  <2>1. \A j \in E : status[j] # "none"
    OBVIOUS
  <2> QED
    BY <2>1 DEF QueueInv, Addressed
<1>4. Slots!Release(S)
  BY <1>1, <1>2, <1>3 DEF Slots!Release
<1> HIDE DEF S
<1> QED
  BY <1>3, <1>4 DEF Slots!Next

LEMMA SlotsInit == Init => Slots!Init
BY DEF Init, Slots!Init, SlotOf

LEMMA SlotsNext ==
  ASSUME StableRules, TypeOK, QueueInv, OneActivePerGroup, [Next]_vars
  PROVE  [Slots!Next]_SlotMap
<1> USE DEF TypeOK, IsActive, Active, Reported
<1>1. ASSUME NEW j \in Jobs, NEW g \in Fingerprints, RequestFix(j, g)
      PROVE  Slots!Next
  <2>1. SlotOf(g) = "free" /\ SlotOf(g)' = "queued"
    BY <1>1 DEF RequestFix, InsertAttempt, HasActive, SlotOf
  <2>2. ASSUME NEW h \in Fingerprints, h # g
        PROVE  SlotOf(h)' = SlotOf(h)
    BY <1>1, <2>2 DEF RequestFix, InsertAttempt, SlotOf
  <2>3. Slots!Take(g)
    BY <2>1, <2>2 DEF Slots!Take
  <2> QED
    BY <2>3 DEF Slots!Next
<1>2. ASSUME NEW j \in Jobs, ClaimAttempt(j)
      PROVE  Slots!Next
  <2>0. PICK g \in Fingerprints : g = fingerprint[j]
    BY <1>2 DEF ClaimAttempt, OldestPending, QueueInv, Addressed
  <2>1. SlotOf(g) = "queued"
    BY <1>2, <2>0 DEF ClaimAttempt, OldestPending, SlotOf
  <2>2. SlotOf(g)' = "working"
    BY <1>2, <2>0 DEF ClaimAttempt, OldestPending, OneActivePerGroup, SlotOf
  <2>3. ASSUME NEW h \in Fingerprints, h # g
        PROVE  SlotOf(h)' = SlotOf(h)
    BY <1>2, <2>0, <2>3 DEF ClaimAttempt, SlotOf
  <2>4. Slots!Work(g)
    BY <2>1, <2>2, <2>3 DEF Slots!Work
  <2> QED
    BY <2>1, <2>4 DEF Slots!Next
<1>3. ASSUME NEW j \in Jobs, NEW result \in Reported,
             Callback(j, result)
      PROVE  Slots!Next \/ UNCHANGED SlotMap
  <2>1. CASE IsActive(j)
    <3> DEFINE E == {j}
    <3>1. E \in SUBSET Jobs /\ UNCHANGED fingerprint
      BY <1>3, <2>1 DEF Callback, CompleteAttempt
    <3>2. \A k \in E : IsActive(k) /\ ~IsActive(k)'
      BY <1>3, <2>1 DEF Callback, CompleteAttempt
    <3>3. \A k \in Jobs \ E : status'[k] = status[k]
      BY <1>3, <2>1 DEF Callback, CompleteAttempt
    <3> HIDE DEF E
    <3> QED
      BY <3>1, <3>2, <3>3, SlotsReleased
  <2>2. CASE ~IsActive(j)
    <3>1. ASSUME NEW g \in Fingerprints
          PROVE  SlotOf(g)' = SlotOf(g)
      BY <1>3, <2>2 DEF Callback, CompleteAttempt, SlotOf
    <3> QED
      BY <3>1 DEF SlotMap
  <2> QED
    BY <2>1, <2>2
<1>4. ASSUME NEW j \in Jobs, CancelResume(j)
      PROVE  Slots!Next \/ UNCHANGED SlotMap
  <2>1. CASE status[j] = "pending"
    <3> DEFINE E == {j}
    <3>1. E \in SUBSET Jobs /\ UNCHANGED fingerprint
      BY <1>4, <2>1 DEF CancelResume, CancelAttempt
    <3>2. \A k \in E : IsActive(k) /\ ~IsActive(k)'
      BY <1>4, <2>1 DEF CancelResume, CancelAttempt
    <3>3. \A k \in Jobs \ E : status'[k] = status[k]
      BY <1>4, <2>1 DEF CancelResume, CancelAttempt
    <3> HIDE DEF E
    <3> QED
      BY <3>1, <3>2, <3>3, SlotsReleased
  <2>2. CASE status[j] # "pending"
    BY <1>4, <2>2, SlotsUnmoved DEF CancelResume, CancelAttempt
  <2> QED
    BY <2>1, <2>2
<1>5. CASE TimeoutStale
  <2> DEFINE E == {j \in Jobs : IsStale(j)}
  <2>1. E \in SUBSET Jobs /\ UNCHANGED fingerprint
    BY <1>5 DEF TimeoutStale, IsStale
  <2>2. \A k \in E : IsActive(k) /\ ~IsActive(k)'
    BY <1>5 DEF TimeoutStale, IsStale
  <2>3. \A k \in Jobs \ E : status'[k] = status[k]
    BY <1>5 DEF TimeoutStale, IsStale
  <2> HIDE DEF E
  <2> QED
    BY <2>1, <2>2, <2>3, SlotsReleased
<1>6. ASSUME NEW g \in Fingerprints, NEW n \in Fingerprints, MigrateGroup(g, n)
      PROVE  UNCHANGED SlotMap
  BY <1>6, StableMigration, SlotsUnmoved
<1>7. CASE UNCHANGED <<status, fingerprint>>
  BY <1>7, SlotsUnmoved
<1> QED
  BY <1>1, <1>2, <1>3, <1>4, <1>5, <1>6, <1>7
     DEF Next, vars, attempt, CancelRequest, GroupAppears, GroupVanishes, Restart, Tick

(* As long as restarts keep the rules, the table of attempts implements    *)
(* one slot per group.                                                     *)
THEOREM SlotsImplemented ==
  ASSUME StableRules
  PROVE  Spec => ImplementsSlots
<1>1. Init => Slots!Init
  BY SlotsInit
<1>2. TypeOK /\ QueueInv /\ OneActivePerGroup /\ [Next]_vars => [Slots!Next]_SlotMap
  BY SlotsNext
<1> QED
  BY <1>1, <1>2, TypeCorrect, QueueInvCorrect, OneActiveCorrect, PTL
     DEF Spec, ImplementsSlots, Slots!Spec, SlotMap
=============================================================================
