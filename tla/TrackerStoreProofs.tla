------------------------- MODULE TrackerStoreProofs -------------------------
(***************************************************************************)
(* TLAPS proofs about TrackerStore, for any groups, servers, windows and   *)
(* hour length, any clock skew and any number of events.                   *)
(***************************************************************************)
EXTENDS TrackerStore, FiniteSetTheorems, TLAPS

(* What types cannot say of an hour's count: an event raises it by one at  *)
(* most, and every row was given an id no row has had.                     *)
CountedOnce ==
    /\ \A k \in DOMAIN hourCount : hourCount[k] <= lastId
    /\ \A o \in occurrences : o.id <= lastId

Typed == TypeOK /\ CountedOnce

LEMMA TypedInit == Init => Typed
  BY StoreAssumption DEF Init, Typed, TypeOK, CountedOnce, Statuses, Stamps

LEMMA ClampInStamps ==
    ASSUME TypeOK, NEW t \in Nat
    PROVE  Clamp(t) \in Stamps
  BY StoreAssumption DEF TypeOK, Clamp, Stamps

LEMMA TypedDelete ==
    ASSUME Typed, NEW gone, DeleteGroups(gone)
    PROVE  /\ groups' \in SUBSET Groups
           /\ status' \in [Groups -> Statuses]
           /\ marks' \in [Groups -> SUBSET {"muted", "resolved"}]
           /\ lastSeen' \in [Groups -> Stamps]
  BY StoreAssumption DEF Typed, TypeOK, DeleteGroups, Statuses, Stamps

LEMMA TypedNext == Typed /\ [Next]_vars => Typed'
<1> SUFFICES ASSUME Typed, [Next]_vars
             PROVE  Typed'
  OBVIOUS
<1> USE StoreAssumption DEF Typed, TypeOK, CountedOnce, Occurrence
<1>1. ASSUME NEW g \in Groups, NEW s \in Servers, NEW t \in 0..(MaxTime + Skew + 1),
             NEW fits \in BOOLEAN, Ingest(g, s, t, fits)
      PROVE  Typed'
  <2> DEFINE stamp == Clamp(t)
             bucket == <<g, s, HourOf(stamp)>>
             row == [id |-> lastId + 1, group |-> g, server |-> s, timestamp |-> stamp,
                     raw |-> KeepsRaw(hourCount[bucket] + 1, fits)]
  <2>1. stamp \in Stamps
    BY ClampInStamps
  <2>2. row.raw \in BOOLEAN
    BY DEF KeepsRaw
  <2> HIDE DEF stamp, bucket
  <2>3. /\ lastId < MaxEvents
        /\ groups' = groups \cup {g}
        /\ lastSeen' = [lastSeen EXCEPT ![g] = stamp]
        /\ hourCount' = [hourCount EXCEPT ![bucket] = @ + 1]
        /\ occurrences' = occurrences \cup {row}
        /\ lastId' = lastId + 1
        /\ UNCHANGED <<now, status, marks, swept>>
    BY <1>1 DEF Ingest, stamp, bucket
  <2>4. row \in Occurrence /\ row.id = lastId'
    BY <2>1, <2>2, <2>3
  <2>5. occurrences' \in SUBSET Occurrence /\ \A o \in occurrences' : o.id <= lastId'
    <3> HIDE DEF row
    <3> QED BY <2>3, <2>4
  <2>6. /\ hourCount' \in [Groups \X Servers \X Stamps -> 0..MaxEvents]
        /\ \A k \in DOMAIN hourCount' : hourCount'[k] <= lastId'
    <3> DEFINE K == Groups \X Servers \X Stamps
    <3> HIDE DEF K
    <3>1. hourCount \in [K -> 0..MaxEvents] /\ \A k \in K : hourCount[k] <= lastId
      BY DEF K
    <3>2. ASSUME NEW k \in K
          PROVE  hourCount'[k] = hourCount[k] \/ hourCount'[k] = hourCount[k] + 1
      BY <2>3, <3>1
    <3>3. hourCount' = [k \in K |-> hourCount'[k]]
      BY <2>3, <3>1
    <3>4. ASSUME NEW k \in K
          PROVE  hourCount'[k] \in 0..MaxEvents /\ hourCount'[k] <= lastId'
      BY <2>3, <3>1, <3>2
    <3> QED
      BY <3>3, <3>4 DEF K
  <2> QED
    BY <2>1, <2>3, <2>5, <2>6
<1>2. ASSUME NEW g \in Groups, NEW st \in {"muted", "resolved"}, Mark(g, st)
      PROVE  Typed'
  BY <1>2 DEF Mark, Statuses
<1>3. ASSUME NEW g \in Groups, UnmuteGroup(g)
      PROVE  Typed'
  BY <1>3 DEF UnmuteGroup, Unmarked, Statuses
<1>4. ASSUME NEW w \in {Window} \cup PurgeWindows, RunExpiry(w)
      PROVE  Typed'
  <2>1. /\ groups' \in SUBSET Groups
        /\ status' \in [Groups -> Statuses]
        /\ marks' \in [Groups -> SUBSET {"muted", "resolved"}]
        /\ lastSeen' \in [Groups -> Stamps]
    BY <1>4, TypedDelete DEF RunExpiry
  <2>2. swept' \in 0..MaxTime /\ UNCHANGED <<now, lastId>>
    <3>1. w \in Nat /\ UNCHANGED <<now, lastId>>
      BY <1>4 DEF RunExpiry
    <3>2. swept' = IF swept + w < now THEN now - w ELSE swept
      BY <1>4 DEF RunExpiry
    <3> QED
      BY <3>1, <3>2
  <2>3. occurrences' \subseteq occurrences
    BY <1>4 DEF RunExpiry
  <2>4. /\ hourCount' \in [Groups \X Servers \X Stamps -> 0..MaxEvents]
        /\ \A k \in DOMAIN hourCount' : hourCount'[k] <= lastId
    BY <1>4 DEF RunExpiry
  <2> QED
    BY <2>1, <2>2, <2>3, <2>4
<1>5. ASSUME NEW gone, Purge(gone)
      PROVE  Typed'
  <2>1. /\ groups' \in SUBSET Groups
        /\ status' \in [Groups -> Statuses]
        /\ marks' \in [Groups -> SUBSET {"muted", "resolved"}]
        /\ lastSeen' \in [Groups -> Stamps]
    BY <1>5, TypedDelete DEF Purge
  <2>2. UNCHANGED <<now, lastId, swept>> /\ occurrences' \subseteq occurrences
    BY <1>5 DEF Purge
  <2>3. /\ hourCount' \in [Groups \X Servers \X Stamps -> 0..MaxEvents]
        /\ \A k \in DOMAIN hourCount' : hourCount'[k] <= lastId
    BY <1>5 DEF Purge
  <2> QED
    BY <2>1, <2>2, <2>3
<1>6. CASE Tick
  BY <1>6 DEF Tick
<1>7. CASE UNCHANGED vars
  BY <1>7 DEF vars
<1> HIDE DEF Typed
<1> QED
  BY <1>1, <1>2, <1>3, <1>4, <1>5, <1>6, <1>7
     DEF Next, MuteGroup, ResolveGroup, PurgeServer, PurgeByStatus

(* The three tables and the clock keep their types. *)
THEOREM TypeCorrect == Spec => []TypeOK
<1>1. Typed => TypeOK
  BY DEF Typed
<1> QED
  BY <1>1, TypedInit, TypedNext, PTL DEF Spec
-----------------------------------------------------------------------------
(* Whatever sweeps and purges delete, the occurrence that last_seen names  *)
(* is the last a group loses.                                              *)
LEMMA WitnessKept ==
    ASSUME Typed, LastSeenWitnessed, [Next]_vars
    PROVE  LastSeenWitnessed'
<1> USE DEF LastSeenWitnessed
<1>1. ASSUME NEW g \in Groups, NEW s \in Servers, NEW t \in 0..(MaxTime + Skew + 1),
             NEW fits \in BOOLEAN, Ingest(g, s, t, fits)
      PROVE  LastSeenWitnessed'
  <2>1. /\ groups' = groups \cup {g}
        /\ lastSeen' = [lastSeen EXCEPT ![g] = Clamp(t)]
        /\ \E row \in occurrences' : row.group = g /\ row.timestamp = Clamp(t)
        /\ occurrences \subseteq occurrences'
    <3> DEFINE row == [id |-> lastId + 1, group |-> g, server |-> s, timestamp |-> Clamp(t),
                       raw |-> KeepsRaw(hourCount[<<g, s, HourOf(Clamp(t))>>] + 1, fits)]
    <3>1. row.group = g /\ row.timestamp = Clamp(t)
      OBVIOUS
    <3>2. occurrences' = occurrences \cup {row} /\ groups' = groups \cup {g}
          /\ lastSeen' = [lastSeen EXCEPT ![g] = Clamp(t)]
      BY <1>1 DEF Ingest
    <3> HIDE DEF row
    <3> QED
      BY <3>1, <3>2
  <2>2. lastSeen'[g] = Clamp(t) /\ \A other \in Groups : other # g => lastSeen'[other] = lastSeen[other]
    BY <2>1 DEF Typed, TypeOK
  <2>3. groups \subseteq Groups
    BY DEF Typed, TypeOK
  <2> QED
    BY <2>1, <2>2, <2>3
<1>2. ASSUME NEW w \in {Window} \cup PurgeWindows, RunExpiry(w)
      PROVE  LastSeenWitnessed'
  <2> SUFFICES ASSUME NEW g \in groups'
               PROVE  \E o \in occurrences' : o.group = g /\ o.timestamp = lastSeen'[g]
    OBVIOUS
  <2>1. g \in groups /\ g \in Groups /\ ~(lastSeen[g] + w < now) /\ lastSeen'[g] = lastSeen[g]
    BY <1>2 DEF RunExpiry, DeleteGroups, Typed, TypeOK
  <2>2. PICK o \in occurrences : o.group = g /\ o.timestamp = lastSeen[g]
    BY <2>1
  <2>3. o \in occurrences'
    BY <1>2, <2>1, <2>2 DEF RunExpiry, Expired
  <2> QED
    BY <2>1, <2>2, <2>3
<1>3. ASSUME NEW gone, Purge(gone)
      PROVE  LastSeenWitnessed'
  BY <1>3 DEF Purge, DeleteGroups, Typed, TypeOK
<1>4. ASSUME NEW g \in Groups, MuteGroup(g) \/ ResolveGroup(g) \/ UnmuteGroup(g)
      PROVE  LastSeenWitnessed'
  BY <1>4 DEF MuteGroup, ResolveGroup, Mark, UnmuteGroup
<1>5. CASE Tick \/ UNCHANGED vars
  BY <1>5 DEF Tick, vars
<1> QED
  BY <1>1, <1>2, <1>3, <1>4, <1>5 DEF Next, PurgeServer, PurgeByStatus

(* Every group keeps the occurrence its last_seen names.                   *)
THEOREM LastSeenIsWitnessed == Spec => []LastSeenWitnessed
<1>1. Init => LastSeenWitnessed
  BY DEF Init, LastSeenWitnessed
<1>2. Typed /\ LastSeenWitnessed /\ [Next]_vars => LastSeenWitnessed'
  BY WitnessKept
<1> QED
  BY <1>1, <1>2, TypedInit, TypedNext, PTL DEF Spec

(* A group's status is attributed, and a group that comes back after it    *)
(* was deleted inherits no attribution.                                    *)
THEOREM AttributionHolds == Spec => []Attributed
<1>1. Init => Attributed
  BY DEF Init, Attributed
<1>2. Typed /\ Attributed /\ [Next]_vars => Attributed'
  <2> SUFFICES ASSUME Typed, Attributed, [Next]_vars
               PROVE  Attributed'
    OBVIOUS
  <2> USE DEF Typed, TypeOK, Attributed, Statuses
  <2>1. ASSUME NEW g \in Groups, NEW s \in Servers, NEW t \in 0..(MaxTime + Skew + 1),
               NEW fits \in BOOLEAN, Ingest(g, s, t, fits)
        PROVE  Attributed'
    <3>1. groups \subseteq groups' /\ UNCHANGED <<status, marks>>
      BY <2>1 DEF Ingest
    <3> QED
      BY <3>1
  <2>2. ASSUME NEW g \in Groups, NEW st \in {"muted", "resolved"}, Mark(g, st)
        PROVE  Attributed'
    BY <2>2 DEF Mark
  <2>3. ASSUME NEW g \in Groups, UnmuteGroup(g)
        PROVE  Attributed'
    BY <2>3 DEF UnmuteGroup, Unmarked
  <2>4. ASSUME NEW gone, DeleteGroups(gone)
        PROVE  Attributed'
    BY <2>4 DEF DeleteGroups
  <2>5. CASE Tick \/ UNCHANGED vars
    BY <2>5 DEF Tick, vars
  <2> HIDE DEF Typed, TypeOK, Attributed
  <2> QED
    BY <2>1, <2>2, <2>3, <2>4, <2>5
       DEF Next, MuteGroup, ResolveGroup, RunExpiry, Purge, PurgeServer, PurgeByStatus
<1> QED
  BY <1>1, <1>2, TypedInit, TypedNext, PTL DEF Spec
-----------------------------------------------------------------------------
(* What the hour counts and the raw cap rest on.                           *)

LEMMA HourOfBound ==
    ASSUME NEW t \in Nat
    PROVE  HourOf(t) \in Int /\ HourOf(t) <= t
<1>1. t % Hour \in Nat
  BY StoreAssumption
<1> QED
  BY <1>1 DEF HourOf

LEMMA HeldFinite ==
    ASSUME IsFiniteSet(occurrences), NEW g, NEW s, NEW b
    PROVE  IsFiniteSet(Held(g, s, b)) /\ Cardinality(Held(g, s, b)) \in Nat
<1>1. Held(g, s, b) \in SUBSET occurrences
  BY DEF Held
<1> QED
  BY <1>1, FS_Subset, FS_CardinalityType

(* Of a finite set of occurrences, a part that shrinks has no more raw     *)
(* ones than before.                                                       *)
LEMMA RawShrinks ==
    ASSUME NEW S, NEW T, IsFiniteSet(S), T \subseteq S
    PROVE  /\ IsFiniteSet({o \in S : o.raw}) /\ IsFiniteSet({o \in T : o.raw})
           /\ Cardinality({o \in T : o.raw}) \in Nat /\ Cardinality({o \in S : o.raw}) \in Nat
           /\ Cardinality({o \in T : o.raw}) <= Cardinality({o \in S : o.raw})
           /\ Cardinality({o \in S : o.raw}) <= Cardinality(S)
<1>1. {o \in S : o.raw} \in SUBSET S /\ {o \in T : o.raw} \in SUBSET {o \in S : o.raw}
  OBVIOUS
<1> QED
  BY <1>1, FS_Subset, FS_CardinalityType

HourInv ==
    /\ IsFiniteSet(occurrences)
    /\ HourCountsExact
    /\ RawCapped

(* One hour of one server in one group. *)
HourGood(g, s, b) ==
    LET held == Held(g, s, b) IN
    /\ hourCount[<<g, s, b>>] <= Cardinality(held)
    /\ b >= swept => hourCount[<<g, s, b>>] = Cardinality(held)
    /\ b >= swept => Cardinality({o \in held : o.raw}) <= RawCap

LEMMA HourInvParts ==
    HourCountsExact /\ RawCapped <=> \A g \in Groups, s \in Servers, b \in Stamps : HourGood(g, s, b)
  BY DEF HourCountsExact, RawCapped, HourGood

(* An hour that keeps its occurrences, its count and its place before the  *)
(* sweeps, or loses them all, stays good.                                  *)
LEMMA HourUntouched ==
    ASSUME Typed, IsFiniteSet(occurrences), NEW g \in Groups, NEW s \in Servers, NEW b \in Stamps,
           HourGood(g, s, b),
           Held(g, s, b)' = Held(g, s, b), hourCount'[<<g, s, b>>] = hourCount[<<g, s, b>>],
           b >= swept' => b >= swept
    PROVE  HourGood(g, s, b)'
  BY DEF HourGood

LEMMA IngestKeepsHours ==
    ASSUME Typed, HourInv,
           NEW g \in Groups, NEW s \in Servers, NEW t \in 0..(MaxTime + Skew + 1),
           NEW fits \in BOOLEAN, Ingest(g, s, t, fits)
    PROVE  HourInv'
<1> DEFINE stamp == Clamp(t)
           bucket == <<g, s, HourOf(stamp)>>
           keeps == KeepsRaw(hourCount[bucket] + 1, fits)
           row == [id |-> lastId + 1, group |-> g, server |-> s, timestamp |-> stamp, raw |-> keeps]
<1>1. row.id = lastId + 1 /\ row.group = g /\ row.server = s /\ row.timestamp = stamp /\ row.raw = keeps
  OBVIOUS
<1>2. keeps => hourCount[bucket] + 1 <= RawCap
  BY DEF KeepsRaw
<1>3. /\ occurrences' = occurrences \cup {row}
      /\ hourCount' = [hourCount EXCEPT ![bucket] = @ + 1]
      /\ swept' = swept
  BY DEF Ingest
<1> HIDE DEF stamp, keeps, row
<1>4. row \notin occurrences
  BY <1>1 DEF Typed, CountedOnce, TypeOK
<1>5. IsFiniteSet(occurrences')
  BY <1>3, FS_AddElement DEF HourInv
<1>6. ASSUME NEW g2 \in Groups, NEW s2 \in Servers, NEW b \in Stamps
      PROVE  HourGood(g2, s2, b)'
  <2> DEFINE held == Held(g2, s2, b)
  <2>1. HourGood(g2, s2, b) /\ IsFiniteSet(held) /\ Cardinality(held) \in Nat
    BY HourInvParts, HeldFinite DEF HourInv
  <2>2. hourCount \in [Groups \X Servers \X Stamps -> 0..MaxEvents] /\ lastId \in Nat
    BY DEF Typed, TypeOK
  <2>3. CASE bucket = <<g2, s2, b>>
    <3>1. held' = held \cup {row} /\ row \notin held
      BY <1>1, <1>3, <1>4, <2>3 DEF Held
    <3>2. hourCount'[<<g2, s2, b>>] = hourCount[<<g2, s2, b>>] + 1 /\ hourCount[<<g2, s2, b>>] \in Nat
      BY <1>3, <2>2, <2>3
    <3>3. Cardinality(held') = Cardinality(held) + 1
      BY <2>1, <3>1, FS_AddElement
    <3>4. b >= swept' => Cardinality({o \in held' : o.raw}) <= RawCap
      <4>1. SUFFICES ASSUME b >= swept
                     PROVE  Cardinality({o \in held' : o.raw}) <= RawCap
        BY <1>3
      <4>2. CASE keeps
        <5>1. Cardinality(held') <= RawCap
          BY <1>2, <2>1, <2>3, <3>3, <4>1, <4>2 DEF HourGood
        <5>2. IsFiniteSet(held')
          BY <2>1, <3>1, FS_AddElement
        <5>3. Cardinality({o \in held' : o.raw}) <= Cardinality(held')
              /\ Cardinality({o \in held' : o.raw}) \in Nat /\ Cardinality(held') \in Nat
          BY <5>2, RawShrinks, FS_CardinalityType
        <5> QED
          BY <5>1, <5>3, StoreAssumption
      <4>3. CASE ~keeps
        <5>1. {o \in held' : o.raw} = {o \in held : o.raw}
          BY <1>1, <3>1, <4>3
        <5> QED
          BY <2>1, <4>1, <5>1 DEF HourGood
      <4> QED
        BY <4>2, <4>3
    <3> QED
      BY <1>3, <2>1, <3>2, <3>3, <3>4 DEF HourGood
  <2>4. CASE bucket # <<g2, s2, b>>
    <3>1. held' = held
      BY <1>1, <1>3, <2>4 DEF Held
    <3>2. hourCount'[<<g2, s2, b>>] = hourCount[<<g2, s2, b>>]
      BY <1>3, <2>2, <2>4
    <3> QED
      BY <1>3, <2>1, <3>1, <3>2 DEF HourGood
  <2> QED
    BY <2>3, <2>4
<1>7. \A g2 \in Groups, s2 \in Servers, b \in Stamps : HourGood(g2, s2, b)'
  BY <1>6
<1>8. (HourCountsExact /\ RawCapped)'
  BY <1>7 DEF HourCountsExact, RawCapped, HourGood
<1> QED
  BY <1>5, <1>8 DEF HourInv

(* What is deleted is deleted whole: an hour keeps all its occurrences and *)
(* its count, or loses its count and, unless a sweep has cut into it, all  *)
(* its occurrences.                                                        *)
LEMMA SweepKeepsHours ==
    ASSUME Typed, HourInv, occurrences' \subseteq occurrences,
           swept' \in Nat, swept <= swept',
           \A g \in Groups, s \in Servers, b \in Stamps :
              \/ Held(g, s, b)' = Held(g, s, b) /\ hourCount'[<<g, s, b>>] = hourCount[<<g, s, b>>]
              \/ hourCount'[<<g, s, b>>] = 0 /\ (b >= swept' => Held(g, s, b)' = {})
    PROVE  HourInv'
<1>1. IsFiniteSet(occurrences')
  BY FS_Subset DEF HourInv
<1>2. ASSUME NEW g \in Groups, NEW s \in Servers, NEW b \in Stamps
      PROVE  HourGood(g, s, b)'
  <2>1. HourGood(g, s, b)
    BY HourInvParts DEF HourInv
  <2>2. b \in Nat /\ swept \in Nat
    BY StoreAssumption DEF Typed, TypeOK, Stamps
  <2>3. CASE Held(g, s, b)' = Held(g, s, b) /\ hourCount'[<<g, s, b>>] = hourCount[<<g, s, b>>]
    BY <2>1, <2>2, <2>3, HourUntouched DEF HourInv
  <2>4. CASE hourCount'[<<g, s, b>>] = 0 /\ (b >= swept' => Held(g, s, b)' = {})
    <3>1. Held(g, s, b)' \in SUBSET occurrences'
      BY DEF Held
    <3>2. Cardinality(Held(g, s, b)') \in Nat
      BY <1>1, <3>1, FS_Subset, FS_CardinalityType
    <3>3. b >= swept' => Cardinality(Held(g, s, b)') = 0
                         /\ Cardinality({o \in Held(g, s, b)' : o.raw}) = 0
      <4>1. {o \in {} : o.raw} = {}
        OBVIOUS
      <4> QED
        BY <2>4, <4>1, FS_EmptySet
    <3> QED
      BY <2>4, <3>2, <3>3, StoreAssumption DEF HourGood
  <2> QED
    BY <2>3, <2>4
<1>3. \A g \in Groups, s \in Servers, b \in Stamps : HourGood(g, s, b)'
  BY <1>2
<1>4. (HourCountsExact /\ RawCapped)'
  BY <1>3 DEF HourCountsExact, RawCapped, HourGood
<1> QED
  BY <1>1, <1>4 DEF HourInv

LEMMA ExpiryKeepsHours ==
    ASSUME Typed, HourInv, NEW w \in {Window} \cup PurgeWindows, RunExpiry(w)
    PROVE  HourInv'
<1> DEFINE gone == {g \in groups : lastSeen[g] + w < now}
<1>1. w \in Nat /\ now \in Nat /\ swept \in Nat
  BY StoreAssumption DEF Typed, TypeOK
<1>2. /\ occurrences' = {o \in occurrences : ~(o.timestamp + w < now) /\ o.group \notin gone}
      /\ hourCount' = [k \in DOMAIN hourCount |-> IF k[3] + w < now \/ k[1] \in gone THEN 0 ELSE hourCount[k]]
      /\ swept' = IF swept + w < now THEN now - w ELSE swept
  BY DEF RunExpiry, Expired, HourExpired
<1> HIDE DEF gone
<1>3. swept' \in Nat /\ swept <= swept' /\ (\A b \in Nat : b >= swept' => ~(b + w < now))
  BY <1>1, <1>2
<1>4. ASSUME NEW g \in Groups, NEW s \in Servers, NEW b \in Stamps
      PROVE  \/ Held(g, s, b)' = Held(g, s, b) /\ hourCount'[<<g, s, b>>] = hourCount[<<g, s, b>>]
             \/ hourCount'[<<g, s, b>>] = 0 /\ (b >= swept' => Held(g, s, b)' = {})
  <2>1. b \in Nat
    BY StoreAssumption DEF Stamps
  <2>2. <<g, s, b>> \in DOMAIN hourCount /\ <<g, s, b>>[1] = g /\ <<g, s, b>>[3] = b
    BY DEF Typed, TypeOK
  <2>3. hourCount'[<<g, s, b>>] = IF b + w < now \/ g \in gone THEN 0 ELSE hourCount[<<g, s, b>>]
    BY <1>2, <2>2
  <2>4. CASE g \in gone
    BY <1>2, <2>3, <2>4 DEF Held
  <2>5. CASE b + w < now
    BY <1>3, <2>1, <2>3, <2>5
  <2>6. CASE ~(b + w < now) /\ g \notin gone
    <3>1. ASSUME NEW o \in Held(g, s, b)
          PROVE  ~(o.timestamp + w < now) /\ o.group \notin gone
      <4>1. o \in occurrences /\ o.group = g /\ HourOf(o.timestamp) = b
        BY DEF Held
      <4>2. o.timestamp \in Nat
        BY <4>1, StoreAssumption DEF Typed, TypeOK, Occurrence, Stamps
      <4>3. b <= o.timestamp
        BY <4>1, <4>2, HourOfBound
      <4> QED
        BY <1>1, <2>1, <2>6, <4>1, <4>2, <4>3
    <3>2. Held(g, s, b)' = Held(g, s, b)
      BY <1>2, <3>1 DEF Held
    <3> QED
      BY <2>3, <2>6, <3>2
  <2> QED
    BY <2>4, <2>5, <2>6
<1>5. occurrences' \subseteq occurrences
  BY <1>2
<1> QED
  BY <1>3, <1>4, <1>5, SweepKeepsHours

LEMMA PurgeKeepsHours ==
    ASSUME Typed, HourInv, NEW gone, Purge(gone)
    PROVE  HourInv'
<1>1. /\ occurrences' = {o \in occurrences : o.group \notin gone}
      /\ hourCount' = [k \in DOMAIN hourCount |-> IF k[1] \in gone THEN 0 ELSE hourCount[k]]
      /\ swept' = swept
  BY DEF Purge
<1>2. ASSUME NEW g \in Groups, NEW s \in Servers, NEW b \in Stamps
      PROVE  \/ Held(g, s, b)' = Held(g, s, b) /\ hourCount'[<<g, s, b>>] = hourCount[<<g, s, b>>]
             \/ hourCount'[<<g, s, b>>] = 0 /\ (b >= swept' => Held(g, s, b)' = {})
  <2>1. <<g, s, b>> \in DOMAIN hourCount /\ <<g, s, b>>[1] = g
    BY DEF Typed, TypeOK
  <2>2. hourCount'[<<g, s, b>>] = IF g \in gone THEN 0 ELSE hourCount[<<g, s, b>>]
    BY <1>1, <2>1
  <2> QED
    BY <1>1, <2>2 DEF Held
<1>3. occurrences' \subseteq occurrences /\ swept' \in Nat /\ swept <= swept'
  BY <1>1, StoreAssumption DEF Typed, TypeOK
<1> QED
  BY <1>2, <1>3, SweepKeepsHours

LEMMA HourInvCorrect == Spec => []HourInv
<1>1. Init => HourInv
  <2> SUFFICES ASSUME Init
               PROVE  HourInv
    OBVIOUS
  <2>1. \A g, s, b : Held(g, s, b) = {}
    BY DEF Init, Held
  <2>2. {o \in {} : o.raw} = {}
    OBVIOUS
  <2>3. RawCapped
    BY <2>1, <2>2, FS_EmptySet, StoreAssumption DEF RawCapped
  <2>4. HourCountsExact
    <3>1. \A g \in Groups, s \in Servers, b \in Stamps : hourCount[<<g, s, b>>] = 0
      BY DEF Init
    <3>2. Cardinality({}) = 0
      BY FS_EmptySet
    <3>3. ASSUME NEW g \in Groups, NEW s \in Servers, NEW b \in Stamps
          PROVE  /\ hourCount[<<g, s, b>>] <= Cardinality(Held(g, s, b))
                 /\ hourCount[<<g, s, b>>] = Cardinality(Held(g, s, b))
      <4>1. Cardinality(Held(g, s, b)) = 0
        BY <2>1, <3>2
      <4> QED
        BY <3>1, <4>1
    <3> QED
      BY <3>3 DEF HourCountsExact
  <2> QED
    BY <2>3, <2>4, FS_EmptySet DEF HourInv, Init
<1>2. Typed /\ HourInv /\ [Next]_vars => HourInv'
  <2> SUFFICES ASSUME Typed, HourInv, [Next]_vars
               PROVE  HourInv'
    OBVIOUS
  <2>1. ASSUME UNCHANGED <<occurrences, hourCount, swept>>
        PROVE  HourInv'
    BY <2>1 DEF HourInv, HourCountsExact, RawCapped, Held
  <2>2. ASSUME NEW g \in Groups, MuteGroup(g) \/ ResolveGroup(g) \/ UnmuteGroup(g)
        PROVE  HourInv'
    BY <2>1, <2>2 DEF MuteGroup, ResolveGroup, Mark, UnmuteGroup
  <2>3. CASE Tick \/ UNCHANGED vars
    BY <2>1, <2>3 DEF Tick, vars
  <2> QED
    <3>1. ASSUME NEW gone, Purge(gone)
          PROVE  HourInv'
      BY <3>1, PurgeKeepsHours
    <3>2. ASSUME NEW w \in {Window} \cup PurgeWindows, RunExpiry(w)
          PROVE  HourInv'
      BY <3>2, ExpiryKeepsHours
    <3>3. ASSUME NEW g \in Groups, NEW s \in Servers, NEW t \in 0..(MaxTime + Skew + 1),
                 NEW fits \in BOOLEAN, Ingest(g, s, t, fits)
          PROVE  HourInv'
      BY <3>3, IngestKeepsHours
    <3> QED
      BY <2>2, <2>3, <3>1, <3>2, <3>3 DEF Next, PurgeServer, PurgeByStatus
<1> QED
  BY <1>1, <1>2, TypedInit, TypedNext, PTL DEF Spec

(* server_hour_counts and occurrences agree on every hour no sweep has cut *)
(* into, and the counts claim too much of none.                            *)
THEOREM HourCountsAreExact == Spec => []HourCountsExact
<1>1. HourInv => HourCountsExact
  BY DEF HourInv
<1> QED
  BY <1>1, HourInvCorrect, PTL

(* No hour keeps more than RAW_EVENT_CAP payloads of a group and a server. *)
THEOREM RawIsCapped == Spec => []RawCapped
<1>1. HourInv => RawCapped
  BY DEF HourInv
<1> QED
  BY <1>1, HourInvCorrect, PTL
=============================================================================
