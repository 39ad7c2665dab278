-------------------------- MODULE MigrationProofs --------------------------
(***************************************************************************)
(* TLAPS proofs about Migration, for any table: any number of rows, traces, *)
(* texts and times.                                                        *)
(***************************************************************************)
EXTENDS Migration, FiniteSetTheorems, TLAPS

Held(i) == {o \in occurrences[i] : latest[o] # None}

(* A row before its turn is as the snapshot has it, but for what it has    *)
(* been given.                                                             *)
Waiting(i) ==
    /\ i \in live /\ i \in occurrences[i] /\ i \notin dropped
    /\ fingerprint[i] = before[i]
    /\ i \in posted => messageId[i] = i

WaitInv == \A i \in Ids : next <= i => Waiting(i)

(* What belongs to row i is in one row, g.                                 *)
Home(i, g) ==
    /\ \A h \in Ids : (i \in occurrences[h] <=> h = g) /\ (i \in hours[h] <=> h = g)
    /\ attempts[i] = fingerprint[g]

HomeInv == \A i \in Ids : \E g \in live : Home(i, g)

(* A group's message came with a row it holds, so no two track the same.   *)
PlaceInv ==
    /\ \A g \in live : messageId[g] \in occurrences[g] \cup {None}
    /\ \A g \in live : messageId[g] \notin pendingDeletes
    /\ \A m \in posted \ dropped : m \in pendingDeletes \/ \E g \in live : messageId[g] = m

CountInv == \A g \in live : counted[g] = occurrences[g] \ dropped

FlagInv ==
    \A g \in live : fingerprint[g] # before[g] \/ counted[g] # {g} \/ messageId[g] \notin {g, None}
        => hasActivity[g]

(* A group past its turn has the fingerprint of the newest it holds.       *)
Newest(i, o) == o \in Held(i) /\ \A other \in Held(i) : Newer(o, other)

SettledInv ==
    \A i \in live : i < next => \E x \in Texts :
        /\ fingerprint[i] = <<trace[i], x>>
        /\ \A o \in Ids : Newest(i, o) => latest[o].text = x

MigrationInv == TypeOK /\ WaitInv /\ HomeInv /\ PlaceInv /\ CountInv /\ FlagInv /\ SettledInv
-----------------------------------------------------------------------------

(* The part of TypeOK the choice of a text rests on.                       *)
Typed ==
    /\ trace \in [Ids -> Traces] /\ template \in [Ids -> Texts]
    /\ latest \in [Ids -> Occurrence \cup {None}]
    /\ occurrences \in [Ids -> SUBSET Ids]

(* Two occurrences are never newer than each other, and one of them is.    *)
LEMMA NewerOrders ==
    ASSUME Typed, NEW a \in Ids, NEW b \in Ids, NEW c \in Ids,
           latest[a] # None, latest[b] # None, latest[c] # None
    PROVE  /\ Newer(a, b) \/ Newer(b, a)
           /\ Newer(a, b) /\ Newer(b, a) => a = b
           /\ Newer(a, b) /\ Newer(b, c) => Newer(a, c)
<1>1. latest[a].time \in Nat /\ latest[b].time \in Nat /\ latest[c].time \in Nat
  BY MigrationAssumption DEF Typed, Occurrence
<1>2. a \in Nat /\ b \in Nat /\ c \in Nat
  BY DEF Ids
<1> QED
  BY <1>1, <1>2 DEF Newer

(* Of finitely many occurrences one is the newest: the one that the fewest *)
(* are newer than.                                                         *)
LEMMA NewestExists ==
    ASSUME Typed, NEW i \in Ids, Held(i) # {}
    PROVE  \E o \in Held(i) : \A other \in Held(i) : Newer(o, other)
<1> DEFINE Above(o) == {p \in Held(i) : ~Newer(o, p)}
           T == {Above(o) : o \in Held(i)}
<1>1. Held(i) \subseteq Ids /\ \A o \in Held(i) : latest[o] # None
  BY DEF Held, Typed
<1>2. IsFiniteSet(Ids)
  BY MigrationAssumption, FS_Interval DEF Ids
<1>3. IsWellFoundedOn(StrictSubsetOrdering(Ids), FiniteSubsetsOf(Ids))
  BY FS_StrictSubsetOrderingWellFounded
<1>4. T \subseteq FiniteSubsetsOf(Ids) /\ T # {}
  <2>1. \A o \in Held(i) : Above(o) \subseteq Ids /\ IsFiniteSet(Above(o))
    BY <1>1, <1>2, FS_Subset
  <2> QED
    BY <2>1 DEF FiniteSubsetsOf
<1>5. PICK S \in T : \A R \in T : <<R, S>> \notin StrictSubsetOrdering(Ids)
  <2> HIDE DEF T
  <2> QED
    BY <1>3, <1>4, WFMin
<1>6. PICK o \in Held(i) : S = Above(o)
  BY <1>5
<1>7. ASSUME NEW p \in Above(o)
      PROVE  FALSE
  <2>1. p \in Held(i) /\ ~Newer(o, p) /\ Newer(p, o)
    BY <1>1, <1>7, NewerOrders
  <2>2. Above(p) \subseteq Above(o)
    BY <1>1, <2>1, NewerOrders
  <2>3. Newer(p, p)
    BY <1>1, <2>1, NewerOrders
  <2>4. Above(p) # Above(o)
    BY <1>7, <2>3
  <2>5. Above(p) \in SUBSET Ids /\ Above(o) \in SUBSET Ids
    BY <1>1
  <2>6. <<Above(p), Above(o)>> \in StrictSubsetOrdering(Ids)
    BY <2>2, <2>4, <2>5 DEF StrictSubsetOrdering
  <2>7. Above(p) \in T
    BY <2>1
  <2> QED
    BY <1>5, <1>6, <2>6, <2>7
<1> QED
  BY <1>7

LEMMA TypedParts == TypeOK => Typed
BY DEF TypeOK, Typed

(* The text of a group is that of its newest occurrence, or its template.  *)
LEMMA TextOfNewest ==
    ASSUME Typed, NEW i \in Ids
    PROVE  /\ Text(i) \in Texts
           /\ \A o \in Ids : Newest(i, o) => latest[o].text = Text(i)
<1>1. Held(i) \subseteq Ids /\ \A o \in Held(i) : latest[o] # None /\ latest[o].text \in Texts
  BY DEF Held, Typed, Occurrence
<1>2. CASE Held(i) = {}
  BY <1>2 DEF Text, Held, Newest, Typed
<1>3. CASE Held(i) # {}
  <2> DEFINE c == CHOOSE o \in Held(i) : \A other \in Held(i) : Newer(o, other)
  <2>1. c \in Held(i) /\ \A other \in Held(i) : Newer(c, other)
    BY <1>3, NewestExists
  <2>2. Text(i) = latest[c].text
    BY <1>3 DEF Text, Held
  <2> HIDE DEF c
  <2>3. ASSUME NEW o \in Ids, Newest(i, o)
        PROVE  o = c
    <3>1. o \in Held(i) /\ Newer(o, c) /\ Newer(c, o)
      BY <2>1, <2>3 DEF Newest
    <3> QED
      BY <1>1, <2>1, <3>1, NewerOrders
  <2> QED
    BY <1>1, <2>1, <2>2, <2>3
<1> QED
  BY <1>2, <1>3

LEMMA NewFpTyped ==
    ASSUME TypeOK, NEW i \in Ids
    PROVE  NewFp(i) \in Fingerprints
BY TypedParts, TextOfNewest DEF NewFp, Fingerprints, TypeOK

LEMMA TypedNext ==
    ASSUME TypeOK, [Next]_vars
    PROVE  TypeOK'
<1>1. ASSUME NEW i \in Ids, Row(i)
      PROVE  next' \in 1..(Rows + 1)
  BY <1>1, MigrationAssumption DEF Row, Ids
<1>2. ASSUME NEW i \in Ids, Keep(i)
      PROVE  TypeOK'
  BY <1>1, <1>2 DEF Keep, TypeOK, content, moved
<1>3. ASSUME NEW i \in Ids, Rename(i)
      PROVE  TypeOK'
  <2>1. NewFp(i) \in Fingerprints /\ Text(i) \in Texts
    BY NewFpTyped, TypedParts, TextOfNewest
  <2>2. attempts' \in [Ids -> Fingerprints]
    BY <1>3, <2>1 DEF Rename, Readdressed, TypeOK
  <2>3. \A g, h \in live : fingerprint'[g] = fingerprint'[h] => g = h
    BY <1>3 DEF Rename, Winners, TypeOK
  <2>4. /\ fingerprint' \in [Ids -> Fingerprints] /\ template' \in [Ids -> Texts]
        /\ hasActivity' \in [Ids -> BOOLEAN]
    BY <1>3, <2>1 DEF Rename, TypeOK
  <2> QED
    BY <1>1, <1>3, <2>2, <2>3, <2>4 DEF Rename, TypeOK
<1>4. ASSUME NEW i \in Ids, Merge(i)
      PROVE  TypeOK'
  <2>1. PICK w \in Winners(i) :
        /\ counted' = [counted EXCEPT ![w] = @ \cup Brought(i), ![i] = {}]
        /\ hasActivity' = [Flags(w) EXCEPT ![i] = FALSE]
        /\ occurrences' = [occurrences EXCEPT ![w] = @ \cup occurrences[i], ![i] = {}]
        /\ hours' = [hours EXCEPT ![w] = @ \cup hours[i], ![i] = {}]
        /\ messageId' = [messageId EXCEPT ![w] = IF i \in posted /\ Adopts(w) THEN i ELSE @,
                                          ![i] = None]
        /\ pendingDeletes' = IF i \in posted /\ ~Adopts(w) THEN pendingDeletes \cup {i}
                             ELSE pendingDeletes
        /\ attempts' = Readdressed(before[i], NewFp(i))
        /\ live' = live \ {i}
        /\ dropped' = dropped \cup (occurrences[i] \ {i})
    BY <1>4 DEF Merge
  <2>2. w \in Ids
    BY DEF Winners, TypeOK
  <2>3. NewFp(i) \in Fingerprints
    BY NewFpTyped
  <2>4. attempts' \in [Ids -> Fingerprints]
    BY <2>1, <2>3 DEF Readdressed, TypeOK
  <2>5. counted' \in [Ids -> SUBSET Ids]
    BY <2>1, <2>2 DEF TypeOK, Brought
  <2>6. occurrences' \in [Ids -> SUBSET Ids] /\ hours' \in [Ids -> SUBSET Ids]
    BY <2>1, <2>2 DEF TypeOK
  <2>7. messageId' \in [Ids -> Ids \cup {None}] /\ pendingDeletes' \subseteq Ids
    BY <2>1, <2>2 DEF TypeOK
  <2>8. hasActivity' \in [Ids -> BOOLEAN]
    BY <2>1, <2>2 DEF TypeOK, Flags
  <2>9. dropped' \subseteq Ids /\ live' \subseteq live
    BY <2>1 DEF TypeOK
  <2> QED
    BY <1>1, <1>4, <2>4, <2>5, <2>6, <2>7, <2>8, <2>9 DEF Merge, TypeOK
<1>5. UNCHANGED vars => TypeOK'
  BY DEF vars, content, moved, TypeOK
<1> QED
  BY <1>2, <1>3, <1>4, <1>5 DEF Next, Done

LEMMA TypedInit == Init => TypeOK
BY MigrationAssumption DEF Init, TypeOK, Ids

(* Every column keeps its type, and no two rows ever share a fingerprint,  *)
(* as the table's unique index demands: a row is renamed only to what no   *)
(* row has, and one that would collide is merged instead.                  *)
THEOREM TypeCorrect == Spec => []TypeOK
<1>1. TypeOK /\ [Next]_vars => TypeOK'
  BY TypedNext
<1> QED
  BY <1>1, TypedInit, PTL DEF Spec
-----------------------------------------------------------------------------
(* What a merge of row i into group w leaves, group by group.              *)
Merged(i, w) ==
    /\ next = i /\ next' = i + 1
    /\ w \in live /\ w # i /\ fingerprint[w] = NewFp(i) /\ live' = live \ {i}
    /\ counted'[w] = counted[w] \cup {i} /\ hasActivity'[w] = TRUE
    /\ occurrences'[w] = occurrences[w] \cup occurrences[i] /\ occurrences'[i] = {}
    /\ hours'[w] = hours[w] \cup hours[i] /\ hours'[i] = {}
    /\ messageId'[w] = IF i \in posted /\ messageId[w] = None THEN i ELSE messageId[w]
    /\ pendingDeletes' = IF i \in posted /\ messageId[w] # None THEN pendingDeletes \cup {i}
                         ELSE pendingDeletes
    /\ dropped' = dropped \cup (occurrences[i] \ {i})
    /\ \A a \in Ids : attempts'[a] = IF attempts[a] = before[i] THEN NewFp(i) ELSE attempts[a]
    /\ \A g \in Ids \ {i, w} :
          /\ counted'[g] = counted[g] /\ hasActivity'[g] = hasActivity[g]
          /\ occurrences'[g] = occurrences[g] /\ hours'[g] = hours[g]
          /\ messageId'[g] = messageId[g]
    /\ UNCHANGED <<fingerprint, template, trace, latest, before, posted>>

LEMMA MergeStep ==
    ASSUME TypeOK, WaitInv, NEW i \in Ids, Merge(i)
    PROVE  \E w \in Ids : Merged(i, w)
<1>1. PICK w \in Winners(i) :
      /\ counted' = [counted EXCEPT ![w] = @ \cup Brought(i), ![i] = {}]
      /\ hasActivity' = [Flags(w) EXCEPT ![i] = FALSE]
      /\ occurrences' = [occurrences EXCEPT ![w] = @ \cup occurrences[i], ![i] = {}]
      /\ hours' = [hours EXCEPT ![w] = @ \cup hours[i], ![i] = {}]
      /\ messageId' = [messageId EXCEPT ![w] = IF i \in posted /\ Adopts(w) THEN i ELSE @,
                                        ![i] = None]
      /\ pendingDeletes' = IF i \in posted /\ ~Adopts(w) THEN pendingDeletes \cup {i}
                           ELSE pendingDeletes
      /\ attempts' = Readdressed(before[i], NewFp(i))
      /\ live' = live \ {i}
      /\ dropped' = dropped \cup (occurrences[i] \ {i})
  BY DEF Merge
<1>2. next = i /\ next' = i + 1 /\ NewFp(i) # before[i]
      /\ UNCHANGED <<fingerprint, template, trace, latest, before, posted>>
  BY DEF Merge, Row
<1>3. w \in live /\ w \in Ids /\ fingerprint[w] = NewFp(i)
  BY DEF Winners, TypeOK
<1>4. w # i
  <2>1. i <= i
    BY DEF Ids
  <2> QED
    BY <1>2, <1>3, <2>1 DEF WaitInv, Waiting
<1>5. /\ counted'[w] = counted[w] \cup {i}
      /\ \A g \in Ids \ {i, w} : counted'[g] = counted[g]
  BY <1>1, <1>3, <1>4 DEF Brought, TypeOK
<1>6. /\ hasActivity'[w] = TRUE
      /\ \A g \in Ids \ {i, w} : hasActivity'[g] = hasActivity[g]
  BY <1>1, <1>3, <1>4, Zenon DEF Flags, TypeOK
<1>7. /\ occurrences'[w] = occurrences[w] \cup occurrences[i] /\ occurrences'[i] = {}
      /\ hours'[w] = hours[w] \cup hours[i] /\ hours'[i] = {}
      /\ \A g \in Ids \ {i, w} : occurrences'[g] = occurrences[g] /\ hours'[g] = hours[g]
  BY <1>1, <1>3, <1>4 DEF TypeOK
<1>8. /\ messageId'[w] = IF i \in posted /\ messageId[w] = None THEN i ELSE messageId[w]
      /\ \A g \in Ids \ {i, w} : messageId'[g] = messageId[g]
  BY <1>1, <1>3, <1>4 DEF TypeOK, Adopts
<1>9. pendingDeletes' = IF i \in posted /\ messageId[w] # None THEN pendingDeletes \cup {i}
                        ELSE pendingDeletes
  BY <1>1 DEF Adopts
<1>10. \A a \in Ids : attempts'[a] = IF attempts[a] = before[i] THEN NewFp(i) ELSE attempts[a]
  BY <1>1 DEF Readdressed
<1> QED
  BY <1>1, <1>2, <1>3, <1>4, <1>5, <1>6, <1>7, <1>8, <1>9, <1>10 DEF Merged

(* A step is the end, or the turn of a row that is as it was.              *)
LEMMA Turn ==
    ASSUME TypeOK, WaitInv, [Next]_vars
    PROVE  \/ UNCHANGED vars
           \/ \E i \in Ids :
                /\ next = i /\ next' = i + 1 /\ Waiting(i)
                /\ Keep(i) \/ Rename(i) \/ \E w \in Ids : Merged(i, w)
<1>1. ASSUME NEW i \in Ids, Keep(i) \/ Rename(i) \/ Merge(i)
      PROVE  next = i /\ next' = i + 1 /\ Waiting(i)
  <2>1. next = i /\ next' = i + 1 /\ i <= i
    BY <1>1 DEF Keep, Rename, Merge, Row, Ids
  <2> QED
    BY <2>1 DEF WaitInv
<1> QED
  BY <1>1, MergeStep DEF Next, Done

LEMMA WaitNext ==
    ASSUME TypeOK, WaitInv, HomeInv, [Next]_vars
    PROVE  WaitInv'
<1>1. CASE UNCHANGED vars
  BY <1>1 DEF vars, content, moved, WaitInv, Waiting
<1>2. ASSUME NEW i \in Ids, next = i, next' = i + 1,
             Keep(i) \/ Rename(i) \/ \E w \in Ids : Merged(i, w),
             NEW j \in Ids, next' <= j
      PROVE  Waiting(j)'
  <2>1. Waiting(j) /\ j # i
    BY <1>2 DEF WaitInv, Ids
  <2>2. CASE Keep(i)
    BY <2>1, <2>2 DEF Keep, Waiting, content, moved
  <2>3. CASE Rename(i)
    BY <2>1, <2>3 DEF Rename, Waiting, TypeOK
  <2>4. ASSUME NEW w \in Ids, Merged(i, w)
        PROVE  Waiting(j)'
    <3>1. j \notin occurrences[i]
      BY <2>1 DEF HomeInv, Home, Waiting
    <3>2. j \in posted => messageId'[j] = j
      <4>1. j \in posted => messageId[j] # None
        BY <2>1, MigrationAssumption DEF Waiting, Ids
      <4> QED
        BY <2>1, <2>4, <4>1 DEF Merged, Waiting
    <3> QED
      BY <2>1, <2>4, <3>1, <3>2 DEF Merged, Waiting
  <2> QED
    BY <1>2, <2>2, <2>3, <2>4
<1> QED
  BY <1>1, <1>2, Turn DEF WaitInv

LEMMA HomeNext ==
    ASSUME TypeOK, WaitInv, HomeInv, [Next]_vars
    PROVE  HomeInv'
<1>1. CASE UNCHANGED vars
  BY <1>1 DEF vars, content, moved, HomeInv, Home
<1>2. ASSUME NEW i \in Ids, Waiting(i), Keep(i) \/ Rename(i) \/ \E w \in Ids : Merged(i, w),
             NEW a \in Ids
      PROVE  \E g \in live' : Home(a, g)'
  <2>1. PICK g \in live : Home(a, g)
    BY DEF HomeInv
  <2>2. g \in Ids /\ (attempts[a] = before[i] <=> g = i)
    BY <1>2, <2>1 DEF Home, Waiting, TypeOK
  <2>3. CASE Keep(i)
    BY <2>1, <2>3 DEF Keep, Home, content, moved
  <2>4. CASE Rename(i)
    <3>1. /\ fingerprint'[g] = IF g = i THEN NewFp(i) ELSE fingerprint[g]
          /\ attempts'[a] = IF g = i THEN NewFp(i) ELSE attempts[a]
          /\ UNCHANGED <<live, occurrences, hours>>
      BY <2>2, <2>4 DEF Rename, Readdressed, TypeOK
    <3>2. Home(a, g)'
      BY <2>1, <3>1 DEF Home
    <3> QED
      BY <3>1, <3>2
  <2>5. ASSUME NEW w \in Ids, Merged(i, w)
        PROVE  \E h \in live' : Home(a, h)'
    <3>1. CASE g = i
      <4>1. attempts'[a] = fingerprint'[w] /\ w \in live'
        BY <2>2, <2>5, <3>1 DEF Merged
      <4>2. ASSUME NEW h \in Ids
            PROVE  (a \in occurrences'[h] <=> h = w) /\ (a \in hours'[h] <=> h = w)
        BY <1>2, <2>1, <2>5, <3>1 DEF Merged, Home
      <4> QED
        BY <4>1, <4>2 DEF Home
    <3>2. CASE g # i
      <4>1. attempts'[a] = fingerprint'[g] /\ g \in live'
        BY <2>1, <2>2, <2>5, <3>2 DEF Merged, Home
      <4>2. ASSUME NEW h \in Ids
            PROVE  (a \in occurrences'[h] <=> h = g) /\ (a \in hours'[h] <=> h = g)
        BY <1>2, <2>1, <2>5, <3>2 DEF Merged, Home
      <4> QED
        BY <4>1, <4>2 DEF Home
    <3> QED
      BY <3>1, <3>2
  <2> QED
    BY <1>2, <2>3, <2>4, <2>5
<1> QED
  BY <1>1, <1>2, Turn DEF HomeInv

LEMMA CountNext ==
    ASSUME TypeOK, WaitInv, HomeInv, CountInv, [Next]_vars
    PROVE  CountInv'
<1>1. CASE UNCHANGED vars
  BY <1>1 DEF vars, content, moved, CountInv
<1>2. ASSUME NEW i \in Ids, Waiting(i), Keep(i) \/ Rename(i) \/ \E w \in Ids : Merged(i, w),
             NEW g \in live'
      PROVE  counted'[g] = occurrences'[g] \ dropped'
  <2>1. CASE Keep(i) \/ Rename(i)
    BY <1>2, <2>1 DEF Keep, Rename, CountInv, content, moved
  <2>2. ASSUME NEW w \in Ids, Merged(i, w)
        PROVE  counted'[g] = occurrences'[g] \ dropped'
    <3>1. g \in live /\ g \in Ids /\ g # i /\ counted[g] = occurrences[g] \ dropped
      BY <2>2 DEF Merged, CountInv, TypeOK
    <3>2. occurrences[g] \in SUBSET Ids /\ occurrences[g] \cap occurrences[i] = {}
      BY <3>1 DEF TypeOK, HomeInv, Home
    <3>3. i \in occurrences[i] /\ i \notin dropped /\ dropped' = dropped \cup (occurrences[i] \ {i})
      BY <1>2, <2>2 DEF Waiting, Merged
    <3>4. CASE g = w
      BY <2>2, <3>1, <3>2, <3>3, <3>4 DEF Merged
    <3>5. CASE g # w
      BY <2>2, <3>1, <3>2, <3>3, <3>5 DEF Merged
    <3> QED
      BY <3>4, <3>5
  <2> QED
    BY <1>2, <2>1, <2>2
<1> QED
  BY <1>1, <1>2, Turn DEF CountInv

LEMMA PlaceNext ==
    ASSUME TypeOK, WaitInv, HomeInv, PlaceInv, [Next]_vars
    PROVE  PlaceInv'
<1>1. CASE UNCHANGED <<live, messageId, occurrences, pendingDeletes, posted, dropped>>
  BY <1>1 DEF PlaceInv
<1>2. ASSUME NEW i \in Ids, Waiting(i), NEW w \in Ids, Merged(i, w)
      PROVE  PlaceInv'
  <2>1. /\ \A g \in live' : g \in live /\ g # i /\ g \in Ids
        /\ i \in live /\ w \in live' /\ i # None /\ w # i
        /\ i \in occurrences[i] /\ (i \in posted => i \notin pendingDeletes)
    BY <1>2, MigrationAssumption DEF Merged, Waiting, PlaceInv, TypeOK, Ids
  <2>2. \A g \in live' : messageId[g] # i
    BY <1>2, <2>1 DEF PlaceInv, HomeInv, Home
  <2>3. ASSUME NEW g \in live'
        PROVE  /\ messageId'[g] \in occurrences'[g] \cup {None}
               /\ messageId'[g] \notin pendingDeletes'
    <3>1. messageId[g] \in occurrences[g] \cup {None} /\ messageId[g] \notin pendingDeletes
      BY <2>1 DEF PlaceInv
    <3>2. CASE g = w
      BY <1>2, <2>1, <2>2, <3>1, <3>2 DEF Merged, Waiting
    <3>3. CASE g # w
      BY <1>2, <2>1, <2>2, <3>1, <3>3 DEF Merged
    <3> QED
      BY <3>2, <3>3
  <2>4. ASSUME NEW m \in posted' \ dropped'
        PROVE  m \in pendingDeletes' \/ \E g \in live' : messageId'[g] = m
    <3>1. m \in posted /\ m \notin dropped /\ (m \in occurrences[i] => m = i) /\ m \in Ids
      BY <1>2, <2>4 DEF Merged, TypeOK
    <3>2. CASE m \in pendingDeletes
      BY <1>2, <3>2 DEF Merged
    <3>3. ASSUME NEW g \in live, messageId[g] = m
          PROVE  m \in pendingDeletes' \/ \E h \in live' : messageId'[h] = m
      <4>1. m # None
        BY <3>1, MigrationAssumption DEF Ids
      <4>2. CASE g = i
        <5>1. m = i
          BY <3>1, <3>3, <4>1, <4>2 DEF PlaceInv
        <5> QED
          BY <1>2, <2>1, <3>1, <5>1 DEF Merged
      <4>3. CASE g # i
        <5>1. g \in live' /\ messageId'[g] = messageId[g]
          BY <1>2, <3>3, <4>1, <4>3 DEF Merged, TypeOK
        <5> QED
          BY <3>3, <5>1
      <4> QED
        BY <4>2, <4>3
    <3> QED
      BY <3>1, <3>2, <3>3 DEF PlaceInv
  <2> QED
    BY <2>3, <2>4 DEF PlaceInv
<1>3. \A i \in Ids : Keep(i) \/ Rename(i) =>
          UNCHANGED <<live, messageId, occurrences, pendingDeletes, posted, dropped>>
  BY DEF Keep, Rename, content, moved
<1>4. UNCHANGED vars => UNCHANGED <<live, messageId, occurrences, pendingDeletes, posted, dropped>>
  BY DEF vars, content, moved
<1> QED
  BY <1>1, <1>2, <1>3, <1>4, Turn

LEMMA FlagNext ==
    ASSUME TypeOK, WaitInv, FlagInv, [Next]_vars
    PROVE  FlagInv'
<1>1. ASSUME NEW i \in Ids, Rename(i), NEW g \in live'
      PROVE  g = i \/ fingerprint'[g] = fingerprint[g]
  BY <1>1 DEF Rename, TypeOK
<1>2. \A i \in Ids : Rename(i) => FlagInv'
  BY <1>1 DEF Rename, FlagInv, TypeOK
<1>3. \A i, w \in Ids : Merged(i, w) => FlagInv'
  BY DEF Merged, FlagInv, TypeOK
<1>4. (UNCHANGED vars \/ \E i \in Ids : Keep(i)) => FlagInv'
  BY DEF Keep, vars, content, moved, FlagInv
<1> QED
  BY <1>2, <1>3, <1>4, Turn

LEMMA SettledNext ==
    ASSUME TypeOK, WaitInv, SettledInv, [Next]_vars
    PROVE  SettledInv'
<1> DEFINE Right(g) == \E x \in Texts : /\ fingerprint[g] = <<trace[g], x>>
                                        /\ \A o \in Ids : Newest(g, o) => latest[o].text = x
<1>1. CASE UNCHANGED vars
  BY <1>1 DEF vars, content, moved, SettledInv, Newest, Held, Newer
<1>2. ASSUME NEW i \in Ids, next = i, next' = i + 1, Waiting(i),
             Keep(i) \/ Rename(i) \/ \E w \in Ids : Merged(i, w),
             NEW g \in live', g < next'
      PROVE  Right(g)'
  <2>1. g \in Ids /\ g \in live /\ (g # i => g < next)
    <3>1. live' \subseteq live
      BY <1>2 DEF Keep, Rename, Merged
    <3> QED
      BY <1>2, <3>1 DEF TypeOK, Ids
  <2>2. g # i => Right(g)
    BY <2>1 DEF SettledInv
  <2>3. /\ NewFp(i) = <<trace[i], Text(i)>> /\ Text(i) \in Texts
        /\ \A o \in Ids : Newest(i, o) => latest[o].text = Text(i)
    BY TypedParts, TextOfNewest DEF NewFp
  <2>4. CASE Keep(i) \/ Rename(i)
    <3>1. UNCHANGED <<trace, latest, occurrences>>
      BY <2>4 DEF Keep, Rename, moved
    <3>2. \A o \in Ids : Newest(g, o)' => Newest(g, o)
      BY <3>1 DEF Newest, Held, Newer
    <3>3. g = i => fingerprint'[g] = NewFp(i)
      BY <1>2, <2>4 DEF Keep, Rename, Waiting, TypeOK, content
    <3>4. g # i => fingerprint'[g] = fingerprint[g]
      BY <2>1, <2>4 DEF Keep, Rename, TypeOK, content
    <3>5. CASE g = i
      BY <2>3, <3>1, <3>2, <3>3, <3>5
    <3>6. CASE g # i
      BY <2>2, <3>1, <3>2, <3>4, <3>6
    <3> QED
      BY <3>5, <3>6
  <2>5. ASSUME NEW w \in Ids, Merged(i, w)
        PROVE  Right(g)'
    <3>1. UNCHANGED <<fingerprint, trace, latest>> /\ g # i
      BY <2>5 DEF Merged
    <3>2. PICK x \in Texts : /\ fingerprint[g] = <<trace[g], x>>
                             /\ \A o \in Ids : Newest(g, o) => latest[o].text = x
      BY <2>2, <3>1
    <3>3. CASE g = w
      <4>1. x = Text(i)
        BY <2>3, <2>5, <3>2, <3>3 DEF Merged
      <4>2. ASSUME NEW o \in Ids, Newest(g, o)'
            PROVE  Newest(g, o) \/ Newest(i, o)
        BY <2>5, <3>1, <3>3, <4>2 DEF Merged, Newest, Held, Newer
      <4> QED
        BY <2>3, <3>1, <3>2, <4>1, <4>2
    <3>4. CASE g # w
      <4>1. occurrences'[g] = occurrences[g]
        BY <2>1, <2>5, <3>1, <3>4 DEF Merged
      <4>2. \A o \in Ids : Newest(g, o)' => Newest(g, o)
        BY <3>1, <4>1 DEF Newest, Held, Newer
      <4> QED
        BY <3>1, <3>2, <4>2
    <3> QED
      BY <3>3, <3>4
  <2> QED
    BY <1>2, <2>4, <2>5
<1> QED
  BY <1>1, <1>2, Turn DEF SettledInv
-----------------------------------------------------------------------------
LEMMA MigrationInit == Init => MigrationInv
<1> SUFFICES ASSUME Init PROVE MigrationInv
  OBVIOUS
<1>1. TypeOK
  BY TypedInit
<1>2. WaitInv
  BY DEF Init, WaitInv, Waiting
<1>3. HomeInv
  BY DEF Init, HomeInv, Home
<1>4. PlaceInv /\ CountInv /\ FlagInv
  BY MigrationAssumption DEF Init, PlaceInv, CountInv, FlagInv, Ids
<1>5. SettledInv
  BY MigrationAssumption DEF Init, SettledInv, Ids
<1> QED
  BY <1>1, <1>2, <1>3, <1>4, <1>5 DEF MigrationInv

LEMMA MigrationStands == Spec => []MigrationInv
<1>1. MigrationInv /\ [Next]_vars => MigrationInv'
  BY TypedNext, WaitNext, HomeNext, PlaceNext, CountNext, FlagNext, SettledNext DEF MigrationInv
<1> QED
  BY <1>1, MigrationInit, PTL DEF Spec

(* A second pass would find nothing to do, however rows were renamed,      *)
(* merged, and given occurrences before or after their turn.               *)
THEOREM SettledCorrect == Spec => []Settled
<1>1. MigrationInv => Settled
  <2> SUFFICES ASSUME MigrationInv, Finished, NEW g \in live, NEW newest \in occurrences[g],
                      latest[newest] # None,
                      \A o \in occurrences[g] : latest[o] # None => Newer(newest, o)
               PROVE  fingerprint[g] = <<trace[g], latest[newest].text>>
    BY DEF Settled
  <2>1. TypeOK /\ SettledInv
    BY DEF MigrationInv
  <2>2. g \in Ids /\ g < next /\ newest \in Ids
    BY <2>1, MigrationAssumption DEF TypeOK, Finished, Ids
  <2>3. Newest(g, newest)
    BY DEF Newest, Held
  <2> QED
    BY <2>1, <2>2, <2>3 DEF SettledInv
<1> QED
  BY <1>1, MigrationStands, PTL

(* Occurrences, hour counts and fix attempts of a row end up in one group, *)
(* whatever that group has been renamed to or merged into.                 *)
THEOREM StaysTogetherCorrect == Spec => []StaysTogether
<1>1. MigrationInv => StaysTogether
  <2> SUFFICES ASSUME MigrationInv, NEW i \in Ids
               PROVE  \E g \in live : /\ Homes(i) = {g}
                                      /\ {h \in live : i \in hours[h]} = {g}
                                      /\ attempts[i] = fingerprint[g]
    BY DEF StaysTogether
  <2>1. PICK g \in live : Home(i, g)
    BY DEF MigrationInv, HomeInv
  <2>2. \A h \in live : (i \in occurrences[h] <=> h = g) /\ (i \in hours[h] <=> h = g)
    BY <2>1 DEF Home, MigrationInv, TypeOK
  <2> QED
    BY <2>1, <2>2 DEF Homes, Home
<1> QED
  BY <1>1, MigrationStands, PTL

(* A group counts exactly the rows it holds, and a message is in one       *)
(* place, but for what a row gained before it was itself merged.           *)
THEOREM NothingLostCorrect == Spec => []NothingLost
<1>1. MigrationInv => NothingLost
  <2> SUFFICES ASSUME MigrationInv, Finished
               PROVE  NothingLost
    BY DEF NothingLost
  <2>1. TypeOK /\ HomeInv /\ PlaceInv /\ CountInv
    BY DEF MigrationInv
  <2>2. ASSUME NEW m \in posted
        PROVE  LET trackers == {g \in live : messageId[g] = m}
                   places == Cardinality(trackers) + Cardinality(pendingDeletes \cap {m}) IN
               places <= 1 /\ (m \notin dropped => places = 1)
    <3> DEFINE trackers == {g \in live : messageId[g] = m}
               pending == pendingDeletes \cap {m}
    <3>1. m \in Ids /\ m # None
      BY <2>1, MigrationAssumption DEF TypeOK, Ids
    <3>2. \A g \in trackers : g \in Ids /\ m \in occurrences[g] /\ m \notin pendingDeletes
      BY <2>1, <3>1 DEF PlaceInv, TypeOK
    <3>3. \A g, h \in trackers : g = h
      BY <2>1, <3>1, <3>2 DEF HomeInv, Home
    <3>4. trackers = {} \/ \E g : trackers = {g}
      BY <3>3
    <3>5. trackers # {} => pending = {}
      BY <3>2
    <3>6. m \notin dropped => trackers # {} \/ pending # {}
      BY <2>1 DEF PlaceInv
    <3>7. pending = {} \/ pending = {m}
      OBVIOUS
    <3> HIDE DEF trackers, pending
    <3>8. /\ Cardinality(trackers) = IF trackers = {} THEN 0 ELSE 1
          /\ Cardinality(pending) = IF pending = {} THEN 0 ELSE 1
      BY <3>4, <3>7, FS_EmptySet, FS_Singleton
    <3>9. /\ Cardinality(trackers) + Cardinality(pending) <= 1
          /\ m \notin dropped => Cardinality(trackers) + Cardinality(pending) = 1
      BY <3>5, <3>6, <3>8
    <3> QED
      BY <3>9 DEF trackers, pending
  <2> QED
    BY <2>1, <2>2 DEF NothingLost, CountInv
<1> QED
  BY <1>1, MigrationStands, PTL

(* A group whose message would read differently is flagged for the refresh *)
(* loop, and no later merge of the pass takes the flag back.               *)
THEOREM ChangedIsFlaggedCorrect == Spec => []ChangedIsFlagged
<1>1. MigrationInv => ChangedIsFlagged
  BY DEF MigrationInv, FlagInv, ChangedIsFlagged
<1> QED
  BY <1>1, MigrationStands, PTL
=============================================================================
