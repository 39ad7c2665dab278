----------------------------- MODULE PrBotProofs -----------------------------
(***************************************************************************)
(* TLAPS proofs about PrBot, for any pull requests, messages, handlers,    *)
(* changes, faults and crashes.                                            *)
(***************************************************************************)
EXTENDS PrBot, SequenceTheorems, FiniteSetTheorems, TLAPS

(* Of any sets of elements of a finite set one contains no other.          *)
LEMMA SmallestSet ==
    ASSUME NEW D, IsFiniteSet(D), NEW T, T \subseteq SUBSET D, T # {}
    PROVE  \E s \in T : \A r \in T : r \subseteq s => r = s
<1>1. IsWellFoundedOn(StrictSubsetOrdering(D), FiniteSubsetsOf(D))
  BY FS_StrictSubsetOrderingWellFounded
<1>2. T \subseteq FiniteSubsetsOf(D)
  BY FS_Subset DEF FiniteSubsetsOf
<1>3. PICK s \in T : \A r \in T : <<r, s>> \notin StrictSubsetOrdering(D)
  BY <1>1, <1>2, WFMin
<1> QED
  BY <1>3 DEF StrictSubsetOrdering

AreNumbers(s) == s \subseteq Nat

LEMMA MaxExists ==
    ASSUME NEW s, IsFiniteSet(s), s # {}, AreNumbers(s)
    PROVE  Max(s) \in s /\ \A i \in s : i <= Max(s)
<1> DEFINE Above(i) == {j \in s : j > i}
           U == {Above(i) : i \in s}
<1>1. PICK a \in U : \A r \in U : r \subseteq a => r = a
  <2>1. U \subseteq SUBSET s /\ U # {}
    OBVIOUS
  <2> HIDE DEF U
  <2> QED
    BY <2>1, SmallestSet
<1>2. PICK m \in s : a = Above(m)
  BY <1>1
<1>3. ASSUME NEW i \in s, ~(i <= m)
      PROVE  FALSE
  <2>1. \A j \in s : j \in Int
    BY DEF AreNumbers
  <2>2. i > m /\ \A j \in s : j > i => j > m
    BY <1>3, <2>1
  <2>3. i \in Above(m) /\ i \notin Above(i) /\ Above(i) \subseteq Above(m)
    BY <2>1, <2>2
  <2> QED
    BY <1>1, <1>2, <2>3
<1>4. m \in s /\ \A i \in s : m >= i
  BY <1>3 DEF AreNumbers
<1>5. Max(s) \in s /\ \A i \in s : Max(s) >= i
  <2> HIDE DEF Above, U
  <2> QED
    BY <1>4 DEF Max
<1> QED
  BY <1>5 DEF AreNumbers

LEMMA MaxOfPositions ==
    ASSUME NEW S, NEW seq \in Seq(S), NEW s \in SUBSET DOMAIN seq, s # {}
    PROVE  Max(s) \in s /\ (\A i \in s : i <= Max(s)) /\ s \subseteq Nat
<1>1. IsFiniteSet(DOMAIN seq) /\ DOMAIN seq \subseteq Nat
  <2>1. Len(seq) \in Nat /\ DOMAIN seq = 1..Len(seq)
    BY LenProperties
  <2>2. IsFiniteSet(1..Len(seq))
    BY <2>1, FS_Interval
  <2> QED
    BY <2>1, <2>2
<1>2. IsFiniteSet(s)
  BY <1>1, FS_Subset
<1>3. AreNumbers(s)
  BY <1>1 DEF AreNumbers
<1> QED
  BY <1>1, <1>2, <1>3, MaxExists

Steps(reviews, f) ==
    [s \in SUBSET DOMAIN reviews |->
        IF s = {} THEN "none" ELSE Reviewed(f[s \ {Max(s)}], reviews[Max(s)])]

LEMMA DerivedUnfolds ==
    ASSUME NEW reviews, NEW f, f = Steps(reviews, f)
    PROVE  \E g : g = Steps(reviews, g) /\ Derived(reviews) = g[DOMAIN reviews]
  BY DEF Derived, FoldLeft, MapThenFoldSet, Steps

(* What the reviews at the positions s amount to: the last decisive one,   *)
(* or that there are comments no decisive review follows.                  *)
Decisive == {"approved", "changes_requested", "dismissed"}
Decided(reviews, s) == {i \in s : reviews[i] \in Decisive}
Settled(reviews, s) ==
    IF Decided(reviews, s) = {} THEN "none" ELSE Reviewed("none", reviews[Max(Decided(reviews, s))])
Summed(reviews, s) ==
    IF Settled(reviews, s) = "none"
       /\ \E i \in s : reviews[i] = "commented" /\ \A j \in Decided(reviews, s) : j < i
    THEN "commented" ELSE Settled(reviews, s)

LEMMA SummedSteps ==
    ASSUME NEW reviews \in Seq(Reviews), NEW s \in SUBSET DOMAIN reviews, s # {}
    PROVE  Summed(reviews, s) = Reviewed(Summed(reviews, s \ {Max(s)}), reviews[Max(s)])
<1> DEFINE m == Max(s)
           D == Decided(reviews, s)
           E == Decided(reviews, s \ {m})
<1>2. m \in s /\ (\A i \in s : i <= m) /\ s \subseteq Nat
  BY MaxOfPositions
<1>3. D \subseteq s /\ E = D \ {m} /\ reviews[m] \in Reviews
  <2>1. m \in DOMAIN reviews
    BY <1>2
  <2> QED
    BY <1>2, <2>1, ElementOfSeq, LenProperties DEF Decided
<1>4. D # {} => Max(D) \in D /\ \A i \in D : i <= Max(D)
  <2>1. D \subseteq DOMAIN reviews
    BY <1>3
  <2> HIDE DEF D
  <2> QED
    BY <2>1, MaxOfPositions
<1>5. CASE reviews[m] \in Decisive
  <2>1. m \in D /\ Max(D) = m
    <3>1. m \in D
      BY <1>2, <1>5 DEF Decided
    <3>2. Max(D) \in D /\ m <= Max(D) /\ Max(D) <= m
      BY <1>2, <1>3, <1>4, <3>1
    <3>3. m \in Int /\ Max(D) \in Int
      BY <1>2, <1>3, <3>2
    <3> QED
      BY <3>1, <3>2, <3>3
  <2>2. Settled(reviews, s) = Reviewed("none", reviews[m])
    BY <2>1 DEF Settled
  <2>3. ~\E i \in s : \A j \in D : j < i
    BY <1>2, <2>1
  <2>4. \A was : Reviewed(was, reviews[m]) = Reviewed("none", reviews[m])
    BY <1>5 DEF Reviewed, Decisive
  <2> QED
    BY <2>2, <2>3, <2>4 DEF Summed
<1>6. CASE reviews[m] \notin Decisive
  <2>1. D = E
    BY <1>3, <1>6 DEF Decided
  <2>2. Settled(reviews, s) = Settled(reviews, s \ {m})
    BY <2>1 DEF Settled
  <2>3. \A j \in D : j < m
    <3>1. \A j \in D : j \in s /\ j # m
      BY <1>3, <2>1
    <3>2. \A j \in s : j \in Int /\ j <= m
      BY <1>2
    <3>3. m \in Int
      BY <1>2
    <3> HIDE DEF D, m
    <3> QED
      BY <3>1, <3>2, <3>3
  <2>4. CASE reviews[m] = "commented"
    <3>1. Summed(reviews, s) = IF Settled(reviews, s) = "none" THEN "commented" ELSE Settled(reviews, s)
      BY <1>2, <2>3, <2>4 DEF Summed
    <3>2. \A was : Reviewed(was, reviews[m]) = IF was = "none" THEN "commented" ELSE was
      BY <2>4 DEF Reviewed
    <3>3. Summed(reviews, s \ {m}) \in {"commented", Settled(reviews, s)}
          /\ (Settled(reviews, s) # "none" => Summed(reviews, s \ {m}) = Settled(reviews, s))
      BY <2>2 DEF Summed
    <3> QED
      BY <3>1, <3>2, <3>3
  <2>5. CASE reviews[m] = "self_comment"
    <3>1. \A was : Reviewed(was, reviews[m]) = was
      BY <2>5 DEF Reviewed
    <3>2. \A i \in s : reviews[i] = "commented" => i \in s \ {m}
      BY <2>5
    <3>3. Summed(reviews, s) = Summed(reviews, s \ {m})
      BY <2>1, <2>2, <3>2 DEF Summed
    <3> QED
      BY <3>1, <3>3
  <2> QED
    BY <1>3, <1>6, <2>4, <2>5 DEF Reviews, Decisive
<1> QED
  BY <1>5, <1>6

(* GitHub's list of reviews amounts to its last decisive review, or to a   *)
(* comment that no decisive review follows, however long the list is.      *)
THEOREM DerivedIsSummed ==
    ASSUME NEW reviews \in Seq(Reviews)
    PROVE  Derived(reviews) = Summed(reviews, DOMAIN reviews)
<1> DEFINE f == [s \in SUBSET DOMAIN reviews |-> Summed(reviews, s)]
<1>1. \A s \in SUBSET DOMAIN reviews : s # {} => s \ {Max(s)} \in SUBSET DOMAIN reviews
  OBVIOUS
<1>2. Summed(reviews, {}) = "none"
  BY DEF Summed, Settled, Decided
<1>3. f = Steps(reviews, f)
  BY <1>1, <1>2, SummedSteps DEF Steps
<1> HIDE DEF f
<1>4. PICK g : g = Steps(reviews, g) /\ Derived(reviews) = g[DOMAIN reviews]
  BY <1>3, DerivedUnfolds
<1> DEFINE Bad == {s \in SUBSET DOMAIN reviews : g[s] # f[s]}
<1>5. ASSUME Bad # {}
      PROVE  FALSE
  <2>2. PICK s \in Bad : \A r \in Bad : r \subseteq s => r = s
    <3>1. IsFiniteSet(DOMAIN reviews)
      <4>1. Len(reviews) \in Nat /\ DOMAIN reviews = 1..Len(reviews)
        BY LenProperties
      <4>2. IsFiniteSet(1..Len(reviews))
        BY <4>1, FS_Interval
      <4> QED
        BY <4>1, <4>2
    <3>2. Bad \subseteq SUBSET DOMAIN reviews
      OBVIOUS
    <3> HIDE DEF Bad
    <3> QED
      BY <1>5, <3>1, <3>2, SmallestSet
  <2>3. s \in SUBSET DOMAIN reviews /\ g[s] # f[s]
    BY <2>2
  <2>4. CASE s = {}
    BY <1>3, <1>4, <2>3, <2>4 DEF Steps
  <2>5. CASE s # {}
    <3>1. Max(s) \in s
      BY <2>3, <2>5, MaxOfPositions
    <3>2. g[s \ {Max(s)}] = f[s \ {Max(s)}]
      BY <2>2, <2>3, <3>1
    <3> QED
      BY <1>3, <1>4, <2>3, <2>5, <3>2 DEF Steps
  <2> QED
    BY <2>4, <2>5
<1>6. DOMAIN reviews \in SUBSET DOMAIN reviews /\ DOMAIN reviews \notin Bad
  BY <1>5
<1> QED
  BY <1>4, <1>6 DEF f

LEMMA DerivedStatus ==
    ASSUME NEW reviews \in Seq(Reviews)
    PROVE  Derived(reviews) \in Statuses
<1>1. \A review : Reviewed("none", review) \in Statuses
  BY DEF Reviewed, Statuses
<1> QED
  BY <1>1, DerivedIsSummed DEF Summed, Settled, Statuses
-----------------------------------------------------------------------------
(* The sequences the handlers build. *)

LEMMA SetToSeqInto ==
    ASSUME NEW S, IsFiniteSet(S)
    PROVE  Cardinality(S) \in Nat /\ SetToSeq(S) \in [1..Cardinality(S) -> S]
<1>1. Cardinality(S) \in Nat /\ \E f \in [1..Cardinality(S) -> S] : IsInjective(f)
  BY FS_CardinalityType DEF ExistsBijection, Bijection, Injection, IsInjective
<1> QED
  BY <1>1 DEF SetToSeq

Ascends(f, s) ==
    /\ f \in [1..Cardinality(s) -> s]
    /\ \A i, j \in 1..Cardinality(s) : i < j => f[i] < f[j]

LEMMA AscendingExists ==
    ASSUME NEW D, IsFiniteSet(D), AreNumbers(D), NEW s \in SUBSET D
    PROVE  \E f : Ascends(f, s)
<1> DEFINE Bad == {r \in SUBSET D : ~\E f : Ascends(f, r)}
<1>1. ASSUME Bad # {} PROVE FALSE
  <2>1. PICK b \in Bad : \A r \in Bad : r \subseteq b => r = b
    <3>1. Bad \subseteq SUBSET D
      OBVIOUS
    <3> HIDE DEF Bad
    <3> QED
      BY <1>1, <3>1, SmallestSet
  <2>2. IsFiniteSet(b) /\ AreNumbers(b) /\ b \in SUBSET D
    BY FS_Subset DEF AreNumbers
  <2>3. CASE b = {}
    <3>1. Cardinality(b) = 0
      BY <2>3, FS_EmptySet
    <3>2. Ascends([i \in 1..0 |-> 0], b)
      BY <3>1 DEF Ascends
    <3> QED
      BY <2>1, <3>2
  <2>4. CASE b # {}
    <3>1. Max(b) \in b /\ (\A i \in b : i <= Max(b))
      BY <2>2, <2>4, MaxExists
    <3> DEFINE m == Max(b)
               c == b \ {m}
    <3>2. IsFiniteSet(c) /\ Cardinality(c) = Cardinality(b) - 1 /\ Cardinality(b) \in Nat
      BY <2>2, <3>1, FS_RemoveElement, FS_CardinalityType
    <3>3. PICK f : Ascends(f, c)
      BY <2>1, <2>2, <3>1
    <3> DEFINE n == Cardinality(b)
               g == [i \in 1..n |-> IF i = n THEN m ELSE f[i]]
    <3>4. f \in [1..(n - 1) -> c] /\ \A i, j \in 1..(n - 1) : i < j => f[i] < f[j]
      BY <3>2, <3>3 DEF Ascends
    <3>5. \A i \in 1..(n - 1) : f[i] < m
      <4> SUFFICES ASSUME NEW i \in 1..(n - 1) PROVE f[i] < m
        OBVIOUS
      <4> DEFINE k == f[i]
      <4>1. k \in b /\ k # m
        BY <3>4
      <4>2. \A j \in b : j \in Int /\ j <= m
        BY <2>2, <3>1 DEF AreNumbers
      <4>5. m \in b
        BY <3>1
      <4> HIDE DEF m, n, k
      <4>3. k \in Int /\ m \in Int /\ k <= m /\ k # m
        BY <4>1, <4>2, <4>5
      <4>4. k < m
        BY <4>3
      <4> QED
        BY <4>4 DEF k
    <3>6. n \in Nat
      BY <3>2
    <3>7. m \in b
      BY <3>1
    <3> HIDE DEF m, n
    <3>8. g \in [1..n -> b]
      BY <3>4, <3>6, <3>7
    <3>9. \A i, j \in 1..n : i < j => g[i] < g[j]
      BY <3>4, <3>5, <3>6
    <3>10. Ascends(g, b)
      BY <3>8, <3>9 DEF Ascends, n
    <3> QED
      BY <2>1, <3>10
  <2> QED
    BY <2>3, <2>4
<1> QED
  BY <1>1

LEMMA InOrderInto ==
    ASSUME NEW D, IsFiniteSet(D), AreNumbers(D), NEW s \in SUBSET D
    PROVE  Cardinality(s) \in Nat /\ InOrder(s) \in [1..Cardinality(s) -> s]
<1>1. Cardinality(s) \in Nat
  BY FS_Subset, FS_CardinalityType
<1>2. \E f \in [1..Cardinality(s) -> s] : \A i, j \in 1..Cardinality(s) : i < j => f[i] < f[j]
  BY AscendingExists DEF Ascends
<1> QED
  BY <1>1, <1>2 DEF InOrder

LEMMA FunctionIsSeq ==
    ASSUME NEW S, NEW n \in Nat, NEW f \in [1..n -> S]
    PROVE  f \in Seq(S)
<1>1. f = [i \in 1..n |-> f[i]] /\ \A i \in 1..n : f[i] \in S
  OBVIOUS
<1>2. [i \in 1..n |-> f[i]] \in Seq(S)
  BY <1>1
<1> QED
  BY <1>1, <1>2

LEMMA SingletonSeq ==
    ASSUME NEW S, NEW x \in S
    PROVE  /\ <<x>> \in Seq(S) /\ Len(<<x>>) = 1 /\ <<x>>[1] = x
  OBVIOUS
-----------------------------------------------------------------------------
(* The operations, by their fields. *)

Marks == {"keep", "done", "active"}
Answers == [row: Row, lost: SUBSET {"all", "failing", "resolved"}] \cup {None}

Pauses     == [op: {"sleep", "polls", "sweep", "complete"}]
PrOps      == [op: {"state", "dm", "unguard"}, pr: PRs]
PostOps    == [op: {"post"}, pr: PRs, tracked: BOOLEAN]
MessageOps == [op: {"reconcile", "reread"}, message: Messages]
Ingestions == [op: {"ingest"}, message: Messages, links: SUBSET PRs]
Looks      == [op: {"look"}, message: Messages, want: SUBSET Emoji, mark: Marks]
Reactions  == [op: {"react"}, message: Messages, mark: Marks, add: SUBSET Emoji, remove: SUBSET Emoji]
LabelOps   == [op: {"labels"}, pr: PRs, ready: BOOLEAN]
Notices    == [op: {"notify"}, pr: PRs, transitions: SUBSET Transitions]
Histories  == [op: {"history"}, skip: SUBSET Messages]
Fetches    == [op: {"fetch", "author"}, pr: PRs, known: {None}, answer: Answers]
Threads    == [op: {"threads"}, pr: PRs, known: BOOLEAN, answer: Answers]
Rethreads  == [op: {"rethread"}, pr: PRs, known: SUBSET Messages, answer: Answers]
Rechecks   == [op: {"recheck"}, pr: PRs, known: [messages: SUBSET Messages, failing: BOOLEAN],
               answer: Answers]
Polls      == [op: {"poll"}, pr: PRs, known: Row, answer: Answers]
OpSet == UNION {Pauses, PrOps, PostOps, MessageOps, Ingestions, Looks, Reactions, LabelOps, Notices,
                Histories, Fetches, Threads, Rethreads, Rechecks, Polls}

LEMMA OpFields ==
    ASSUME NEW o \in OpSet
    PROVE  /\ o.op \in {"sleep", "polls", "sweep", "complete"} => o \in Pauses
           /\ o.op \in {"state", "dm", "unguard"} => o \in PrOps
           /\ o.op = "post" => o \in PostOps
           /\ o.op \in {"reconcile", "reread"} => o \in MessageOps
           /\ o.op = "ingest" => o \in Ingestions
           /\ o.op = "look" => o \in Looks
           /\ o.op = "react" => o \in Reactions
           /\ o.op = "labels" => o \in LabelOps
           /\ o.op = "notify" => o \in Notices
           /\ o.op = "history" => o \in Histories
           /\ o.op \in {"fetch", "author"} => o \in Fetches
           /\ o.op = "threads" => o \in Threads
           /\ o.op = "rethread" => o \in Rethreads
           /\ o.op = "recheck" => o \in Rechecks
           /\ o.op = "poll" => o \in Polls
<1>1. /\ o \in Pauses => o.op \in {"sleep", "polls", "sweep", "complete"}
      /\ o \in PrOps => o.op \in {"state", "dm", "unguard"}
      /\ o \in PostOps => o.op = "post"
      /\ o \in MessageOps => o.op \in {"reconcile", "reread"}
      /\ o \in Ingestions => o.op = "ingest"
      /\ o \in Looks => o.op = "look"
      /\ o \in Reactions => o.op = "react"
      /\ o \in LabelOps => o.op = "labels"
      /\ o \in Notices => o.op = "notify"
      /\ o \in Histories => o.op = "history"
      /\ o \in Fetches => o.op \in {"fetch", "author"}
      /\ o \in Threads => o.op = "threads"
      /\ o \in Rethreads => o.op = "rethread"
      /\ o \in Rechecks => o.op = "recheck"
      /\ o \in Polls => o.op = "poll"
  BY DEF Pauses, PrOps, PostOps, MessageOps, Ingestions, Looks, Reactions, LabelOps, Notices, Histories,
         Fetches, Threads, Rethreads, Rechecks, Polls
<1>2. \/ o \in Pauses \/ o \in PrOps \/ o \in PostOps \/ o \in MessageOps \/ o \in Ingestions \/ o \in Looks
      \/ o \in Reactions \/ o \in LabelOps \/ o \in Notices \/ o \in Histories \/ o \in Fetches
      \/ o \in Threads \/ o \in Rethreads \/ o \in Rechecks \/ o \in Polls
  BY DEF OpSet
<1> QED
  BY <1>1, <1>2

(* What most steps put before the rest of a task: no part of an auto-post, *)
(* no scan of the history, and an ingestion only of what the message, as c *)
(* has it, links.                                                          *)
Given(c) == {o \in OpSet : /\ o.op \notin {"author", "post", "unguard", "history"}
                           /\ o.op = "ingest" => o.links = c[o.message]}

LEMMA GivenOps ==
    ASSUME NEW c
    PROVE  /\ \A op \in {"sleep", "polls", "sweep", "complete"} : [op |-> op] \in Given(c)
           /\ \A m \in Messages : Reconcile(m) \in Given(c)
           /\ \A m \in Messages : [op |-> "reread", message |-> m] \in Given(c)
           /\ \A p \in PRs : [op |-> "dm", pr |-> p] \in Given(c)
           /\ \A p \in PRs : [op |-> "state", pr |-> p] \in Given(c)
           /\ \A m \in Messages, ls \in SUBSET PRs : ls = c[m] => Ingest(m, ls) \in Given(c)
<1>1. \A op \in {"sleep", "polls", "sweep", "complete"} : [op |-> op] \in Pauses
  BY DEF Pauses
<1>2. \A m \in Messages : Reconcile(m) \in MessageOps /\ [op |-> "reread", message |-> m] \in MessageOps
  BY DEF MessageOps, Reconcile
<1>3. \A p \in PRs : [op |-> "dm", pr |-> p] \in PrOps /\ [op |-> "state", pr |-> p] \in PrOps
  BY DEF PrOps
<1>4. \A m \in Messages, ls \in SUBSET PRs : Ingest(m, ls) \in Ingestions
  BY DEF Ingestions, Ingest
<1>5. Pauses \cup MessageOps \cup PrOps \cup Ingestions \subseteq OpSet
  BY DEF OpSet
<1> QED
  BY <1>1, <1>2, <1>3, <1>4, <1>5 DEF Given, Reconcile, Ingest

LEMMA MessagesFinite == IsFiniteSet(Messages) /\ AreNumbers(Messages)
<1>1. MaxMessages \in Nat
  BY PrBotAssumption
<1> QED
  BY <1>1, FS_Interval DEF Messages, AreNumbers

LEMMA ReconcilesGiven ==
    ASSUME NEW c, NEW ms \in SUBSET Messages
    PROVE  Reconciles(ms) \in Seq(Given(c))
<1> DEFINE n == Cardinality(ms)
           f == InOrder(ms)
<1>1. n \in Nat /\ f \in [1..n -> ms]
  BY MessagesFinite, InOrderInto
<1> HIDE DEF n, f
<1>2. [i \in 1..n |-> Reconcile(f[i])] \in [1..n -> Given(c)]
  BY <1>1, GivenOps
<1> QED
  BY <1>1, <1>2, FunctionIsSeq DEF Reconciles, n, f

LEMMA DmsGiven ==
    ASSUME NEW c, NEW p \in PRs, NEW transitions \in SUBSET Transitions
    PROVE  Dms(p, transitions) \in Seq(Given(c))
<1> DEFINE n == Cardinality({tr \in transitions : ShouldDm(Pref, tr)})
<1>1. n \in Nat
  <2> DEFINE Six == ((((({"commented"} \cup {"approved"}) \cup {"changes_requested"})
                        \cup {"merged"}) \cup {"closed"}) \cup {"checks_failed"})
  <2>0. \A S, x : IsFiniteSet(S) => IsFiniteSet(S \cup {x})
    BY FS_AddElement
  <2>1. IsFiniteSet(Six)
    BY <2>0, FS_Singleton, Zenon
  <2>2. Transitions \subseteq Six
    BY DEF Transitions, ReviewTransitions, Statuses, Terminal
  <2>3. IsFiniteSet({tr \in transitions : ShouldDm(Pref, tr)})
    BY <2>1, <2>2, FS_Subset
  <2> QED
    BY <2>3, FS_CardinalityType
<1> HIDE DEF n
<1>2. [i \in 1..n |-> [op |-> "dm", pr |-> p]] \in [1..n -> Given(c)]
  BY GivenOps
<1> QED
  BY <1>1, <1>2, FunctionIsSeq DEF Dms, n

LEMMA StatesGiven ==
    ASSUME NEW c, NEW links \in SUBSET PRs
    PROVE  States(links) \in Seq(Given(c))
<1> DEFINE n == Cardinality(links)
           f == SetToSeq(links)
<1>1. n \in Nat /\ f \in [1..n -> links]
  BY PrBotAssumption, FS_Subset, SetToSeqInto
<1> HIDE DEF n, f
<1>2. [i \in 1..n |-> [op |-> "state", pr |-> f[i]]] \in [1..n -> Given(c)]
  BY <1>1, GivenOps
<1> QED
  BY <1>1, <1>2, FunctionIsSeq DEF States, n, f

LEMMA PacedGiven ==
    ASSUME NEW c, NEW ops \in Seq(Given(c)), NEW next \in {"polls", "sweep", "complete"}
    PROVE  Paced(ops, next) \in Seq(Given(c))
<1> DEFINE n == Len(ops)
           f == [i \in 1..(2 * n) |-> IF i % 2 = 1 THEN ops[(i + 1) \div 2] ELSE Pause]
<1>1. n \in Nat /\ \A i \in 1..n : ops[i] \in Given(c)
  BY LenProperties, ElementOfSeq
<1>2. Pause \in Given(c) /\ <<[op |-> next]>> \in Seq(Given(c))
  BY GivenOps, SingletonSeq DEF Pause
<1>3. \A i \in 1..(2 * n) : i % 2 = 1 => (i + 1) \div 2 \in 1..n
  BY <1>1
<1>4. f \in [1..(2 * n) -> Given(c)]
  BY <1>1, <1>2, <1>3
<1>5. f \in Seq(Given(c))
  BY <1>1, <1>4, FunctionIsSeq
<1> QED
  BY <1>2, <1>5, ConcatProperties DEF Paced
-----------------------------------------------------------------------------
(* Type correctness. *)

OnGitHub == [reviews: Seq(Reviews), life: Lives, ready: BOOLEAN, failing: BOOLEAN, resolved: BOOLEAN]
Entries  == [links: SUBSET PRs, done: BOOLEAN]
PostEvents    == [kind: {"post"}, message: Messages, links: SUBSET PRs]
GatewayEvents == PostEvents \cup [kind: {"edit", "delete"}, message: Messages]

GitHubOK  == github \in [PRs -> OnGitHub]
ChannelOK == /\ content \in [Messages -> (SUBSET PRs) \cup {None}]
             /\ posted \in 0..MaxMessages /\ byBot \subseteq 1..posted
             /\ autoposts \subseteq byBot
             /\ old \subseteq Messages
ReactionsOK == reactions \in [Messages -> SUBSET Emoji]
QueuesOK  == webhooks \in Seq(Events) /\ gateway \in Seq(GatewayEvents)
TablesOK  == row \in [PRs -> Row \cup {None}] /\ message \in [Messages -> Entries \cup {None}]
TasksOK   == task \in [Tasks -> Seq(OpSet)]
MemoryOK  == /\ up \in BOOLEAN /\ autoposting \subseteq PRs
             /\ ~up => webhooks = <<>> /\ gateway = <<>> /\ autoposting = {} /\ Idle = Tasks
OneBusy   == \A t, u \in Busy : t = u
HistoryOK == /\ trust \in {"whole", "healing", "broken"} /\ filled \subseteq PRs
             /\ owed \in [PRs -> Int]

Typed == /\ GitHubOK /\ ChannelOK /\ ReactionsOK /\ QueuesOK /\ TablesOK /\ TasksOK /\ MemoryOK
         /\ OneBusy /\ HistoryOK

LEMMA TypedImpliesTypeOK == Typed => TypeOK
<1> SUFFICES ASSUME Typed PROVE TypeOK
  OBVIOUS
<1>1. Cardinality(Busy) <= 1
  <2>1. CASE Busy = {}
    BY <2>1, FS_EmptySet
  <2>2. CASE Busy # {}
    <3>1. PICK t \in Busy : TRUE
      BY <2>2
    <3>2. Busy = {t}
      BY <3>1 DEF Typed, OneBusy
    <3>3. Cardinality({t}) = 1
      BY FS_Singleton
    <3> QED
      BY <3>2, <3>3
  <2> QED
    BY <2>1, <2>2
<1> QED
  BY <1>1 DEF Typed, GitHubOK, ChannelOK, ReactionsOK, QueuesOK, TablesOK, TasksOK, MemoryOK, HistoryOK,
     OnGitHub, Entries, TypeOK

LEMMA InitTyped == Init => Typed
<1> SUFFICES ASSUME Init PROVE Typed
  OBVIOUS
<1>1. MaxMessages \in Nat
  BY PrBotAssumption
<1>2. GitHubOK
  <2>1. <<>> \in Seq(Reviews)
    BY EmptySeq
  <2> QED
    BY <2>1 DEF Init, GitHubOK, OnGitHub, Lives
<1>8. posted \in 0..MaxMessages
  BY <1>1 DEF Init
<1>9. content \in [Messages -> (SUBSET PRs) \cup {None}]
  <2>1. content = [m \in Messages |-> None]
    BY DEF Init
  <2>2. None \in (SUBSET PRs) \cup {None}
    OBVIOUS
  <2> QED
    BY <2>1, <2>2, Zenon
<1>10. byBot \subseteq 1..posted /\ autoposts \subseteq byBot /\ old \subseteq Messages
  BY DEF Init
<1>3. ChannelOK /\ ReactionsOK
  BY <1>8, <1>9, <1>10 DEF Init, ChannelOK, ReactionsOK
<1>6. TablesOK /\ HistoryOK
  BY DEF Init, TablesOK, HistoryOK
<1>7. MemoryOK
  BY DEF Init, MemoryOK
<1>4. QueuesOK /\ TasksOK
  BY EmptySeq DEF Init, QueuesOK, TasksOK
<1>5. OneBusy
  BY DEF Init, OneBusy, Busy
<1> QED
  BY <1>2, <1>3, <1>4, <1>5, <1>6, <1>7 DEF Typed

LEMMA OpTyped ==
    ASSUME TasksOK, NEW t \in Tasks, task[t] # <<>>
    PROVE  Op(t) \in OpSet /\ Tail(task[t]) \in Seq(OpSet)
<1>1. task[t] \in Seq(OpSet)
  BY DEF TasksOK
<1> QED
  BY <1>1, HeadTailProperties DEF Op

LEMMA TruthTyped ==
    ASSUME GitHubOK, NEW p \in PRs
    PROVE  Truth(p) \in Row
<1>1. github[p].reviews \in Seq(Reviews) /\ github[p] \in OnGitHub
  BY DEF GitHubOK, OnGitHub
<1>2. Derived(github[p].reviews) \in Statuses
  BY <1>1, DerivedStatus
<1> QED
  BY <1>1, <1>2 DEF Truth, Row, OnGitHub

LEMMA ReviewedTyped ==
    ASSUME NEW status \in Statuses, NEW review \in Reviews
    PROVE  Reviewed(status, review) \in Statuses
  BY DEF Statuses, Reviews, Reviewed

LEMMA RowOrTyped ==
    ASSUME TablesOK, NEW p \in PRs
    PROVE  RowOr(p) \in Row
<1>1. DefaultRow \in Row
  BY DEF DefaultRow, Row, Statuses, Lives
<1> QED
  BY <1>1 DEF RowOr, TablesOK

LEMMA AwaitFields ==
    ASSUME NEW o \in OpSet, o.op \in GitHubOps
    PROVE  /\ o.pr \in PRs /\ o.answer \in Answers
           /\ o.op = "threads" => o.known \in BOOLEAN
           /\ o.op = "rethread" => o.known \in SUBSET Messages
           /\ o.op = "recheck" => o.known \in [messages: SUBSET Messages, failing: BOOLEAN]
           /\ o.op = "poll" => o.known \in Row
<1>1. o \in Fetches \/ o \in Threads \/ o \in Rethreads \/ o \in Rechecks \/ o \in Polls
  BY OpFields DEF GitHubOps
<1>2. o.op = "threads" => o \in Threads
  BY OpFields
<1>3. o.op = "rethread" => o \in Rethreads
  BY OpFields
<1>4. o.op = "recheck" => o \in Rechecks
  BY OpFields
<1>5. o.op = "poll" => o \in Polls
  BY OpFields
<1> QED
  BY <1>1, <1>2, <1>3, <1>4, <1>5 DEF Fetches, Threads, Rethreads, Rechecks, Polls

(* An await that was answered. *)
LEMMA AnswerTyped ==
    ASSUME TasksOK, NEW t \in Tasks, NEW op \in GitHubOps, Answered(t, op)
    PROVE  /\ Op(t) \in OpSet /\ Op(t).pr \in PRs
           /\ Op(t).answer \in [row: Row, lost: SUBSET {"all", "failing", "resolved"}]
           /\ op = "threads" => Op(t).known \in BOOLEAN
           /\ op = "rethread" => Op(t).known \in SUBSET Messages
           /\ op = "recheck" => Op(t).known \in [messages: SUBSET Messages, failing: BOOLEAN]
           /\ op = "poll" => Op(t).known \in Row
<1>1. Op(t) \in OpSet /\ Op(t).op = op /\ Op(t).answer # None
  BY OpTyped DEF Answered, At
<1>2. Op(t).op \in GitHubOps
  BY <1>1
<1> QED
  BY <1>1, <1>2, AwaitFields DEF Answers

LEMMA ReadTyped ==
    ASSUME TasksOK, NEW t \in Tasks, NEW op \in GitHubOps, Answered(t, op), NEW was \in Row
    PROVE  Read(t, was) \in Row
<1>1. Op(t).answer.row \in Row
  BY AnswerTyped
<1> QED
  BY <1>1 DEF Read, Row
-----------------------------------------------------------------------------
(* A step of a task replaces its head by operations of Given(content'), is *)
(* told a PR's author, then takes the guard and is about to post, or gives *)
(* the task up when the history cannot be read.                            *)

Asked(t)  == task[t] # <<>> /\ Op(t).op = "author"
Hears(t)   == Asked(t) /\ \E o \in Fetches : o.op = "author" /\ Then(t, <<o>>)
Guards(t, p, tracked) ==
    /\ Asked(t) /\ p \in PRs /\ p \notin autoposting
    /\ autoposting' = autoposting \cup {p}
    /\ tracked \in BOOLEAN /\ (tracked = FALSE => MessagesFor(p) = {})
    /\ Then(t, Posts(p, tracked))

Turns(t) ==
    \/ \E ops \in Seq(Given(content')) : Then(t, ops)
    \/ Hears(t) \/ \E p, tracked : Guards(t, p, tracked)
    \/ At(t, "history") /\ task' = [task EXCEPT ![t] = <<>>]

LEMMA AnswerGiven ==
    ASSUME NEW c, NEW o \in OpSet, o.op \in GitHubOps, NEW a \in Answers
    PROVE  /\ [o EXCEPT !.answer = a] \in OpSet
           /\ o.op # "author" => [o EXCEPT !.answer = a] \in Given(c)
           /\ o.op = "author" =>
                [o EXCEPT !.answer = a] \in Fetches /\ [o EXCEPT !.answer = a].op = "author"
<1> DEFINE n == [o EXCEPT !.answer = a]
<1>1. o \in Fetches \/ o \in Threads \/ o \in Rethreads \/ o \in Rechecks \/ o \in Polls
  BY OpFields DEF GitHubOps
<1>2. /\ o \in Fetches => n \in Fetches
      /\ o \in Threads => n \in Threads
      /\ o \in Rethreads => n \in Rethreads
      /\ o \in Rechecks => n \in Rechecks
      /\ o \in Polls => n \in Polls
  BY DEF Fetches, Threads, Rethreads, Rechecks, Polls
<1>3. n.op = o.op
  BY <1>1 DEF Fetches, Threads, Rethreads, Rechecks, Polls
<1>6. o.op = "author" => o \in Fetches
  BY OpFields
<1> HIDE DEF n
<1>4. n \in OpSet
  BY <1>1, <1>2 DEF OpSet
<1>5. n.op # "author" => n \in Given(c)
  BY <1>3, <1>4 DEF Given, GitHubOps
<1> QED
  BY <1>2, <1>3, <1>4, <1>5, <1>6 DEF n

LEMMA AwaitGiven ==
    ASSUME NEW c, NEW p \in PRs
    PROVE  /\ Await("fetch", p, None) \in Given(c)
           /\ \A known \in BOOLEAN : Await("threads", p, known) \in Given(c)
           /\ \A known \in SUBSET Messages : Await("rethread", p, known) \in Given(c)
           /\ \A ms \in SUBSET Messages, failing \in BOOLEAN :
                Await("recheck", p, [messages |-> ms, failing |-> failing]) \in Given(c)
           /\ \A known \in Row : Await("poll", p, known) \in Given(c)
<1>0. None \in Answers
  BY DEF Answers
<1>1. Await("fetch", p, None) \in Fetches
  BY <1>0 DEF Await, Fetches
<1>2. \A known \in BOOLEAN : Await("threads", p, known) \in Threads
  BY <1>0 DEF Await, Threads
<1>3. \A known \in SUBSET Messages : Await("rethread", p, known) \in Rethreads
  BY <1>0 DEF Await, Rethreads
<1>4. \A ms \in SUBSET Messages, failing \in BOOLEAN :
         Await("recheck", p, [messages |-> ms, failing |-> failing]) \in Rechecks
  BY <1>0 DEF Await, Rechecks
<1>5. \A known \in Row : Await("poll", p, known) \in Polls
  BY <1>0 DEF Await, Polls
<1>6. Fetches \cup Threads \cup Rethreads \cup Rechecks \cup Polls \subseteq OpSet
  BY DEF OpSet
<1>7. \A op, known : Await(op, p, known).op = op
  BY DEF Await
<1> QED
  BY <1>1, <1>2, <1>3, <1>4, <1>5, <1>6, <1>7 DEF Given

LEMMA RestGiven ==
    ASSUME NEW c
    PROVE  /\ \A o \in Looks \cup Reactions \cup LabelOps \cup Notices : o \in Given(c)
           /\ <<>> \in Seq(Given(c))
           /\ \A o \in Given(c) : <<o>> \in Seq(Given(c))
           /\ \A a, b \in Seq(Given(c)) : a \o b \in Seq(Given(c))
<1>1. Looks \cup Reactions \cup LabelOps \cup Notices \subseteq OpSet
  BY DEF OpSet
<1>2. \A o \in Looks \cup Reactions \cup LabelOps \cup Notices :
         o.op \in {"look", "react", "labels", "notify"}
  BY DEF Looks, Reactions, LabelOps, Notices
<1>3. \A o \in Looks \cup Reactions \cup LabelOps \cup Notices : o \in Given(c)
  BY <1>1, <1>2 DEF Given
<1>4. \A o \in Given(c) : <<o>> \in Seq(Given(c))
  BY SingletonSeq
<1>5. \A a, b \in Seq(Given(c)) : a \o b \in Seq(Given(c))
  BY ConcatProperties
<1> QED
  BY <1>3, <1>4, <1>5, EmptySeq

LEMMA MessagesOfPR ==
    ASSUME NEW p
    PROVE  /\ MessagesFor(p) \in SUBSET Messages
           /\ NotDone(MessagesFor(p)) \in SUBSET Messages
           /\ ToSweep \in SUBSET Messages
  BY DEF MessagesFor, NotDone, Tracked, ToSweep

LEMMA StepTurns ==
    ASSUME GitHubOK, ChannelOK, ReactionsOK, TablesOK, TasksOK, NEW t \in Tasks, task[t] # <<>>, Step(t)
    PROVE  Turns(t)
<1> DEFINE S == Seq(Given(content'))
           o == Op(t)
<1>0. o \in OpSet /\ <<>> \in S
  BY OpTyped, RestGiven
<1>1. \A x \in Given(content') : <<x>> \in S
  BY RestGiven
<1>2. \A a, b \in S : a \o b \in S
  BY RestGiven
<1>3. ASSUME NEW lost \in Lost(Op(t).op), Answer(t, lost) PROVE Turns(t)
  <2>1. o.op \in GitHubOps
    BY <1>3 DEF Answer
  <2>2. lost \in SUBSET {"all", "failing", "resolved"}
    BY DEF Lost
  <2>3. [row |-> Truth(o.pr), lost |-> lost] \in Answers
    BY <1>0, <2>1, <2>2, AwaitFields, TruthTyped DEF Answers
  <2> DEFINE n == [o EXCEPT !.answer = [row |-> Truth(o.pr), lost |-> lost]]
  <2>4. /\ o.op # "author" => n \in Given(content')
        /\ o.op = "author" => n \in Fetches /\ n.op = "author"
    BY <1>0, <2>1, <2>3, AnswerGiven
  <2>5. Then(t, <<n>>)
    BY <1>3 DEF Answer
  <2> HIDE DEF n
  <2> QED
    BY <1>1, <2>4, <2>5 DEF Turns, Hears, Asked
<1>4. ASSUME IngestMessage(t) PROVE Turns(t)
  <2>1. o \in Ingestions
    BY <1>0, <1>4, OpFields DEF IngestMessage, At
  <2>2. o.message \in Messages /\ o.links \in SUBSET PRs
    BY <2>1 DEF Ingestions
  <2>3. <<Reconcile(o.message)>> \in S
    BY <1>1, <2>2, GivenOps
  <2>4. States(o.links) \in S
    BY <2>2, StatesGiven
  <2>5. IngestOps(o.message, o.links) \in S
    BY <1>2, <2>3, <2>4 DEF IngestOps
  <2> QED
    BY <1>4, <2>5 DEF IngestMessage, Turns
<1>5. ASSUME LookUpState(t) PROVE Turns(t)
  <2>1. o \in PrOps
    BY <1>0, <1>5, OpFields DEF LookUpState, At
  <2>2. o.pr \in PRs
    BY <2>1 DEF PrOps
  <2>3. <<Await("fetch", o.pr, None)>> \in S /\ <<Pause>> \in S
    BY <1>1, <2>2, AwaitGiven, GivenOps DEF Pause
  <2> QED
    BY <1>0, <1>5, <2>3 DEF LookUpState, Turns
<1>6. ASSUME FetchAndStore(t) \/ UpdateDone(t) \/ DmUser(t) \/ Sleep(t) \/ ReadThreads(t)
             \/ Unguard(t) \/ StartupComplete(t) \/ AutopostUnanswered(t)
      PROVE  Turns(t)
  <2>1. Then(t, <<>>)
    BY <1>6 DEF FetchAndStore, UpdateDone, DmUser, Sleep, ReadThreads, Unguard, StartupComplete,
       AutopostUnanswered
  <2> QED
    BY <1>0, <2>1 DEF Turns
<1>7. ASSUME ReadRows(t) PROVE Turns(t)
  <2>1. o \in MessageOps
    BY <1>0, <1>7, OpFields DEF ReadRows, At
  <2>2. o.message \in Messages
    BY <2>1 DEF MessageOps
  <2>3. ASSUME NEW rows
        PROVE  <<[op |-> "look", message |-> o.message, want |-> Desired(rows),
                  mark |-> Mark(rows, o.message)]>> \in S
    <3>1. Desired(rows) \in SUBSET Emoji
      BY DEF Desired
    <3>2. Mark(rows, o.message) \in Marks
      BY DEF Mark, Marks
    <3>3. [op |-> "look", message |-> o.message, want |-> Desired(rows), mark |-> Mark(rows, o.message)]
            \in Looks
      BY <2>2, <3>1, <3>2 DEF Looks
    <3> QED
      BY <1>1, <3>3, RestGiven
  <2> QED
    BY <1>0, <1>7, <2>3 DEF ReadRows, Turns
<1>8. ASSUME FetchMessage(t) PROVE Turns(t)
  <2>1. o \in Looks
    BY <1>0, <1>8, OpFields DEF FetchMessage, At
  <2>2. o.message \in Messages /\ o.want \in SUBSET Emoji /\ o.mark \in Marks
    BY <2>1 DEF Looks
  <2>3. reactions[o.message] \in SUBSET Emoji
    BY <2>2 DEF ReactionsOK
  <2>4. [op |-> "react", message |-> o.message, mark |-> o.mark,
         add |-> o.want \ reactions[o.message], remove |-> reactions[o.message] \ o.want] \in Reactions
    BY <2>2, <2>3 DEF Reactions
  <2>5. <<[op |-> "react", message |-> o.message, mark |-> o.mark,
           add |-> o.want \ reactions[o.message], remove |-> reactions[o.message] \ o.want]>> \in S
    BY <1>1, <2>4, RestGiven
  <2> QED
    BY <1>0, <1>8, <2>5 DEF FetchMessage, Turns
<1>9. ASSUME NEW emoji, NEW fails, React(t, emoji, fails) PROVE Turns(t)
  <2>1. o \in Reactions
    BY <1>0, <1>9, OpFields DEF React, At
  <2>2. [o EXCEPT !.add = @ \ {emoji}, !.remove = @ \ {emoji}] \in Reactions
    BY <2>1 DEF Reactions
  <2>3. <<[o EXCEPT !.add = @ \ {emoji}, !.remove = @ \ {emoji}]>> \in S
    BY <1>1, <2>2, RestGiven
  <2> QED
    BY <1>9, <2>3 DEF React, Turns
<1>10. ASSUME DiscordFails(t) PROVE Turns(t)
  BY <1>0, <1>10 DEF DiscordFails, Turns
<1>11. ASSUME NotifyMessages(t) PROVE Turns(t)
  <2>1. o \in Notices
    BY <1>0, <1>11, OpFields DEF NotifyMessages, At
  <2>2. o.pr \in PRs /\ o.transitions \in SUBSET Transitions
    BY <2>1 DEF Notices
  <2>3. Dms(o.pr, o.transitions) \in S
    BY <2>2, DmsGiven
  <2>4. \A ms \in SUBSET Messages : Reconciles(ms) \in S
    BY ReconcilesGiven
  <2>5. Reconciles(MessagesFor(o.pr)) \in S /\ Reconciles(NotDone(MessagesFor(o.pr))) \in S
    BY <2>4, MessagesOfPR
  <2>6. PICK ms, ds : ms \in S /\ ds \in S /\ Then(t, ms \o ds)
    <3> DEFINE ends == o.transitions \cap Terminal # {}
               concerned == IF ends THEN MessagesFor(o.pr) ELSE NotDone(MessagesFor(o.pr))
               ds == IF concerned = {} THEN <<>> ELSE Dms(o.pr, o.transitions)
    <3>1. Reconciles(concerned) \in S
      BY <2>5
    <3>2. ds \in S
      BY <1>0, <2>3
    <3>3. Then(t, Reconciles(concerned) \o ds)
      BY <1>11 DEF NotifyMessages
    <3> QED
      BY <3>1, <3>2, <3>3
  <2> QED
    BY <1>2, <2>6 DEF Turns
<1>12. ASSUME RecheckThreads(t) PROVE Turns(t)
  <2>1. o.known \in SUBSET Messages
    BY <1>12, AnswerTyped DEF RecheckThreads, GitHubOps
  <2>2. Reconciles(o.known) \in S
    BY <2>1, ReconcilesGiven
  <2> QED
    BY <1>0, <1>12, <2>2 DEF RecheckThreads, Turns
<1>13. ASSUME RecheckChecks(t) PROVE Turns(t)
  <2>1. o.known.messages \in SUBSET Messages /\ o.pr \in PRs
    BY <1>13, AnswerTyped DEF RecheckChecks, GitHubOps
  <2>2. Reconciles(o.known.messages) \in S
    BY <2>1, ReconcilesGiven
  <2>3. Dms(o.pr, {"checks_failed"}) \in S
    BY <2>1, DmsGiven DEF Transitions
  <2>4. \A c : Reconciles(o.known.messages) \o (IF c THEN Dms(o.pr, {"checks_failed"}) ELSE <<>>) \in S
    BY <1>0, <1>2, <2>2, <2>3
  <2>5. Then(t, <<>>) \/ \E c : Then(t, Reconciles(o.known.messages)
                                       \o (IF c THEN Dms(o.pr, {"checks_failed"}) ELSE <<>>))
    BY <1>13 DEF RecheckChecks
  <2> QED
    BY <1>0, <2>4, <2>5 DEF Turns
<1>14. ASSUME Autopost(t) PROVE Turns(t)
  <2>1. o \in PostOps
    BY <1>0, <1>14, OpFields DEF Autopost, AutopostLands, At
  <2>2. o.pr \in PRs /\ posted + 1 \in Messages
    BY <1>14, <2>1, PrBotAssumption DEF PostOps, Autopost, AutopostLands, ChannelOK, Messages
  <2>3. content'[posted + 1] = {o.pr}
    BY <1>14, <2>2 DEF Autopost, AutopostLands, ChannelOK
  <2>4. <<Ingest(posted + 1, {o.pr})>> \in S
    BY <1>1, <2>2, <2>3, GivenOps
  <2> QED
    BY <1>14, <2>4 DEF Autopost, Turns
<1>15. ASSUME StoreLabels(t) PROVE Turns(t)
  <2>1. Reconciles(NotDone(MessagesFor(o.pr))) \in S
    BY MessagesOfPR, ReconcilesGiven
  <2> QED
    BY <1>0, <1>15, <2>1 DEF StoreLabels, Turns
<1>16. ASSUME RereadMessage(t) PROVE Turns(t)
  <2>1. o \in MessageOps
    BY <1>0, <1>16, OpFields DEF RereadMessage, At
  <2>2. o.message \in Messages /\ content' = content
    BY <1>16, <2>1 DEF MessageOps, RereadMessage, env
  <2>3. content[o.message] # None => <<Ingest(o.message, content[o.message])>> \in S
    BY <1>1, <2>2, GivenOps DEF ChannelOK
  <2> QED
    BY <1>0, <1>16, <2>3 DEF RereadMessage, Turns
<1>17. ASSUME ScanHistory(t) PROVE Turns(t)
  <2> DEFINE found == {m \in Messages : content[m] # None} \ (old \cup o.skip)
             n == Cardinality(found)
             f == InOrder(found)
  <2>1. n \in Nat /\ f \in [1..n -> found]
    BY MessagesFinite, InOrderInto
  <2>2. content' = content /\ \A m \in found : m \in Messages /\ content[m] \in SUBSET PRs
    BY <1>17 DEF ScanHistory, env, ChannelOK
  <2>3. \A m \in found : Ingest(m, content[m]) \in Given(content')
    BY <2>2, GivenOps
  <2>4. Then(t, Paced([i \in 1..n |-> Ingest(f[i], content[f[i]])], "polls"))
    BY <1>17 DEF ScanHistory
  <2> HIDE DEF found, n, f
  <2>5. [i \in 1..n |-> Ingest(f[i], content[f[i]])] \in [1..n -> Given(content')]
    BY <2>1, <2>3
  <2>6. Paced([i \in 1..n |-> Ingest(f[i], content[f[i]])], "polls") \in S
    BY <2>1, <2>5, FunctionIsSeq, PacedGiven
  <2> QED
    BY <2>4, <2>6 DEF Turns
<1>18. ASSUME ListActivePRs(t) PROVE Turns(t)
  <2> DEFINE n == Cardinality(ActivePRs)
             f == SetToSeq(ActivePRs)
  <2>1. n \in Nat /\ f \in [1..n -> ActivePRs]
    <3>1. ActivePRs \in SUBSET PRs
      BY DEF ActivePRs
    <3>2. IsFiniteSet(ActivePRs)
      BY <3>1, PrBotAssumption, FS_Subset
    <3> QED
      BY <3>2, SetToSeqInto
  <2>2. \A p \in ActivePRs : p \in PRs /\ row[p] \in Row
    BY DEF ActivePRs, TablesOK
  <2>3. \A p \in ActivePRs : Await("poll", p, row[p]) \in Given(content')
    BY <2>2, AwaitGiven
  <2>4. Then(t, Paced([i \in 1..n |-> Await("poll", f[i], row[f[i]])], "sweep"))
    BY <1>18 DEF ListActivePRs
  <2> HIDE DEF n, f
  <2>5. [i \in 1..n |-> Await("poll", f[i], row[f[i]])] \in [1..n -> Given(content')]
    BY <2>1, <2>3
  <2>6. Paced([i \in 1..n |-> Await("poll", f[i], row[f[i]])], "sweep") \in S
    BY <2>1, <2>5, FunctionIsSeq, PacedGiven
  <2> QED
    BY <2>4, <2>6 DEF Turns
<1>19. ASSUME PollPR(t) PROVE Turns(t)
  <2> DEFINE was == o.known
             new == Read(t, was)
             transitions == ({new.life} \cap Terminal)
                            \cup (IF new.review # was.review THEN {new.review} \ {"none"} ELSE {})
                            \cup (IF new.failing /\ ~was.failing THEN {"checks_failed"} ELSE {})
             ms == MessagesFor(o.pr)
             ds == IF NotDone(ms) = {} THEN <<>> ELSE Dms(o.pr, transitions)
  <2>1. o.pr \in PRs /\ was \in Row
    BY <1>19, AnswerTyped DEF PollPR, GitHubOps
  <2>2. new \in Row
    BY <1>19, <2>1, ReadTyped DEF PollPR, GitHubOps
  <2>3. transitions \in SUBSET Transitions
    <3>1. new.review \in Statuses
      BY <2>2 DEF Row
    <3> HIDE DEF new, was
    <3> QED
      BY <3>1 DEF Transitions, ReviewTransitions
  <2>4. Then(t, <<>>) \/ Then(t, Reconciles(ms) \o ds)
    BY <1>19 DEF PollPR
  <2>5. Reconciles(ms) \in S
    BY MessagesOfPR, ReconcilesGiven
  <2> HIDE DEF transitions
  <2>6. Dms(o.pr, transitions) \in S
    BY <2>1, <2>3, DmsGiven
  <2>7. ds \in S
    BY <1>0, <2>6
  <2> HIDE DEF ds, ms
  <2> QED
    BY <1>0, <1>2, <2>4, <2>5, <2>7 DEF Turns
<1>20. ASSUME SweepMessages(t) PROVE Turns(t)
  <2>1. Reconciles(ToSweep) \in S
    BY MessagesOfPR, ReconcilesGiven
  <2>2. Paced(Reconciles(ToSweep), "complete") \in S
    BY <2>1, PacedGiven
  <2> QED
    BY <1>20, <2>2 DEF SweepMessages, Turns
<1>21. ASSUME FetchAuthor(t) PROVE Turns(t)
  <2>1. o.op = "author" /\ o.pr \in PRs
    BY <1>21, AnswerTyped DEF FetchAuthor, Answered, At, GitHubOps
  <2>2. PICK tracked \in BOOLEAN : tracked <=> MessagesFor(o.pr) # {}
    OBVIOUS
  <2>3. \/ Then(t, <<>>)
        \/ /\ o.pr \notin autoposting /\ autoposting' = autoposting \cup {o.pr}
           /\ Then(t, Posts(o.pr, tracked))
    <3>1. tracked = (MessagesFor(o.pr) # {})
      BY <2>2, Zenon
    <3> QED
      BY <1>21, <3>1 DEF FetchAuthor
  <2> QED
    BY <1>0, <2>1, <2>2, <2>3 DEF Turns, Guards, Asked
<1> QED
  BY <1>3, <1>4, <1>5, <1>6, <1>7, <1>8, <1>9, <1>10, <1>11, <1>12, <1>13, <1>14, <1>15, <1>16,
     <1>17, <1>18, <1>19, <1>20, <1>21 DEF Step
-----------------------------------------------------------------------------
(* What else a step of a task changes. *)

ChangesRow(t) ==
    \/ FetchAndStore(t) \/ ReadRows(t) \/ ReadThreads(t) \/ RecheckThreads(t)
    \/ RecheckChecks(t) \/ StoreLabels(t) \/ PollPR(t)

(* Whether autoposts keeps the message that landed.                        *)
Keeps(t) ==
    \/ autoposts' = autoposts
    \/ Autopost(t) /\ ~Op(t).tracked /\ autoposts' = autoposts \cup {posted + 1}

StepFrame(t) ==
    /\ up /\ UNCHANGED <<github, webhooks, gateway, old, up>>
    /\ IngestMessage(t) \/ UpdateDone(t) \/ UNCHANGED message
    /\ ChangesRow(t) \/ UNCHANGED row
    /\ (\E emoji \in Emoji, fails \in BOOLEAN : React(t, emoji, fails)) \/ UNCHANGED reactions
    /\ (AutopostLands(t) /\ Keeps(t)) \/ UNCHANGED <<content, posted, byBot, autoposts>>
    /\ Unguard(t) \/ FetchAuthor(t) \/ UNCHANGED autoposting

LEMMA StepFrames ==
    ASSUME NEW t, Step(t)
    PROVE  StepFrame(t)
<1>1. ASSUME NEW lost \in Lost(Op(t).op), Answer(t, lost) PROVE StepFrame(t)
  BY <1>1 DEF Answer, StepFrame, env, queues, tables, memory
<1>2. ASSUME IngestMessage(t) PROVE StepFrame(t)
  BY <1>2 DEF IngestMessage, StepFrame, At, env, queues, memory
<1>3. ASSUME LookUpState(t) PROVE StepFrame(t)
  BY <1>3 DEF LookUpState, StepFrame, At, env, queues, tables, memory, history
<1>4. ASSUME FetchAndStore(t) PROVE StepFrame(t)
  BY <1>4 DEF FetchAndStore, StepFrame, ChangesRow, Answered, At, env, queues, memory
<1>5. ASSUME ReadRows(t) PROVE StepFrame(t)
  BY <1>5 DEF ReadRows, StepFrame, ChangesRow, At, env, queues, memory, history
<1>6. ASSUME FetchMessage(t) PROVE StepFrame(t)
  BY <1>6 DEF FetchMessage, StepFrame, At, env, queues, tables, memory, history
<1>7. ASSUME UpdateDone(t) PROVE StepFrame(t)
  BY <1>7 DEF UpdateDone, StepFrame, At, env, queues, memory, history
<1>8. ASSUME NEW emoji \in Emoji, NEW fails \in BOOLEAN, React(t, emoji, fails) PROVE StepFrame(t)
  BY <1>8 DEF React, StepFrame, At, queues, tables, memory
<1>9. ASSUME DmUser(t) PROVE StepFrame(t)
  BY <1>9 DEF DmUser, StepFrame, At, env, queues, tables, memory
<1>10. ASSUME Sleep(t) PROVE StepFrame(t)
  BY <1>10 DEF Sleep, StepFrame, At, env, queues, tables, memory, history
<1>11. ASSUME DiscordFails(t) PROVE StepFrame(t)
  BY <1>11 DEF DiscordFails, StepFrame, At, env, queues, tables, memory
<1>12. ASSUME ReadThreads(t) PROVE StepFrame(t)
  BY <1>12 DEF ReadThreads, StepFrame, ChangesRow, Answered, At, env, queues, memory, history
<1>13. ASSUME NotifyMessages(t) PROVE StepFrame(t)
  BY <1>13 DEF NotifyMessages, StepFrame, At, env, queues, tables, memory, history
<1>14. ASSUME RecheckThreads(t) PROVE StepFrame(t)
  BY <1>14 DEF RecheckThreads, StepFrame, ChangesRow, Answered, At, env, queues, memory, history
<1>15. ASSUME RecheckChecks(t) PROVE StepFrame(t)
  BY <1>15 DEF RecheckChecks, StepFrame, ChangesRow, Answered, At, env, queues, memory, history
<1>16. ASSUME Autopost(t) PROVE StepFrame(t)
  <2>1. AutopostLands(t) /\ Keeps(t)
    BY <1>16 DEF Autopost, Keeps
  <2> HIDE DEF Keeps
  <2> QED
    BY <2>1 DEF AutopostLands, StepFrame, At, queues, tables, memory
<1>17. ASSUME Unguard(t) PROVE StepFrame(t)
  BY <1>17 DEF Unguard, StepFrame, At, env, queues, tables, history
<1>18. ASSUME StoreLabels(t) PROVE StepFrame(t)
  BY <1>18 DEF StoreLabels, StepFrame, ChangesRow, At, env, queues, memory, history
<1>19. ASSUME RereadMessage(t) PROVE StepFrame(t)
  BY <1>19 DEF RereadMessage, StepFrame, At, env, queues, tables, memory, history
<1>20. ASSUME ScanHistory(t) PROVE StepFrame(t)
  BY <1>20 DEF ScanHistory, StepFrame, At, env, queues, tables, memory, history
<1>21. ASSUME ListActivePRs(t) PROVE StepFrame(t)
  BY <1>21 DEF ListActivePRs, StepFrame, At, env, queues, tables, memory
<1>22. ASSUME PollPR(t) PROVE StepFrame(t)
  BY <1>22 DEF PollPR, StepFrame, ChangesRow, Answered, At, env, queues, memory
<1>23. ASSUME SweepMessages(t) PROVE StepFrame(t)
  BY <1>23 DEF SweepMessages, StepFrame, At, env, queues, tables, memory, history
<1>24. ASSUME StartupComplete(t) PROVE StepFrame(t)
  BY <1>24 DEF StartupComplete, StepFrame, At, env, queues, tables, memory
<1>25. ASSUME AutopostUnanswered(t) PROVE StepFrame(t)
  <2>1. AutopostLands(t) /\ Keeps(t)
    BY <1>25 DEF AutopostUnanswered, Keeps
  <2> HIDE DEF Keeps
  <2> QED
    BY <2>1 DEF AutopostLands, StepFrame, At, queues, tables, memory
<1>26. ASSUME FetchAuthor(t) PROVE StepFrame(t)
  BY <1>26 DEF FetchAuthor, StepFrame, Answered, At, env, queues, tables, history
<1> HIDE DEF StepFrame
<1> QED
  BY <1>1, <1>2, <1>3, <1>4, <1>5, <1>6, <1>7, <1>8, <1>9, <1>10, <1>11, <1>12, <1>13, <1>14, <1>15,
     <1>16, <1>17, <1>18, <1>19, <1>20, <1>21, <1>22, <1>23, <1>24, <1>25, <1>26 DEF Step

LEMMA TrustingTyped ==
    ASSUME HistoryOK, NEW condition, NEW ps \in SUBSET PRs, Trusting(condition, ps)
    PROVE  HistoryOK'
<1>1. trust' \in {"whole", "healing", "broken"}
  BY DEF HistoryOK, Trusting
<1>2. filled' \subseteq PRs
  BY DEF HistoryOK, Trusting, Fill
<1>3. owed' \in [PRs -> Int]
  BY DEF HistoryOK, Trusting, Owe
<1> QED
  BY <1>1, <1>2, <1>3 DEF HistoryOK

LEMMA OweTyped ==
    ASSUME HistoryOK, NEW ps, NEW n \in Int, Owe(ps, n)
    PROVE  owed' \in [PRs -> Int]
  BY DEF HistoryOK, Owe

LEMMA StepHistory ==
    ASSUME HistoryOK, TasksOK, NEW t \in Tasks, task[t] # <<>>, Step(t)
    PROVE  HistoryOK'
<1>1. (\E lost \in Lost(Op(t).op) : Answer(t, lost)) => HistoryOK'
  BY TrustingTyped DEF Answer
<1>2. IngestMessage(t) \/ DiscordFails(t) \/ ListActivePRs(t) \/ AutopostUnanswered(t) => HistoryOK'
  BY TrustingTyped DEF IngestMessage, DiscordFails, ListActivePRs, AutopostUnanswered
<1>3. (\E emoji \in Emoji, fails \in BOOLEAN : React(t, emoji, fails)) => HistoryOK'
  BY TrustingTyped DEF React
<1>4. ASSUME FetchAndStore(t) \/ PollPR(t) PROVE HistoryOK'
  <2>1. Op(t).pr \in PRs
    BY <1>4, AnswerTyped DEF FetchAndStore, PollPR, GitHubOps
  <2>2. Trusting(TRUE, {Op(t).pr})
    BY <1>4 DEF FetchAndStore, PollPR
  <2> QED
    BY <2>1, <2>2, TrustingTyped
<1>5. ASSUME DmUser(t) PROVE HistoryOK'
  <2>1. owed' \in [PRs -> Int]
    BY <1>5, OweTyped DEF DmUser
  <2> QED
    BY <1>5, <2>1 DEF DmUser, HistoryOK
<1>6. ASSUME StartupComplete(t) \/ Autopost(t) PROVE HistoryOK'
  BY <1>6 DEF StartupComplete, Autopost, HistoryOK
<1>7. LookUpState(t) \/ ReadRows(t) \/ FetchMessage(t) \/ UpdateDone(t) \/ Sleep(t) \/ ReadThreads(t)
      \/ NotifyMessages(t) \/ RecheckThreads(t) \/ RecheckChecks(t) \/ Unguard(t) \/ StoreLabels(t)
      \/ RereadMessage(t) \/ ScanHistory(t) \/ SweepMessages(t) \/ FetchAuthor(t)
      => UNCHANGED history
  BY DEF LookUpState, ReadRows, FetchMessage, UpdateDone, Sleep, ReadThreads, NotifyMessages, RecheckThreads,
     RecheckChecks, Unguard, StoreLabels, RereadMessage, ScanHistory, SweepMessages, FetchAuthor
<1>8. UNCHANGED history => HistoryOK'
  BY DEF history, HistoryOK
<1> QED
  BY <1>1, <1>2, <1>3, <1>4, <1>5, <1>6, <1>7, <1>8 DEF Step

LEMMA GivenOpSet ==
    ASSUME NEW c
    PROVE  Seq(Given(c)) \subseteq Seq(OpSet)
<1>1. Given(c) \subseteq OpSet
  BY DEF Given
<1> QED
  BY <1>1, SeqMonotonic

LEMMA PostsTyped ==
    ASSUME NEW p \in PRs, NEW tracked \in BOOLEAN
    PROVE  /\ Posts(p, tracked) \in Seq(OpSet) /\ Len(Posts(p, tracked)) = 2
           /\ Posts(p, tracked)[1] \in PostOps
           /\ Posts(p, tracked)[1].op = "post" /\ Posts(p, tracked)[1].pr = p
           /\ Posts(p, tracked)[1].tracked = tracked
           /\ Posts(p, tracked)[2].op = "unguard" /\ Posts(p, tracked)[2].pr = p
<1>1. PICK a : a = [op |-> "post", pr |-> p, tracked |-> tracked]
  OBVIOUS
<1>2. PICK b : b = [op |-> "unguard", pr |-> p]
  OBVIOUS
<1>3. a \in PostOps /\ b \in PrOps
  BY <1>1, <1>2 DEF PostOps, PrOps
<1>4. a \in OpSet /\ b \in OpSet
  BY <1>3 DEF OpSet
<1>5. Posts(p, tracked) = <<a, b>>
  BY <1>1, <1>2 DEF Posts
<1>6. a.op = "post" /\ a.pr = p /\ a.tracked = tracked /\ b.op = "unguard" /\ b.pr = p
  BY <1>1, <1>2
<1> QED
  BY <1>3, <1>4, <1>5, <1>6

LEMMA TurnsTyped ==
    ASSUME TasksOK, NEW t \in Tasks, task[t] # <<>>, Turns(t)
    PROVE  /\ TasksOK'
           /\ \A u \in Tasks : u # t => task'[u] = task[u]
<1>1. Tail(task[t]) \in Seq(OpSet)
  BY OpTyped
<1>2. ASSUME NEW ops \in Seq(OpSet), Then(t, ops)
      PROVE  TasksOK' /\ \A u \in Tasks : u # t => task'[u] = task[u]
  <2>2. ops \o Tail(task[t]) \in Seq(OpSet)
    BY <1>1, ConcatProperties
  <2>3. task' = [task EXCEPT ![t] = ops \o Tail(task[t])]
    BY <1>2 DEF Then
  <2> QED
    BY <2>2, <2>3 DEF TasksOK
<1>6. (\E ops \in Seq(Given(content')) : Then(t, ops)) => \E ops \in Seq(OpSet) : Then(t, ops)
  BY GivenOpSet
<1>3. ASSUME task' = [task EXCEPT ![t] = <<>>]
      PROVE  TasksOK' /\ \A u \in Tasks : u # t => task'[u] = task[u]
  BY <1>3, EmptySeq DEF TasksOK
<1>4. ASSUME Hears(t) PROVE \E ops \in Seq(OpSet) : Then(t, ops)
  <2>1. PICK o \in Fetches : Then(t, <<o>>)
    BY <1>4 DEF Hears
  <2>2. o \in OpSet
    BY DEF OpSet
  <2> QED
    BY <2>1, <2>2, SingletonSeq
<1>5. ASSUME NEW p, NEW tracked, Guards(t, p, tracked) PROVE \E ops \in Seq(OpSet) : Then(t, ops)
  <2>1. Posts(p, tracked) \in Seq(OpSet)
    BY <1>5, PostsTyped DEF Guards
  <2> QED
    BY <1>5, <2>1 DEF Guards
<1> QED
  BY <1>2, <1>3, <1>4, <1>5, <1>6 DEF Turns

(* Only an answer comes in whoever runs. *)
LEMMA StepAlone ==
    ASSUME NEW t, Step(t)
    PROVE  (\E lost \in Lost(Op(t).op) : Answer(t, lost)) \/ Busy \subseteq {t}
<1>1. IngestMessage(t) \/ LookUpState(t) \/ FetchAndStore(t) \/ ReadRows(t) \/ FetchMessage(t)
      \/ UpdateDone(t) \/ DmUser(t) \/ Sleep(t) \/ DiscordFails(t) \/ ReadThreads(t) \/ NotifyMessages(t)
      => Busy \subseteq {t}
  BY DEF IngestMessage, LookUpState, FetchAndStore, ReadRows, FetchMessage, UpdateDone, DmUser, Sleep,
     DiscordFails, ReadThreads, NotifyMessages, Answered, At
<1>2. RecheckThreads(t) \/ RecheckChecks(t) \/ Autopost(t) \/ AutopostUnanswered(t) \/ FetchAuthor(t)
      \/ Unguard(t) \/ StoreLabels(t) \/ RereadMessage(t) \/ ScanHistory(t) \/ ListActivePRs(t) \/ PollPR(t) \/ SweepMessages(t)
      \/ StartupComplete(t) => Busy \subseteq {t}
  BY DEF RecheckThreads, RecheckChecks, Autopost, AutopostUnanswered, AutopostLands, FetchAuthor, Unguard,
     StoreLabels, RereadMessage, ScanHistory, ListActivePRs, PollPR, SweepMessages, StartupComplete,
     Answered, At
<1>3. (\E emoji \in Emoji, fails \in BOOLEAN : React(t, emoji, fails)) => Busy \subseteq {t}
  BY DEF React, At
<1> QED
  BY <1>1, <1>2, <1>3 DEF Step

LEMMA StepBusy ==
    ASSUME TasksOK, OneBusy, NEW t \in Tasks, task[t] # <<>>, Step(t), Turns(t)
    PROVE  OneBusy'
<1>1. \A u \in Tasks : u # t => task'[u] = task[u]
  BY TurnsTyped
<1>2. CASE Busy \subseteq {t}
  <2>1. \A u \in Busy' : u \in Busy \/ u = t
    BY <1>1 DEF Busy
  <2> QED
    BY <1>2, <2>1 DEF OneBusy
<1>3. ASSUME NEW lost \in Lost(Op(t).op), Answer(t, lost) PROVE OneBusy'
  <2> DEFINE new == [Op(t) EXCEPT !.answer = [row |-> Truth(Op(t).pr), lost |-> lost]]
  <2>1. Op(t).op \in GitHubOps /\ Op(t) \in OpSet
    BY <1>3, OpTyped DEF Answer
  <2>2. new.op = Op(t).op
    <3>1. \/ Op(t) \in Fetches \/ Op(t) \in Threads \/ Op(t) \in Rethreads \/ Op(t) \in Rechecks
          \/ Op(t) \in Polls
      BY <2>1, OpFields DEF GitHubOps
    <3> QED
      BY <3>1 DEF Fetches, Threads, Rethreads, Rechecks, Polls
  <2>3. Head(task'[t]) = new
    <3>1. task'[t] = <<new>> \o Tail(task[t])
      BY <1>3 DEF Answer, Then, TasksOK
    <3>2. Tail(task[t]) \in Seq(OpSet \cup {new}) /\ <<new>> \in Seq(OpSet \cup {new})
      BY OpTyped, SeqMonotonic, SingletonSeq
    <3> HIDE DEF new
    <3>3. Head(<<new>> \o Tail(task[t])) = new
      BY <3>2, ConcatProperties
    <3> QED
      BY <3>1, <3>3
  <2>4. Head(task'[t]).op \notin SyncOps
    BY <2>1, <2>2, <2>3 DEF GitHubOps, SyncOps
  <2>5. \A u \in Busy' : u \in Busy
    BY <1>1, <2>4 DEF Busy
  <2> QED
    BY <2>5 DEF OneBusy
<1> QED
  BY <1>2, <1>3, StepAlone

(* What a step writes of the table prs, but for the rows it only adds. *)
SetsRow(p) == p \in PRs /\ \E r \in Row : row' = row \/ row' = [row EXCEPT ![p] = r]

LEMMA StepWrites ==
    ASSUME TablesOK, TasksOK, NEW t \in Tasks, task[t] # <<>>, ChangesRow(t)
    PROVE  ReadRows(t) \/ SetsRow(Op(t).pr)
<1> DEFINE o == Op(t)
<1>0. o \in OpSet
  BY OpTyped
<1>1. ASSUME NEW p \in PRs, NEW r \in Row, row' = row \/ row' = [row EXCEPT ![p] = r] PROVE SetsRow(p)
  BY <1>1 DEF SetsRow
<1>2. \A p \in PRs : RowOr(p) \in Row
  BY RowOrTyped
<1>3. ASSUME FetchAndStore(t) PROVE SetsRow(o.pr)
  <2>1. o.pr \in PRs
    BY <1>3, AnswerTyped DEF FetchAndStore, GitHubOps
  <2>2. RowOr(o.pr) \in Row
    BY <1>2, <2>1
  <2>3. Read(t, RowOr(o.pr)) \in Row
    BY <1>3, <2>2, ReadTyped DEF FetchAndStore, GitHubOps
  <2> QED
    BY <1>0, <1>1, <1>3, <2>1, <2>3 DEF FetchAndStore
<1>5. ASSUME ReadThreads(t) PROVE SetsRow(o.pr)
  <2>1. o.pr \in PRs /\ o.answer.row.resolved \in BOOLEAN
    BY <1>5, AnswerTyped DEF ReadThreads, GitHubOps, Row
  <2>2. [RowOr(o.pr) EXCEPT !.resolved = o.answer.row.resolved] \in Row
    BY <1>2, <2>1 DEF Row
  <2> QED
    BY <1>0, <1>1, <1>5, <2>1, <2>2 DEF ReadThreads
<1>6. ASSUME RecheckThreads(t) PROVE SetsRow(o.pr)
  <2>1. o.pr \in PRs /\ o.answer.row.resolved \in BOOLEAN
    BY <1>6, AnswerTyped DEF RecheckThreads, GitHubOps, Row
  <2>2. [RowOr(o.pr) EXCEPT !.resolved = o.answer.row.resolved] \in Row
    BY <1>2, <2>1 DEF Row
  <2> QED
    BY <1>0, <1>1, <1>6, <2>1, <2>2 DEF RecheckThreads
<1>7. ASSUME RecheckChecks(t) PROVE SetsRow(o.pr)
  <2>1. o.pr \in PRs /\ o.answer.row.failing \in BOOLEAN /\ o.known.failing \in BOOLEAN
    BY <1>7, AnswerTyped DEF RecheckChecks, GitHubOps, Row
  <2>2. \A failing \in BOOLEAN : [RowOr(o.pr) EXCEPT !.failing = failing] \in Row
    BY <1>2, <2>1 DEF Row
  <2>3. \/ row' = row
        \/ \E failing \in BOOLEAN : row' = [row EXCEPT ![o.pr] = [RowOr(o.pr) EXCEPT !.failing = failing]]
    BY <1>7, <2>1 DEF RecheckChecks
  <2> QED
    BY <1>0, <1>1, <2>1, <2>2, <2>3
<1>8. ASSUME StoreLabels(t) PROVE SetsRow(o.pr)
  <2>1. o \in LabelOps
    BY <1>0, <1>8, OpFields DEF StoreLabels, At
  <2>2. o.pr \in PRs /\ o.ready \in BOOLEAN
    BY <2>1 DEF LabelOps
  <2>3. [RowOr(o.pr) EXCEPT !.ready = o.ready] \in Row
    BY <1>2, <2>2 DEF Row
  <2> QED
    BY <1>0, <1>1, <1>8, <2>2, <2>3 DEF StoreLabels
<1>9. ASSUME PollPR(t) PROVE SetsRow(o.pr)
  <2>1. o.pr \in PRs /\ o.known \in Row
    BY <1>9, AnswerTyped DEF PollPR, GitHubOps
  <2>2. Read(t, o.known) \in Row
    BY <1>9, <2>1, ReadTyped DEF PollPR, GitHubOps
  <2>3. RowOr(o.pr).failing \in BOOLEAN /\ Read(t, o.known).failing \in BOOLEAN
    BY <1>2, <2>1, <2>2 DEF Row
  <2>4. \A checks \in BOOLEAN : [Read(t, o.known) EXCEPT !.failing = checks] \in Row
    BY <2>2 DEF Row
  <2>5. \/ row' = row
        \/ \E checks \in BOOLEAN : row' = [row EXCEPT ![o.pr] = [Read(t, o.known) EXCEPT !.failing = checks]]
    BY <1>9, <2>3 DEF PollPR
  <2> QED
    BY <1>0, <1>1, <2>1, <2>4, <2>5
<1> QED
  BY <1>3, <1>5, <1>6, <1>7, <1>8, <1>9 DEF ChangesRow

LEMMA StepRow ==
    ASSUME TablesOK, TasksOK, NEW t \in Tasks, task[t] # <<>>, ChangesRow(t)
    PROVE  row' \in [PRs -> Row \cup {None}] /\ \A p \in PRs : row[p] # None => row'[p] # None
<1>0. row \in [PRs -> Row \cup {None}] /\ \A p \in PRs : RowOr(p) \in Row
  BY RowOrTyped DEF TablesOK
<1>1. None \notin Row
  BY PrBotAssumption
<1>2. CASE ReadRows(t)
  BY <1>0, <1>1, <1>2 DEF ReadRows
<1>3. CASE SetsRow(Op(t).pr)
  BY <1>0, <1>1, <1>3 DEF SetsRow
<1> QED
  BY <1>2, <1>3, StepWrites

LEMMA StepTables ==
    ASSUME TablesOK, TasksOK, NEW t \in Tasks, task[t] # <<>>, StepFrame(t)
    PROVE  TablesOK'
<1> DEFINE o == Op(t)
<1>0. o \in OpSet
  BY OpTyped
<1>1. row' \in [PRs -> Row \cup {None}]
  BY StepRow DEF StepFrame, TablesOK
<1>2. ASSUME IngestMessage(t) PROVE message' \in [Messages -> Entries \cup {None}]
  <2>1. o \in Ingestions
    BY <1>0, <1>2, OpFields DEF IngestMessage, At
  <2>2. o.message \in Messages /\ o.links \in SUBSET PRs
    BY <2>1 DEF Ingestions
  <2>3. message[o.message] # None => message[o.message].done \in BOOLEAN
    BY <2>2 DEF TablesOK, Entries
  <2>4. [links |-> o.links, done |-> message[o.message] # None /\ message[o.message].done] \in Entries
    BY <2>2, <2>3 DEF Entries
  <2>5. message' = [message EXCEPT ![o.message] =
                      [links |-> o.links, done |-> message[o.message] # None /\ message[o.message].done]]
    BY <1>2, <2>2 DEF IngestMessage, Stored, TablesOK
  <2> QED
    BY <2>4, <2>5 DEF TablesOK
<1>3. ASSUME UpdateDone(t) PROVE message' \in [Messages -> Entries \cup {None}]
  <2>1. o \in Reactions
    BY <1>0, <1>3, OpFields DEF UpdateDone, At
  <2>2. o.message \in Messages
    BY <2>1 DEF Reactions
  <2>3. o.message \in Tracked => [links |-> message[o.message].links, done |-> o.mark = "done"] \in Entries
    BY <2>2 DEF TablesOK, Entries, Tracked
  <2> QED
    BY <1>3, <2>2, <2>3 DEF UpdateDone, TablesOK
<1> QED
  BY <1>1, <1>2, <1>3 DEF StepFrame, TablesOK

LEMMA StepReactions ==
    ASSUME ReactionsOK, TasksOK, NEW t \in Tasks, task[t] # <<>>, StepFrame(t)
    PROVE  ReactionsOK'
<1>1. ASSUME NEW emoji \in Emoji, NEW fails \in BOOLEAN, React(t, emoji, fails)
      PROVE  ReactionsOK'
  <2>1. Op(t) \in Reactions
    BY <1>1, OpTyped, OpFields DEF React, At
  <2>2. Op(t).message \in Messages
    BY <2>1 DEF Reactions
  <2>3. \/ reactions' = reactions
        \/ \E new \in SUBSET Emoji : reactions' = [reactions EXCEPT ![Op(t).message] = new]
    BY <1>1, <2>2 DEF React, ReactionsOK
  <2> QED
    BY <2>2, <2>3 DEF ReactionsOK
<1> QED
  BY <1>1 DEF StepFrame, ReactionsOK

LEMMA StepChannel ==
    ASSUME ChannelOK, TasksOK, NEW t \in Tasks, task[t] # <<>>, StepFrame(t)
    PROVE  ChannelOK'
<1>1. ASSUME AutopostLands(t), Keeps(t) PROVE ChannelOK'
  <2>1. Op(t) \in PostOps
    BY <1>1, OpTyped, OpFields DEF AutopostLands, At
  <2>2. Op(t).pr \in PRs
    BY <2>1 DEF PostOps
  <2>3. posted \in Nat /\ posted' = posted + 1 /\ posted < MaxMessages /\ MaxMessages \in Nat
    BY <1>1, PrBotAssumption DEF AutopostLands, ChannelOK
  <2>4. posted' \in 0..MaxMessages /\ posted + 1 \in Messages
    BY <2>3 DEF Messages
  <2>5. content' \in [Messages -> (SUBSET PRs) \cup {None}]
    BY <1>1, <2>2, <2>4 DEF AutopostLands, ChannelOK
  <2>6. 1..posted \subseteq 1..posted' /\ posted + 1 \in 1..posted'
    BY <2>3
  <2>7. byBot' = byBot \cup {posted + 1} /\ autoposts' \subseteq autoposts \cup {posted + 1}
    BY <1>1 DEF AutopostLands, Keeps
  <2>8. byBot' \subseteq 1..posted' /\ autoposts' \subseteq byBot'
    BY <2>6, <2>7 DEF ChannelOK
  <2> QED
    BY <2>4, <2>5, <2>8 DEF ChannelOK, StepFrame
<1> QED
  BY <1>1 DEF StepFrame, ChannelOK

LEMMA StepMemory ==
    ASSUME MemoryOK, TasksOK, NEW t \in Tasks, StepFrame(t)
    PROVE  MemoryOK'
<1>1. ASSUME FetchAuthor(t) PROVE autoposting' \subseteq PRs
  <2>1. Op(t).pr \in PRs
    BY <1>1, AnswerTyped DEF FetchAuthor, GitHubOps
  <2> QED
    BY <1>1, <2>1 DEF FetchAuthor, MemoryOK
<1> QED
  BY <1>1 DEF StepFrame, MemoryOK, Unguard

LEMMA StepTyped ==
    ASSUME Typed, NEW t \in Tasks, task[t] # <<>>, Step(t)
    PROVE  Typed'
<1>1. StepFrame(t) /\ Turns(t)
  BY StepFrames, StepTurns DEF Typed
<1>2. TasksOK' /\ OneBusy'
  BY <1>1, TurnsTyped, StepBusy DEF Typed
<1>3. TablesOK' /\ ReactionsOK'
  BY <1>1, StepTables, StepReactions DEF Typed
<1>4. ChannelOK' /\ MemoryOK'
  BY <1>1, StepChannel, StepMemory DEF Typed
<1>5. HistoryOK'
  BY StepHistory DEF Typed
<1>6. GitHubOK' /\ QueuesOK'
  BY <1>1 DEF Typed, StepFrame, GitHubOK, QueuesOK
<1> QED
  BY <1>2, <1>3, <1>4, <1>5, <1>6 DEF Typed
-----------------------------------------------------------------------------
(* The handlers that webhooks, Discord events and commands start. *)

Labels(p, ready) == [op |-> "labels", pr |-> p, ready |-> ready]
Autoposts(p, ready) == <<[op |-> "post", pr |-> p, tracked |-> FALSE],
                         [op |-> "unguard", pr |-> p], Labels(p, ready)>>
AsksFirst(p, ready) == <<Await("author", p, None), Labels(p, ready)>>

Received(t) ==
    \/ \E ops \in Seq(Given(content')) : Starts(t, ops) /\ autoposting' = autoposting
    \/ \E p \in PRs, ready \in BOOLEAN :
         \/ /\ MayAutopost(p) /\ autoposting' = autoposting \cup {p}
            /\ Starts(t, Autoposts(p, ready))
         \/ Starts(t, AsksFirst(p, ready)) /\ autoposting' = autoposting

ReceiveFrame(t) ==
    /\ up /\ Busy = {} /\ t \in Handlers /\ task[t] = <<>>
    /\ UNCHANGED <<github, content, reactions, posted, byBot, old, autoposts, up>>
    /\ webhooks' \in Seq(Events) /\ gateway' \in {gateway, Tail(gateway)}
    /\ gateway # <<>> \/ gateway' = gateway
    /\ row' \in [PRs -> Row \cup {None}]
    /\ OnMessage(t) \/ UNCHANGED message
    /\ HistoryOK'

LEMMA EventFields ==
    ASSUME NEW e \in Events
    PROVE  /\ e.pr \in PRs
           /\ e.kind = "review" => e.review \in Reviews
           /\ e.kind = "close" => e.life \in Terminal
           /\ e.kind = "label" => e.ready \in BOOLEAN
           /\ e.kind = "check" => e.failing \in BOOLEAN
  BY DEF Events

LEMMA DeliversTyped ==
    ASSUME QueuesOK, HistoryOK, NEW t, NEW i, NEW kind, Delivers(t, i, kind)
    PROVE  /\ webhooks[i] \in Events /\ webhooks[i].kind = kind
           /\ webhooks' \in Seq(Events)
           /\ HistoryOK'
           /\ UNCHANGED <<github, content, reactions, posted, byBot, old, gateway, message>>
<1>1. webhooks \in Seq(Events) /\ i \in 1..Len(webhooks) /\ Len(webhooks) \in Nat
  BY LenProperties DEF QueuesOK, Delivers
<1>2. \A j \in 1..Len(webhooks) : webhooks[j] \in Events
  BY <1>1, ElementOfSeq
<1>3. webhooks' \in Seq(Events)
  <2>1. webhooks' = SubSeq(webhooks, 1, i - 1) \o SubSeq(webhooks, i + 1, Len(webhooks))
    BY DEF Delivers, RemoveAt
  <2>2. SubSeq(webhooks, 1, i - 1) \in Seq(Events)
    <3>1. \A j \in 1..(i - 1) : webhooks[j] \in Events
      BY <1>1, <1>2
    <3> QED
      BY <1>1, <3>1, SubSeqProperties
  <2>3. SubSeq(webhooks, i + 1, Len(webhooks)) \in Seq(Events)
    <3>1. \A j \in (i + 1)..Len(webhooks) : webhooks[j] \in Events
      BY <1>1, <1>2
    <3> QED
      BY <1>1, <3>1, SubSeqProperties
  <2> QED
    BY <2>1, <2>2, <2>3, ConcatProperties
<1>4. HistoryOK'
  BY TrustingTyped DEF Delivers
<1> QED
  BY <1>1, <1>2, <1>3, <1>4 DEF Delivers, env

LEMMA StatesFinite ==
    ASSUME NEW c, NEW m \in Messages, NEW links \in SUBSET PRs
    PROVE  IngestOps(m, links) \in Seq(Given(c))
<1>1. Reconcile(m) \in Given(c)
  BY GivenOps
<1>2. <<Reconcile(m)>> \in Seq(Given(c)) /\ States(links) \in Seq(Given(c))
  BY <1>1, SingletonSeq, StatesGiven
<1> QED
  BY <1>2, ConcatProperties DEF IngestOps

LEMMA ThreeOps ==
    ASSUME NEW a, NEW b, NEW c
    PROVE  <<a, b>> \o <<c>> = <<a, b, c>>
<1> DEFINE S == {a, b, c}
<1>1. <<a, b>> \in Seq(S) /\ <<c>> \in Seq(S) /\ <<a, b, c>> \in Seq(S)
  OBVIOUS
<1>2. /\ Len(<<a, b>>) = 2 /\ Len(<<c>>) = 1 /\ Len(<<a, b, c>>) = 3
      /\ <<a, b>>[1] = a /\ <<a, b>>[2] = b /\ <<c>>[1] = c
      /\ <<a, b, c>>[1] = a /\ <<a, b, c>>[2] = b /\ <<a, b, c>>[3] = c
  OBVIOUS
<1>3. /\ <<a, b>> \o <<c>> \in Seq(S) /\ Len(<<a, b>> \o <<c>>) = 3
      /\ \A i \in 1..3 : (<<a, b>> \o <<c>>)[i] = IF i <= 2 THEN <<a, b>>[i] ELSE <<c>>[i - 2]
  BY <1>1, <1>2, ConcatProperties
<1>4. \A i \in 1..3 : (<<a, b>> \o <<c>>)[i] = <<a, b, c>>[i]
  BY <1>2, <1>3
<1> HIDE DEF S
<1> QED
  BY <1>1, <1>2, <1>3, <1>4, SeqEqual

LEMMA TwoOps ==
    ASSUME NEW a, NEW b
    PROVE  <<a>> \o <<b>> = <<a, b>>
<1> DEFINE S == {a, b}
<1>1. <<a>> \in Seq(S) /\ <<b>> \in Seq(S) /\ <<a, b>> \in Seq(S)
  OBVIOUS
<1>2. /\ Len(<<a>>) = 1 /\ Len(<<b>>) = 1 /\ Len(<<a, b>>) = 2
      /\ <<a>>[1] = a /\ <<b>>[1] = b /\ <<a, b>>[1] = a /\ <<a, b>>[2] = b
  OBVIOUS
<1>3. /\ <<a>> \o <<b>> \in Seq(S) /\ Len(<<a>> \o <<b>>) = 2
      /\ \A i \in 1..2 : (<<a>> \o <<b>>)[i] = IF i <= 1 THEN <<a>>[i] ELSE <<b>>[i - 1]
  BY <1>1, <1>2, ConcatProperties
<1>4. \A i \in 1..2 : (<<a>> \o <<b>>)[i] = <<a, b>>[i]
  BY <1>2, <1>3
<1> HIDE DEF S
<1> QED
  BY <1>1, <1>2, <1>3, <1>4, SeqEqual

LEMMA ReceiveTurns ==
    ASSUME Typed, NEW t, Receive(t)
    PROVE  Received(t) /\ ReceiveFrame(t)
<1> DEFINE S == Seq(Given(content'))
           G == Received(t) /\ ReceiveFrame(t)
<1>0. /\ QueuesOK /\ HistoryOK /\ TablesOK
      /\ row \in [PRs -> Row \cup {None}]
      /\ \A p \in PRs : RowOr(p) \in Row
      /\ <<>> \in S
  BY RestGiven, RowOrTyped DEF Typed, TablesOK
<1>1. \A x \in Given(content') : <<x>> \in S
  BY RestGiven
<1>2. \A a, b \in S : a \o b \in S
  BY RestGiven
<1>3. \A p \in PRs, r \in Row : [row EXCEPT ![p] = r] \in [PRs -> Row \cup {None}]
  BY <1>0
<1>4. ASSUME NEW i \in DOMAIN webhooks, HandleReview(t, i) PROVE G
  <2> DEFINE p == webhooks[i].pr
             review == webhooks[i].review
             status == Reviewed(RowOr(p).review, review)
             ts == IF status \notin {RowOr(p).review, "none"} THEN {status} ELSE {}
             wait == IF review \in {"approved", "dismissed"} THEN <<>>
                     ELSE <<Await("threads", p, RowOr(p).resolved)>>
  <2>1. Delivers(t, i, "review")
    BY <1>4 DEF HandleReview
  <2>2. p \in PRs /\ review \in Reviews
    BY <1>0, <2>1, DeliversTyped, EventFields
  <2>3. RowOr(p).review \in Statuses /\ RowOr(p).resolved \in BOOLEAN
    BY <1>0, <2>2 DEF Row
  <2>4. status \in Statuses
    BY <2>2, <2>3, ReviewedTyped
  <2>5. [RowOr(p) EXCEPT !.review = status] \in Row
    BY <1>0, <2>2, <2>4 DEF Row
  <2>6. wait \in S
    BY <1>0, <1>1, <2>2, <2>3, AwaitGiven
  <2>7. ts \in SUBSET Transitions
    BY <2>4 DEF Transitions, ReviewTransitions
  <2>8. Starts(t, wait \o <<Notify(p, ts)>>) /\ row' = [row EXCEPT ![p] = [RowOr(p) EXCEPT !.review = status]]
        /\ UNCHANGED <<memory, autoposts>>
    BY <1>4 DEF HandleReview
  <2> HIDE DEF wait, ts, status, review, p
  <2>9. Notify(p, ts) \in Notices
    BY <2>2, <2>7 DEF Notices, Notify
  <2>10. <<Notify(p, ts)>> \in S
    BY <1>1, <2>9, RestGiven
  <2>11. wait \o <<Notify(p, ts)>> \in S
    BY <1>2, <2>6, <2>10
  <2>12. Received(t)
    BY <2>8, <2>11 DEF Received, memory
  <2>13. row' \in [PRs -> Row \cup {None}]
    BY <1>3, <2>2, <2>5, <2>8
  <2> QED
    BY <1>0, <2>1, <2>8, <2>12, <2>13, DeliversTyped DEF ReceiveFrame, Starts, memory
<1>5. ASSUME NEW i \in DOMAIN webhooks, HandleClose(t, i) PROVE G
  <2> DEFINE p == webhooks[i].pr
             life == webhooks[i].life
             changed == IF life = "merged" THEN RowOr(p).life # "merged" ELSE RowOr(p).life = "open"
             ts == IF changed THEN {life} ELSE {}
  <2>1. Delivers(t, i, "close")
    BY <1>5 DEF HandleClose
  <2>2. p \in PRs /\ life \in Terminal
    BY <1>0, <2>1, DeliversTyped, EventFields
  <2>3. [RowOr(p) EXCEPT !.life = life] \in Row
    BY <1>0, <2>2 DEF Row, Terminal, Lives
  <2>4. ts \in SUBSET Transitions
    BY <2>2 DEF Transitions
  <2>5. Starts(t, <<Notify(p, ts)>>) /\ row' = [row EXCEPT ![p] = [RowOr(p) EXCEPT !.life = life]]
        /\ UNCHANGED <<memory, autoposts>>
    BY <1>5 DEF HandleClose
  <2> HIDE DEF ts, life, p
  <2>6. Notify(p, ts) \in Notices
    BY <2>2, <2>4 DEF Notices, Notify
  <2>7. <<Notify(p, ts)>> \in S
    BY <1>1, <2>6, RestGiven
  <2>8. Received(t)
    BY <2>5, <2>7 DEF Received, memory
  <2>9. row' \in [PRs -> Row \cup {None}]
    BY <1>3, <2>2, <2>3, <2>5
  <2> QED
    BY <1>0, <2>1, <2>5, <2>8, <2>9, DeliversTyped DEF ReceiveFrame, Starts, memory
<1>6. ASSUME NEW i \in DOMAIN webhooks, HandleThread(t, i) PROVE G
  <2> DEFINE p == webhooks[i].pr
             ms == MessagesFor(p)
  <2>1. Delivers(t, i, "thread")
    BY <1>6 DEF HandleThread
  <2>2. p \in PRs
    BY <1>0, <2>1, DeliversTyped, EventFields
  <2>3. <<Await("rethread", p, NotDone(ms))>> \in S
    BY <1>1, <2>2, AwaitGiven, MessagesOfPR
  <2>4. Starts(t, <<>>) \/ Starts(t, <<Await("rethread", p, NotDone(ms))>>)
    BY <1>6 DEF HandleThread
  <2>5. UNCHANGED <<row, memory, autoposts>>
    BY <1>6 DEF HandleThread
  <2>6. Received(t)
    BY <1>0, <2>3, <2>4, <2>5 DEF Received, memory
  <2> QED
    BY <1>0, <2>1, <2>4, <2>5, <2>6, DeliversTyped DEF ReceiveFrame, Starts, memory
<1>7. ASSUME NEW i \in DOMAIN webhooks, HandleCheck(t, i) PROVE G
  <2> DEFINE p == webhooks[i].pr
             failing == webhooks[i].failing
             ms == MessagesFor(p)
             wait == <<Await("recheck", p, [messages |-> NotDone(ms), failing |-> failing])>>
  <2>1. Delivers(t, i, "check")
    BY <1>7 DEF HandleCheck
  <2>2. p \in PRs /\ failing \in BOOLEAN
    BY <1>0, <2>1, DeliversTyped, EventFields
  <2>3. wait \in S
    BY <1>1, <2>2, AwaitGiven, MessagesOfPR
  <2>4. Starts(t, <<>>) \/ Starts(t, wait)
    BY <1>7 DEF HandleCheck
  <2>5. UNCHANGED <<row, memory, autoposts>>
    BY <1>7 DEF HandleCheck
  <2>6. Received(t)
    BY <1>0, <2>3, <2>4, <2>5 DEF Received, memory
  <2> QED
    BY <1>0, <2>1, <2>4, <2>5, <2>6, DeliversTyped DEF ReceiveFrame, Starts, memory
<1>8. ASSUME NEW i \in DOMAIN webhooks, HandleLabel(t, i) PROVE G
  <2>1. Delivers(t, i, "label")
    BY <1>8 DEF HandleLabel
  <2>2. PICK p \in PRs : p = webhooks[i].pr
    BY <1>0, <2>1, DeliversTyped, EventFields
  <2>3. PICK ready \in BOOLEAN : ready = webhooks[i].ready
    BY <1>0, <2>1, DeliversTyped, EventFields
  <2>4. PICK labels \in LabelOps : labels = Labels(p, ready)
    BY DEF LabelOps, Labels
  <2>5. <<labels>> \in S
    BY <1>1, RestGiven
  <2>6. UNCHANGED <<row, up, autoposts>>
    BY <1>8 DEF HandleLabel
  <2>7. \/ Starts(t, <<labels>>) /\ autoposting' = autoposting
        \/ MayAutopost(p) /\ autoposting' = autoposting \cup {p} /\ Starts(t, Posts(p, FALSE) \o <<labels>>)
        \/ Starts(t, <<Await("author", p, None)>> \o <<labels>>) /\ autoposting' = autoposting
    BY <1>8, <2>2, <2>3, <2>4 DEF HandleLabel, Labels
  <2>8. Posts(p, FALSE) \o <<labels>> = Autoposts(p, ready)
    BY <2>4, ThreeOps DEF Autoposts, Posts
  <2>9. <<Await("author", p, None)>> \o <<labels>> = AsksFirst(p, ready)
    BY <2>4, TwoOps DEF AsksFirst
  <2>10. Received(t)
    BY <2>5, <2>7, <2>8, <2>9 DEF Received
  <2>11. up /\ Busy = {} /\ t \in Handlers /\ task[t] = <<>>
    BY <2>7 DEF Starts
  <2> QED
    BY <1>0, <2>1, <2>6, <2>10, <2>11, DeliversTyped DEF ReceiveFrame
<1>9. ASSUME OnMessage(t) PROVE G
  <2> DEFINE e == Head(gateway)
  <2>1. e \in GatewayEvents /\ e.kind = "post" /\ gateway # <<>>
    BY <1>0, <1>9, HeadTailProperties DEF QueuesOK, OnMessage, TakesEvent
  <2>2. e.message \in Messages /\ e.links \in SUBSET PRs
    BY <2>1 DEF GatewayEvents, PostEvents
  <2>3. IngestOps(e.message, e.links) \in S
    BY <2>2, StatesFinite
  <2>4. Starts(t, IngestOps(e.message, e.links)) /\ UNCHANGED <<row, memory, autoposts>>
        /\ TakesEvent("post") /\ Trusting(Alone, {})
    BY <1>9 DEF OnMessage
  <2>5. Received(t)
    BY <2>3, <2>4 DEF Received, memory
  <2>6. HistoryOK'
    BY <1>0, <2>4, TrustingTyped
  <2> QED
    BY <1>0, <1>9, <2>1, <2>4, <2>5, <2>6 DEF ReceiveFrame, Starts, memory, TakesEvent, env, QueuesOK
<1>10. ASSUME OnEdit(t) PROVE G
  <2> DEFINE e == Head(gateway)
  <2>1. e \in GatewayEvents /\ gateway # <<>>
    BY <1>0, <1>10, HeadTailProperties DEF QueuesOK, OnEdit, TakesEvent
  <2>2. e.message \in Messages
    BY <2>1 DEF GatewayEvents, PostEvents
  <2>3. <<[op |-> "reread", message |-> e.message]>> \in S
    BY <1>1, <2>2, GivenOps
  <2>4. Starts(t, <<[op |-> "reread", message |-> e.message]>>) /\ UNCHANGED <<tables, memory, autoposts>>
        /\ TakesEvent("edit") /\ Trusting(Alone, {})
    BY <1>10 DEF OnEdit, Rereads
  <2>5. Received(t)
    BY <2>3, <2>4 DEF Received, memory
  <2>6. HistoryOK'
    BY <1>0, <2>4, TrustingTyped
  <2> QED
    BY <1>0, <2>1, <2>4, <2>5, <2>6 DEF ReceiveFrame, Starts, memory, tables, TakesEvent, env, QueuesOK
<1>11. ASSUME NEW m \in Messages, Resync(t, m) PROVE G
  <2>1. <<[op |-> "reread", message |-> m]>> \in S
    BY <1>1, GivenOps
  <2>2. Starts(t, <<[op |-> "reread", message |-> m]>>) /\ UNCHANGED <<env, queues, tables, memory, autoposts>>
        /\ Trusting(Alone, {})
    BY <1>11 DEF Resync, Rereads
  <2>3. Received(t)
    BY <2>1, <2>2 DEF Received, memory
  <2>4. HistoryOK'
    BY <1>0, <2>2, TrustingTyped
  <2> QED
    BY <1>0, <2>2, <2>3, <2>4 DEF ReceiveFrame, Starts, memory, tables, queues, env, QueuesOK
<1> QED
  BY <1>4, <1>5, <1>6, <1>7, <1>8, <1>9, <1>10, <1>11 DEF Receive

LEMMA ReceiveTyped ==
    ASSUME Typed, NEW t \in Handlers, Received(t), ReceiveFrame(t)
    PROVE  Typed'
<1>1. t \in Tasks
  BY DEF Tasks
<1>2. PICK ops \in Seq(OpSet) : Starts(t, ops)
  <2>1. CASE \E ops \in Seq(Given(content')) : Starts(t, ops)
    BY <2>1, GivenOpSet
  <2>2. ASSUME NEW p \in PRs, NEW ready \in BOOLEAN, Starts(t, Autoposts(p, ready))
        PROVE  Autoposts(p, ready) \in Seq(OpSet)
    <3>1. [op |-> "post", pr |-> p, tracked |-> FALSE] \in PostOps /\ [op |-> "unguard", pr |-> p] \in PrOps
      BY DEF PostOps, PrOps
    <3>2. Labels(p, ready) \in LabelOps
      BY DEF LabelOps, Labels
    <3>3. /\ [op |-> "post", pr |-> p, tracked |-> FALSE] \in OpSet /\ [op |-> "unguard", pr |-> p] \in OpSet
          /\ Labels(p, ready) \in OpSet
      BY <3>1, <3>2 DEF OpSet
    <3> QED
      BY <3>3 DEF Autoposts
  <2>3. ASSUME NEW p \in PRs, NEW ready \in BOOLEAN, Starts(t, AsksFirst(p, ready))
        PROVE  AsksFirst(p, ready) \in Seq(OpSet)
    <3>1. Await("author", p, None) \in Fetches /\ Labels(p, ready) \in LabelOps
      BY DEF Fetches, Await, Answers, LabelOps, Labels
    <3>2. Await("author", p, None) \in OpSet /\ Labels(p, ready) \in OpSet
      BY <3>1 DEF OpSet
    <3> QED
      BY <3>2 DEF AsksFirst
  <2> QED
    BY <2>1, <2>2, <2>3 DEF Received
<1>3. TasksOK' /\ (\A u \in Tasks : u # t => task'[u] = task[u])
  BY <1>1, <1>2 DEF Starts, Typed, TasksOK
<1>4. OneBusy'
  BY <1>3 DEF ReceiveFrame, Busy, OneBusy
<1>5. GitHubOK' /\ ChannelOK' /\ ReactionsOK'
  BY DEF ReceiveFrame, Typed, GitHubOK, ChannelOK, ReactionsOK
<1>6. QueuesOK'
  <2>1. gateway # <<>> => Tail(gateway) \in Seq(GatewayEvents)
    BY HeadTailProperties DEF Typed, QueuesOK
  <2> QED
    BY <2>1 DEF ReceiveFrame, Typed, QueuesOK
<1>7. TablesOK'
  <2>1. ASSUME OnMessage(t) PROVE message' \in [Messages -> Entries \cup {None}]
    <3> DEFINE e == Head(gateway)
    <3>1. e \in GatewayEvents /\ e.kind = "post"
      BY <2>1, HeadTailProperties DEF Typed, QueuesOK, OnMessage, TakesEvent
    <3>2. e.message \in Messages /\ e.links \in SUBSET PRs
      BY <3>1 DEF GatewayEvents, PostEvents
    <3>3. message[e.message] # None => message[e.message].done \in BOOLEAN
      BY <3>2 DEF Typed, TablesOK, Entries
    <3>4. [links |-> e.links, done |-> message[e.message] # None /\ message[e.message].done] \in Entries
      BY <3>2, <3>3 DEF Entries
    <3>5. message' = [message EXCEPT ![e.message] =
                        [links |-> e.links, done |-> message[e.message] # None /\ message[e.message].done]]
      BY <2>1, <3>2 DEF OnMessage, Stored, Typed, TablesOK
    <3> QED
      BY <3>4, <3>5 DEF Typed, TablesOK
  <2> QED
    BY <2>1 DEF ReceiveFrame, Typed, TablesOK
<1>8. MemoryOK'
  BY DEF ReceiveFrame, Received, Typed, MemoryOK
<1> QED
  BY <1>3, <1>4, <1>5, <1>6, <1>7, <1>8 DEF Typed, ReceiveFrame

(* What happens on GitHub and what users do leave the bot's own state.     *)
Outside ==
    /\ UNCHANGED <<tables, task, memory, autoposts, byBot>>
    /\ QueuesOK' /\ GitHubOK' /\ ReactionsOK' /\ ChannelOK' /\ HistoryOK'
    /\ ~up => UNCHANGED queues

LEMMA OutsideTyped ==
    ASSUME Typed, Outside
    PROVE  Typed'
<1>1. TasksOK' /\ TablesOK'
  BY DEF Outside, Typed, TasksOK, TablesOK, tables
<1>2. OneBusy'
  BY DEF Outside, Typed, OneBusy, Busy
<1>3. MemoryOK'
  BY DEF Outside, Typed, MemoryOK, memory, queues, Idle
<1> QED
  BY <1>1, <1>2, <1>3 DEF Outside, Typed

LEMMA GitHubOutside ==
    ASSUME Typed, NEW p \in PRs, GitHubChanges(p)
    PROVE  Outside /\ UNCHANGED <<content, posted, old, gateway>>
<1> DEFINE g == github[p]
           G == Outside /\ UNCHANGED <<content, posted, old, gateway>>
<1>0. /\ g \in OnGitHub /\ g.reviews \in Seq(Reviews)
      /\ g.life \in Lives /\ g.failing \in BOOLEAN /\ g.resolved \in BOOLEAN
  BY DEF Typed, GitHubOK, OnGitHub
<1>1. ASSUME NEW kind, NEW new \in OnGitHub, NEW event \in Events \cup {None}, NEW dms \in Int,
             Changed(kind, p, new, event, dms)
      PROVE  G
  <2>1. UNCHANGED <<content, reactions, posted, byBot, old, gateway, tables, task, memory, autoposts>>
    BY <1>1 DEF Changed
  <2>2. GitHubOK'
    BY <1>1 DEF Changed, Typed, GitHubOK
  <2>3. QueuesOK'
    <3>1. \A e \in Events : Append(webhooks, e) \in Seq(Events)
      BY DEF Typed, QueuesOK
    <3> QED
      BY <1>1, <2>1, <3>1 DEF Changed, Typed, QueuesOK
  <2>4. HistoryOK'
    <3>1. trust' \in {"whole", "healing", "broken"} /\ filled' \subseteq PRs
      BY <1>1 DEF Changed, Fill, Typed, HistoryOK
    <3>2. owed' \in [PRs -> Int]
      BY <1>1, OweTyped DEF Changed, Typed
    <3> QED
      BY <3>1, <3>2 DEF HistoryOK
  <2>5. ~up => UNCHANGED queues
    BY <1>1, <2>1 DEF Changed, queues
  <2>6. ReactionsOK' /\ ChannelOK'
    BY <2>1 DEF Typed, ReactionsOK, ChannelOK
  <2> QED
    BY <2>1, <2>2, <2>3, <2>4, <2>5, <2>6 DEF Outside
<1>2. ASSUME NEW review \in Reviews, NEW opens \in BOOLEAN, SubmitReview(p, review, opens) PROVE G
  <2>1. Append(g.reviews, review) \in Seq(Reviews)
    BY <1>0
  <2>2. [g EXCEPT !.reviews = Append(@, review), !.resolved = @ /\ ~opens] \in OnGitHub
    BY <1>0, <2>1 DEF OnGitHub
  <2>3. [kind |-> "review", pr |-> p, review |-> review] \in Events
    BY DEF Events
  <2> QED
    BY <1>1, <1>2, <2>2, <2>3 DEF SubmitReview
<1>3. ASSUME NEW i \in DOMAIN github[p].reviews, DismissReview(p, i) PROVE G
  <2>1. [g.reviews EXCEPT ![i] = "dismissed"] \in Seq(Reviews)
    <3>1. i \in 1..Len(g.reviews) /\ "dismissed" \in Reviews
      BY <1>0, LenProperties DEF Reviews
    <3> QED
      BY <1>0, <3>1, ExceptSeq
  <2>2. [g EXCEPT !.reviews = [@ EXCEPT ![i] = "dismissed"]] \in OnGitHub
    BY <1>0, <2>1 DEF OnGitHub
  <2>3. [kind |-> "review", pr |-> p, review |-> "dismissed"] \in Events
    BY DEF Events, Reviews
  <2> QED
    BY <1>1, <1>3, <2>2, <2>3 DEF DismissReview
<1>4. ASSUME NEW life \in Terminal, ClosePr(p, life) PROVE G
  <2>1. [g EXCEPT !.life = life] \in OnGitHub
    BY <1>0 DEF OnGitHub, Terminal, Lives
  <2>2. [kind |-> "close", pr |-> p, life |-> life] \in Events
    BY DEF Events
  <2> QED
    BY <1>1, <1>4, <2>1, <2>2 DEF ClosePr
<1>5. ASSUME ReopenPr(p) PROVE G
  <2>1. [g EXCEPT !.life = "open"] \in OnGitHub
    BY <1>0 DEF OnGitHub, Lives
  <2> QED
    BY <1>1, <1>5, <2>1 DEF ReopenPr
<1>6. ASSUME NEW ready \in BOOLEAN, ChangeLabels(p, ready) PROVE G
  <2>1. [g EXCEPT !.ready = ready] \in OnGitHub
    BY <1>0 DEF OnGitHub
  <2>2. [kind |-> "label", pr |-> p, ready |-> ready] \in Events
    BY DEF Events
  <2> QED
    BY <1>1, <1>6, <2>1, <2>2 DEF ChangeLabels
<1>7. ASSUME CompleteChecks(p) PROVE G
  <2>1. [g EXCEPT !.failing = ~g.failing] \in OnGitHub
    BY <1>0 DEF OnGitHub
  <2>2. [kind |-> "check", pr |-> p, failing |-> ~g.failing] \in Events
    BY <1>0 DEF Events
  <2> QED
    BY <1>1, <1>7, <2>1, <2>2 DEF CompleteChecks
<1>8. ASSUME ResolveThreads(p) PROVE G
  <2>1. [g EXCEPT !.resolved = ~@] \in OnGitHub
    BY <1>0 DEF OnGitHub
  <2>2. [kind |-> "thread", pr |-> p] \in Events
    BY DEF Events
  <2> QED
    BY <1>1, <1>8, <2>1, <2>2 DEF ResolveThreads
<1> QED
  BY <1>2, <1>3, <1>4, <1>5, <1>6, <1>7, <1>8 DEF GitHubChanges

LEMMA UsersOutside ==
    ASSUME Typed,
           \/ \E links \in Links : PostMessage(links) \/ \E m \in Messages : EditMessage(m, links)
           \/ \E m \in Messages : DeleteMessage(m) \/ GrowOld(m)
    PROVE  Outside
<1> DEFINE U == UserActs
<1>1. UserActs => UNCHANGED <<github, byBot, webhooks, tables, task, memory, autoposts>> /\ HistoryOK' /\ GitHubOK'
  BY DEF UserActs, history, Typed, HistoryOK, GitHubOK
<1>2. \A e \in GatewayEvents : Append(gateway, e) \in Seq(GatewayEvents)
  BY DEF Typed, QueuesOK
<1>3. \A e \in GatewayEvents : Notified(e) => gateway' \in Seq(GatewayEvents) /\ (~up => gateway' = gateway)
  BY <1>2 DEF Notified, Typed, QueuesOK
<1>4. ASSUME NEW links \in Links, PostMessage(links) PROVE Outside
  <2>1. links \in SUBSET PRs /\ MaxMessages \in Nat
    BY PrBotAssumption
  <2>2. posted + 1 \in Messages /\ posted' \in 0..MaxMessages /\ 1..posted \subseteq 1..posted'
    BY <1>4, <2>1 DEF PostMessage, Typed, ChannelOK, Messages
  <2>3. [kind |-> "post", message |-> posted + 1, links |-> links] \in GatewayEvents
    BY <2>1, <2>2 DEF GatewayEvents, PostEvents
  <2>4. content' \in [Messages -> (SUBSET PRs) \cup {None}]
    BY <1>4, <2>1, <2>2 DEF PostMessage, Typed, ChannelOK
  <2>5. UserActs /\ UNCHANGED <<reactions, old>>
    BY <1>4 DEF PostMessage
  <2>6. ChannelOK'
    BY <1>1, <2>2, <2>4, <2>5 DEF Typed, ChannelOK
  <2>7. gateway' \in Seq(GatewayEvents) /\ (~up => gateway' = gateway)
    BY <1>3, <1>4, <2>3 DEF PostMessage
  <2> QED
    BY <1>1, <2>5, <2>6, <2>7 DEF Outside, queues, Typed, QueuesOK, ReactionsOK
<1>5. ASSUME NEW links \in Links, NEW m \in Messages, EditMessage(m, links) PROVE Outside
  <2>1. links \in SUBSET PRs
    BY PrBotAssumption
  <2>2. [kind |-> "edit", message |-> m] \in GatewayEvents
    BY DEF GatewayEvents
  <2>3. UserActs /\ UNCHANGED <<reactions, posted, old>>
    BY <1>5 DEF EditMessage
  <2>4. ChannelOK'
    BY <1>1, <1>5, <2>1, <2>3 DEF EditMessage, Typed, ChannelOK
  <2>5. gateway' \in Seq(GatewayEvents) /\ (~up => gateway' = gateway)
    BY <1>3, <1>5, <2>2 DEF EditMessage
  <2> QED
    BY <1>1, <2>3, <2>4, <2>5 DEF Outside, queues, Typed, QueuesOK, ReactionsOK
<1>6. ASSUME NEW m \in Messages, DeleteMessage(m) PROVE Outside
  <2>1. [kind |-> "delete", message |-> m] \in GatewayEvents
    BY DEF GatewayEvents
  <2>2. UserActs /\ UNCHANGED <<posted, old>>
    BY <1>6 DEF DeleteMessage
  <2>3. ChannelOK' /\ ReactionsOK'
    BY <1>1, <1>6, <2>2 DEF DeleteMessage, Typed, ChannelOK, ReactionsOK
  <2>4. gateway' \in Seq(GatewayEvents) /\ (~up => gateway' = gateway)
    BY <1>3, <1>6, <2>1 DEF DeleteMessage
  <2> QED
    BY <1>1, <2>2, <2>3, <2>4 DEF Outside, queues, Typed, QueuesOK
<1>7. ASSUME NEW m \in Messages, GrowOld(m) PROVE Outside
  <2>1. UserActs /\ UNCHANGED <<content, reactions, posted, gateway>> /\ old' = old \cup {m}
    BY <1>7 DEF GrowOld
  <2>2. ChannelOK'
    BY <1>1, <2>1 DEF Typed, ChannelOK
  <2> QED
    BY <1>1, <2>1, <2>2 DEF Outside, queues, Typed, QueuesOK, ReactionsOK
<1> QED
  BY <1>4, <1>5, <1>6, <1>7

LEMMA CleanedTables ==
    ASSUME TablesOK, Cleaned
    PROVE  TablesOK' /\ message' = [m \in Messages |-> IF m \in old THEN None ELSE message[m]]
  BY DEF TablesOK, Cleaned

LEMMA OthersTyped ==
    ASSUME Typed, OnDelete \/ RunCleanup \/ Crash \/ Restart
    PROVE  Typed'
<1>1. ASSUME OnDelete PROVE Typed'
  <2>1. Head(gateway) \in GatewayEvents /\ gateway # <<>> /\ Head(gateway).kind = "delete"
        /\ Tail(gateway) \in Seq(GatewayEvents)
    BY <1>1, HeadTailProperties DEF Typed, QueuesOK, OnDelete, TakesEvent
  <2>2. Head(gateway).message \in Messages
    BY <2>1 DEF GatewayEvents, PostEvents
  <2>3. TablesOK' /\ QueuesOK'
    BY <1>1, <2>1, <2>2 DEF OnDelete, TakesEvent, Typed, TablesOK, QueuesOK
  <2>4. UNCHANGED <<env, row, task, memory, autoposts>>
    BY <1>1 DEF OnDelete, TakesEvent
  <2>5. GitHubOK' /\ ChannelOK' /\ ReactionsOK' /\ TasksOK' /\ OneBusy'
    BY <2>4 DEF env, Typed, GitHubOK, ChannelOK, ReactionsOK, TasksOK, OneBusy, Busy
  <2>6. MemoryOK'
    BY <1>1, <2>4 DEF OnDelete, Typed, MemoryOK, memory
  <2>7. HistoryOK'
    BY <1>1, TrustingTyped DEF OnDelete, Typed
  <2> QED
    BY <2>3, <2>5, <2>6, <2>7 DEF Typed
<1>2. ASSUME RunCleanup PROVE Typed'
  <2>1. TablesOK'
    BY <1>2, CleanedTables DEF RunCleanup, Typed
  <2>2. UNCHANGED <<env, queues, task, memory, autoposts>>
    BY <1>2 DEF RunCleanup
  <2>3. GitHubOK' /\ ChannelOK' /\ ReactionsOK' /\ TasksOK' /\ OneBusy' /\ QueuesOK'
    BY <2>2 DEF env, queues, Typed, GitHubOK, ChannelOK, ReactionsOK, TasksOK, OneBusy, Busy, QueuesOK
  <2>4. MemoryOK'
    BY <2>2 DEF Typed, MemoryOK, memory, queues, Idle
  <2>5. HistoryOK'
    <3>1. trust' \in {"whole", "healing", "broken"} /\ filled' \subseteq PRs
      BY <1>2 DEF RunCleanup, Fill, Typed, HistoryOK
    <3>2. owed' \in [PRs -> Int]
      BY <1>2, OweTyped DEF RunCleanup, Typed
    <3> QED
      BY <3>1, <3>2 DEF HistoryOK
  <2> QED
    BY <2>1, <2>3, <2>4, <2>5 DEF Typed
<1>3. ASSUME Crash PROVE Typed'
  <2>1. /\ UNCHANGED <<env, tables>> /\ task' = [t \in Tasks |-> <<>>] /\ up' = FALSE
        /\ autoposting' = {} /\ autoposts' = {} /\ webhooks' = <<>> /\ gateway' = <<>>
    BY <1>3 DEF Crash
  <2>2. GitHubOK' /\ ChannelOK' /\ ReactionsOK' /\ TablesOK'
    BY <2>1 DEF env, tables, Typed, GitHubOK, ChannelOK, ReactionsOK, TablesOK
  <2>3. QueuesOK' /\ TasksOK'
    BY <2>1, EmptySeq DEF QueuesOK, TasksOK
  <2>4. MemoryOK' /\ OneBusy'
    BY <2>1 DEF MemoryOK, OneBusy, Busy, Idle
  <2>5. HistoryOK'
    BY <1>3, TrustingTyped DEF Crash, Typed
  <2> QED
    BY <2>2, <2>3, <2>4, <2>5 DEF Typed
<1>4. ASSUME Restart PROVE Typed'
  <2>1. TablesOK'
    BY <1>4, CleanedTables DEF Restart, Typed
  <2> DEFINE settled == {m \in Messages : message'[m] # None /\ message'[m].links # {}}
             pass == [op |-> "history", skip |-> settled]
  <2>2. /\ UNCHANGED <<env, queues, autoposting, autoposts, filled, owed>> /\ trust' = "healing"
        /\ up' = TRUE /\ task' = [task EXCEPT !["startup"] = <<pass>>]
    BY <1>4 DEF Restart
  <2>3. GitHubOK' /\ ChannelOK' /\ ReactionsOK' /\ QueuesOK' /\ HistoryOK'
    BY <2>2 DEF env, queues, Typed, GitHubOK, ChannelOK, ReactionsOK, QueuesOK, HistoryOK
  <2>4. TasksOK'
    <3>1. pass \in Histories
      BY DEF Histories
    <3>2. pass \in OpSet
      BY <3>1 DEF OpSet
    <3>3. <<pass>> \in Seq(OpSet)
      BY <3>2, SingletonSeq
    <3> HIDE DEF pass
    <3> QED
      BY <2>2, <3>3 DEF Typed, TasksOK
  <2>5. MemoryOK'
    BY <2>2 DEF Typed, MemoryOK
  <2>6. OneBusy'
    <3>1. \A u \in Tasks : task[u] = <<>>
      BY <1>4 DEF Restart, Typed, MemoryOK, Idle
    <3>2. \A u \in Tasks : u # "startup" => task'[u] = <<>>
      BY <2>2, <3>1 DEF Typed, TasksOK
    <3> QED
      BY <3>2 DEF OneBusy, Busy
  <2> QED
    BY <2>1, <2>3, <2>4, <2>5, <2>6 DEF Typed
<1> QED
  BY <1>1, <1>2, <1>3, <1>4

LEMMA NextTyped ==
    ASSUME Typed, [Next]_vars
    PROVE  Typed'
<1>1. CASE \E t \in Tasks \ Idle : Step(t)
  BY <1>1, StepTyped DEF Idle
<1>2. CASE \E t \in Handlers \cap Idle : Receive(t)
  BY <1>2, ReceiveTurns, ReceiveTyped
<1>3. CASE OnDelete \/ RunCleanup \/ Crash \/ Restart
  BY <1>3, OthersTyped
<1>4. CASE \E p \in PRs : GitHubChanges(p)
  BY <1>4, GitHubOutside, OutsideTyped
<1>5. CASE \/ \E links \in Links : PostMessage(links) \/ \E m \in Messages : EditMessage(m, links)
           \/ \E m \in Messages : DeleteMessage(m) \/ GrowOld(m)
  BY <1>5, UsersOutside, OutsideTyped
<1>6. CASE UNCHANGED vars
  BY <1>6 DEF vars, env, queues, tables, memory, history, Typed, GitHubOK, ChannelOK, ReactionsOK, QueuesOK,
     TablesOK, TasksOK, MemoryOK, OneBusy, HistoryOK, Busy, Idle
<1> QED
  BY <1>1, <1>2, <1>3, <1>4, <1>5, <1>6 DEF Next

LEMMA TypedStands == Spec => []Typed
  BY InitTyped, NextTyped, PTL DEF Spec

(* The tables, the queues, the channel and what is left of every task keep *)
(* their types, at most one task is in the middle of its synchronous code, *)
(* and a process that is down has neither tasks, queues nor guards: the    *)
(* state of PrBot in src/pr-bot/bot.py and of the tables of db.py.         *)
THEOREM TypeCorrect == Spec => []TypeOK
  BY TypedStands, TypedImpliesTypeOK, PTL
-----------------------------------------------------------------------------
(* What the sequences of operations hold. *)

Only(ops, kinds) == \A i \in DOMAIN ops : ops[i].op \in kinds

LEMMA ReconcilesAre ==
    ASSUME NEW ms \in SUBSET Messages
    PROVE  /\ Reconciles(ms) \in Seq(OpSet) /\ Only(Reconciles(ms), {"reconcile"})
           /\ Len(Reconciles(ms)) = Cardinality(ms) /\ Cardinality(ms) \in Nat
           /\ \A i \in DOMAIN Reconciles(ms) :
                Reconciles(ms)[i].op = "reconcile" /\ Reconciles(ms)[i].message \in ms
<1>1. Reconciles(ms) \in Seq(OpSet)
  BY ReconcilesGiven, GivenOpSet
<1> DEFINE n == Cardinality(ms)
           f == InOrder(ms)
<1>2. n \in Nat /\ f \in [1..n -> ms]
  BY MessagesFinite, InOrderInto
<1> HIDE DEF n, f
<1>3. Reconciles(ms) = [i \in 1..n |-> Reconcile(f[i])]
  BY DEF Reconciles, n, f
<1>4. \A i \in 1..n : Reconciles(ms)[i].op = "reconcile" /\ Reconciles(ms)[i].message \in ms
  BY <1>2, <1>3 DEF Reconcile
<1>5. DOMAIN Reconciles(ms) = 1..n
  BY <1>3
<1>6. Len(Reconciles(ms)) = n
  BY <1>1, <1>2, <1>5, LenProperties
<1> QED
  BY <1>1, <1>2, <1>4, <1>5, <1>6 DEF Only, n

LEMMA OneElement ==
    ASSUME NEW S, \A x, y \in S : x = y
    PROVE  Cardinality(S) \in {0, 1} /\ (Cardinality(S) = 1 => S # {})
<1>1. CASE S = {}
  BY <1>1, FS_EmptySet
<1>2. ASSUME NEW x \in S PROVE Cardinality(S) = 1
  <2>1. S = {x}
    BY <1>2
  <2> QED
    BY <2>1, FS_Singleton
<1> QED
  BY <1>1, <1>2

(* Of one transition there is one DM at most. *)
LEMMA DmsAre ==
    ASSUME NEW p \in PRs, NEW transitions \in SUBSET Transitions
    PROVE  /\ Dms(p, transitions) \in Seq(OpSet) /\ Only(Dms(p, transitions), {"dm"})
           /\ \A i \in DOMAIN Dms(p, transitions) : Dms(p, transitions)[i].pr = p
           /\ (\A x, y \in transitions : x = y) =>
                /\ Len(Dms(p, transitions)) \in {0, 1}
                /\ Len(Dms(p, transitions)) = 1 => transitions # {}
<1>1. Dms(p, transitions) \in Seq(OpSet)
  BY DmsGiven, GivenOpSet
<1> DEFINE told == {tr \in transitions : ShouldDm(Pref, tr)}
           n == Cardinality(told)
<1>2. Dms(p, transitions) = [i \in 1..n |-> [op |-> "dm", pr |-> p]]
  BY DEF Dms
<1>3. ASSUME \A x, y \in transitions : x = y
      PROVE  n \in {0, 1} /\ (n = 1 => transitions # {})
  BY <1>3, OneElement
<1> HIDE DEF n
<1>4. DOMAIN Dms(p, transitions) = 1..n
  BY <1>2
<1>5. \A i \in 1..n : Dms(p, transitions)[i].op = "dm" /\ Dms(p, transitions)[i].pr = p
  BY <1>2
<1>6. n \in {0, 1} => Len(Dms(p, transitions)) = n
  BY <1>1, <1>4, LenProperties
<1> QED
  BY <1>1, <1>3, <1>4, <1>5, <1>6 DEF Only

LEMMA StatesAre ==
    ASSUME NEW links \in SUBSET PRs
    PROVE  /\ States(links) \in Seq(OpSet) /\ Only(States(links), {"state"})
           /\ \A i \in DOMAIN States(links) : States(links)[i].pr \in links
<1>1. States(links) \in Seq(OpSet)
  BY StatesGiven, GivenOpSet
<1> DEFINE n == Cardinality(links)
           f == SetToSeq(links)
<1>2. n \in Nat /\ f \in [1..n -> links]
  BY PrBotAssumption, FS_Subset, SetToSeqInto
<1> HIDE DEF n, f
<1>3. States(links) = [i \in 1..n |-> [op |-> "state", pr |-> f[i]]]
  BY DEF States, n, f
<1> QED
  BY <1>1, <1>2, <1>3 DEF Only

(* Two sequences of operations, one after the other. *)
LEMMA BothAre ==
    ASSUME NEW S, NEW a \in Seq(S), NEW b \in Seq(S)
    PROVE  /\ a \o b \in Seq(S) /\ Len(a) \in Nat /\ Len(b) \in Nat
           /\ Len(a \o b) = Len(a) + Len(b)
           /\ DOMAIN a = 1..Len(a) /\ DOMAIN b = 1..Len(b)
           /\ DOMAIN (a \o b) = 1..(Len(a) + Len(b))
           /\ \A i \in 1..(Len(a) + Len(b)) :
                (a \o b)[i] = IF i <= Len(a) THEN a[i] ELSE b[i - Len(a)]
<1>1. Len(a) \in Nat /\ Len(b) \in Nat /\ DOMAIN a = 1..Len(a) /\ DOMAIN b = 1..Len(b)
  BY LenProperties
<1>2. /\ a \o b \in Seq(S) /\ Len(a \o b) = Len(a) + Len(b)
      /\ \A i \in 1..(Len(a) + Len(b)) :
           (a \o b)[i] = IF i <= Len(a) THEN a[i] ELSE b[i - Len(a)]
  BY ConcatProperties
<1>3. DOMAIN (a \o b) = 1..(Len(a) + Len(b))
  BY <1>2, LenProperties
<1> QED
  BY <1>1, <1>2, <1>3

LEMMA OnlyBoth ==
    ASSUME NEW S, NEW a \in Seq(S), NEW b \in Seq(S), NEW kinds, Only(a, kinds), Only(b, kinds)
    PROVE  Only(a \o b, kinds)
<1>1. ASSUME NEW i \in 1..(Len(a) + Len(b))
      PROVE  (a \o b)[i].op \in kinds
  <2>1. Len(a) \in Nat /\ Len(b) \in Nat /\ DOMAIN a = 1..Len(a) /\ DOMAIN b = 1..Len(b)
    BY LenProperties
  <2>2. CASE i <= Len(a)
    BY <1>1, <2>1, <2>2, BothAre DEF Only
  <2>3. CASE ~(i <= Len(a))
    <3>1. i - Len(a) \in 1..Len(b)
      BY <1>1, <2>1, <2>3
    <3>2. (a \o b)[i] = b[i - Len(a)]
      BY <1>1, <2>1, <2>3, BothAre
    <3> QED
      BY <2>1, <3>1, <3>2 DEF Only
  <2> QED
    BY <2>2, <2>3
<1> QED
  BY <1>1, BothAre DEF Only

(* A paced sequence ends with its next part and pauses between. *)
LEMMA PacedAre ==
    ASSUME NEW ops \in Seq(OpSet), NEW next \in {"polls", "sweep", "complete"}
    PROVE  /\ Paced(ops, next) \in Seq(OpSet) /\ Len(Paced(ops, next)) = 2 * Len(ops) + 1
           /\ Len(ops) \in Nat
           /\ Paced(ops, next)[2 * Len(ops) + 1] = [op |-> next]
           /\ \A i \in 1..(2 * Len(ops)) :
                Paced(ops, next)[i] = IF i % 2 = 1 THEN ops[(i + 1) \div 2] ELSE Pause
<1> DEFINE n == Len(ops)
           f == [i \in 1..(2 * n) |-> IF i % 2 = 1 THEN ops[(i + 1) \div 2] ELSE Pause]
           g == <<[op |-> next]>>
<1>1. n \in Nat /\ \A i \in 1..n : ops[i] \in OpSet
  BY LenProperties, ElementOfSeq
<1>2. Pause \in OpSet /\ [op |-> next] \in OpSet
  BY DEF Pause, OpSet, Pauses
<1>3. \A i \in 1..(2 * n) : i % 2 = 1 => (i + 1) \div 2 \in 1..n
  BY <1>1
<1>4. f \in [1..(2 * n) -> OpSet]
  BY <1>1, <1>2, <1>3
<1>5. f \in Seq(OpSet) /\ g \in Seq(OpSet) /\ Len(g) = 1 /\ g[1] = [op |-> next]
  BY <1>1, <1>2, <1>4, FunctionIsSeq, SingletonSeq
<1>6. Len(f) = 2 * n
  BY <1>1, <1>4, <1>5, LenProperties
<1>7. \A i \in 1..(2 * n) : f[i] = IF i % 2 = 1 THEN ops[(i + 1) \div 2] ELSE Pause
  OBVIOUS
<1>8. Paced(ops, next) = f \o g
  BY DEF Paced
<1> HIDE DEF f, g
<1>9. /\ f \o g \in Seq(OpSet) /\ Len(f \o g) = 2 * n + 1
      /\ \A i \in 1..(2 * n + 1) : (f \o g)[i] = IF i <= 2 * n THEN f[i] ELSE g[i - 2 * n]
  <2>1. /\ f \o g \in Seq(OpSet) /\ Len(f \o g) = Len(f) + Len(g)
        /\ \A i \in 1..(Len(f) + Len(g)) : (f \o g)[i] = IF i <= Len(f) THEN f[i] ELSE g[i - Len(f)]
    BY <1>5, BothAre
  <2>2. Len(f) + Len(g) = 2 * n + 1
    BY <1>5, <1>6
  <2> QED
    BY <1>6, <2>1, <2>2
<1>10. 2 * n + 1 \in 1..(2 * n + 1) /\ ~(2 * n + 1 <= 2 * n) /\ 2 * n + 1 - 2 * n = 1
  BY <1>1
<1>11. (f \o g)[2 * n + 1] = [op |-> next]
  BY <1>5, <1>9, <1>10
<1>12. \A i \in 1..(2 * n) : i \in 1..(2 * n + 1) /\ i <= 2 * n
  BY <1>1
<1> QED
  BY <1>1, <1>7, <1>8, <1>9, <1>11, <1>12

(* The task after a step that puts ops in place of the head. *)
LEMMA TaskAfter ==
    ASSUME TasksOK, NEW t \in Tasks, task[t] # <<>>, NEW ops \in Seq(OpSet), Then(t, ops)
    PROVE  /\ task'[t] \in Seq(OpSet) /\ task' \in [Tasks -> Seq(OpSet)]
           /\ Len(ops) \in Nat /\ Len(task[t]) \in Nat \ {0} /\ DOMAIN ops = 1..Len(ops)
           /\ DOMAIN task[t] = 1..Len(task[t])
           /\ Len(task'[t]) = Len(ops) + Len(task[t]) - 1
           /\ DOMAIN task'[t] = 1..(Len(ops) + Len(task[t]) - 1)
           /\ \A i \in DOMAIN task'[t] :
                task'[t][i] = IF i <= Len(ops) THEN ops[i] ELSE task[t][i - Len(ops) + 1]
           /\ \A u \in Tasks : u # t => task'[u] = task[u]
<1> DEFINE tail == Tail(task[t])
           n == Len(task[t])
<1>1. task[t] \in Seq(OpSet) /\ task \in [Tasks -> Seq(OpSet)]
  BY DEF TasksOK
<1>2. n \in Nat \ {0} /\ DOMAIN task[t] = 1..n
  BY <1>1, LenProperties, EmptySeq
<1>3. tail \in Seq(OpSet) /\ Len(tail) = n - 1 /\ \A i \in 1..(n - 1) : tail[i] = task[t][i + 1]
  BY <1>1, <1>2, HeadTailProperties
<1>4. task' = [task EXCEPT ![t] = ops \o tail]
  BY DEF Then
<1> HIDE DEF tail, n
<1>5. task'[t] = ops \o tail /\ \A u \in Tasks : u # t => task'[u] = task[u]
  BY <1>1, <1>4
<1>6. /\ ops \o tail \in Seq(OpSet) /\ Len(ops) \in Nat /\ DOMAIN ops = 1..Len(ops)
      /\ Len(ops \o tail) = Len(ops) + (n - 1)
      /\ DOMAIN (ops \o tail) = 1..(Len(ops) + (n - 1))
      /\ \A i \in 1..(Len(ops) + (n - 1)) :
           (ops \o tail)[i] = IF i <= Len(ops) THEN ops[i] ELSE tail[i - Len(ops)]
  BY <1>3, BothAre
<1>7. Len(ops) + (n - 1) = Len(ops) + n - 1
  BY <1>2, <1>6
<1>8. ASSUME NEW i \in 1..(Len(ops) + n - 1), ~(i <= Len(ops))
      PROVE  tail[i - Len(ops)] = task[t][i - Len(ops) + 1]
  <2>1. i - Len(ops) \in 1..(n - 1)
    BY <1>2, <1>6, <1>8
  <2> QED
    BY <1>3, <2>1
<1>9. task' \in [Tasks -> Seq(OpSet)]
  BY <1>1, <1>4, <1>6
<1> QED
  BY <1>2, <1>5, <1>6, <1>7, <1>8, <1>9 DEF n
-----------------------------------------------------------------------------
(* The guard of an auto-post.                                              *)

Live(m, p)  == m \in autoposts \ old /\ content[m] = {p}
Known(m, p) == message[m] # None /\ p \in message[m].links
Releases(o, p) == o.op = "unguard" /\ o.pr = p
Fresh(t, m, p) ==
    /\ Len(task[t]) = 3 /\ Releases(task[t][2], p)
    /\ task[t][1].op = "ingest" /\ task[t][1].message = m

GuardInv ==
    \A t \in Tasks : \A i \in DOMAIN task[t] :
        /\ task[t][i].op = "history" => t = "startup"
        /\ task[t][i].op = "unguard" =>
             t \in Handlers /\ Len(task[t]) - i = 1 /\ task[t][i].pr \in autoposting
        /\ task[t][i].op = "post" =>
             i = 1 /\ Len(task[t]) = 3 /\ Releases(task[t][2], task[t][1].pr)
        /\ task[t][i].op = "author" => t \in Handlers /\ i = 1 /\ Len(task[t]) = 2

ApartInv ==
    \A t, u \in Tasks : \A i \in DOMAIN task[t], j \in DOMAIN task[u] :
        task[t][i].op = "unguard" /\ Releases(task[u][j], task[t][i].pr) => t = u

IngestInv ==
    \A t \in Tasks : \A i \in DOMAIN task[t] :
        task[t][i].op = "ingest" =>
            /\ task[t][i].message <= posted
            /\ task[t][i].message \in byBot =>
                 content[task[t][i].message] \in {task[t][i].links, None}

GatewayInv ==
    /\ \A m \in Messages : content[m] # None => m <= posted
    /\ \A i \in DOMAIN gateway :
        /\ gateway[i].message <= posted
        /\ gateway[i].kind = "post" => gateway[i].message \notin byBot
        /\ gateway[i].kind = "delete" => content[gateway[i].message] = None

KnownInv ==
    \A m \in Messages, p \in PRs : Live(m, p) => Known(m, p) \/ \E t \in Tasks : Fresh(t, m, p)
PostInv ==
    \A t \in Tasks : \A i \in DOMAIN task[t] :
        task[t][i].op = "post" /\ task[t][i].tracked = FALSE => \A m \in Messages : ~Live(m, task[t][i].pr)
OnceInv ==
    \A p \in PRs, m, n \in Messages : Live(m, p) /\ Live(n, p) => m = n
AutopostInv ==
    /\ GuardInv /\ ApartInv /\ IngestInv /\ GatewayInv
    /\ KnownInv /\ PostInv /\ OnceInv

(* Every operation a step leaves in its task is of Given(content'), stood  *)
(* there before, as far from the end of the task as now, or is one of what *)
(* GitHub's answer about the author makes of the question.                 *)
Stands(t, i) ==
    \E j \in DOMAIN task[t] :
        /\ j >= 2 /\ task'[t][i] = task[t][j]
        /\ Len(task'[t]) - i = Len(task[t]) - j
Takes(t, p, tracked) ==
    /\ Guards(t, p, tracked) /\ Len(task'[t]) = Len(task[t]) + 1
    /\ task'[t][1].op = "post" /\ task'[t][1].pr = p /\ task'[t][1].tracked = tracked
    /\ Releases(task'[t][2], p)
Anew(t, i) ==
    \/ Asked(t) /\ i = 1 /\ task'[t][1].op = "author" /\ Len(task'[t]) = Len(task[t])
    \/ i \in {1, 2} /\ \E p, tracked : Takes(t, p, tracked)
NewOps(t) == \A i \in DOMAIN task'[t] : task'[t][i] \in Given(content') \/ Stands(t, i) \/ Anew(t, i)

LEMMA ThenStands ==
    ASSUME TasksOK, NEW t \in Tasks, task[t] # <<>>, NEW ops \in Seq(OpSet), Then(t, ops)
    PROVE  /\ Len(ops) \in Nat /\ Len(task[t]) \in Nat /\ Len(task[t]) > 0
           /\ Len(task'[t]) = Len(ops) + Len(task[t]) - 1
           /\ DOMAIN task'[t] = 1..Len(task'[t])
           /\ \A i \in DOMAIN task'[t] : i <= Len(ops) => task'[t][i] = ops[i]
           /\ \A i \in DOMAIN task'[t] : ~(i <= Len(ops)) => Stands(t, i)
<1> DEFINE tail == Tail(task[t])
<1>0. /\ task[t] \in Seq(OpSet) /\ Len(task[t]) \in Nat /\ Len(task[t]) > 0 /\ DOMAIN task[t] = 1..Len(task[t])
      /\ tail \in Seq(OpSet) /\ Len(tail) = Len(task[t]) - 1
      /\ \A i \in 1..Len(tail) : tail[i] = task[t][i + 1]
  <2>1. task[t] \in Seq(OpSet)
    BY DEF TasksOK
  <2>2. Len(task[t]) \in Nat /\ DOMAIN task[t] = 1..Len(task[t])
    BY <2>1, LenProperties
  <2>3. Len(task[t]) > 0
    BY <2>1, <2>2, EmptySeq
  <2> QED
    BY <2>1, <2>2, <2>3, HeadTailProperties
<1>1. task'[t] = ops \o tail
  BY DEF Then, TasksOK
<1>2. Len(ops) \in Nat
  BY LenProperties
<1>3. /\ ops \o tail \in Seq(OpSet)
      /\ Len(ops \o tail) = Len(ops) + Len(tail)
      /\ \A i \in 1..(Len(ops) + Len(tail)) :
           (ops \o tail)[i] = IF i <= Len(ops) THEN ops[i] ELSE tail[i - Len(ops)]
  BY <1>0, <1>2, ConcatProperties
<1>4. DOMAIN (ops \o tail) = 1..(Len(ops) + Len(tail))
  BY <1>3, LenProperties
<1>5. ASSUME NEW i \in DOMAIN task'[t], ~(i <= Len(ops))
      PROVE  Stands(t, i)
  <2> DEFINE j == i - Len(ops) + 1
  <2>1. i \in 1..(Len(ops) + Len(tail)) /\ i > Len(ops)
    BY <1>0, <1>1, <1>2, <1>4, <1>5
  <2>2. j \in DOMAIN task[t] /\ j >= 2 /\ i - Len(ops) \in 1..Len(tail)
    BY <1>0, <1>2, <2>1
  <2>3. task'[t][i] = task[t][j]
    BY <1>0, <1>1, <1>2, <1>3, <2>1, <2>2
  <2>4. Len(task'[t]) - i = Len(task[t]) - j
    BY <1>0, <1>1, <1>2, <1>3, <2>1
  <2> QED
    BY <2>2, <2>3, <2>4 DEF Stands
<1>6. ASSUME NEW i \in DOMAIN task'[t], i <= Len(ops)
      PROVE  task'[t][i] = ops[i]
  <2>1. i \in 1..(Len(ops) + Len(tail))
    BY <1>0, <1>1, <1>2, <1>4
  <2> QED
    BY <1>1, <1>3, <1>6, <2>1
<1>7. Len(task'[t]) = Len(ops) + Len(task[t]) - 1
  BY <1>0, <1>1, <1>2, <1>3
<1>8. DOMAIN task'[t] = 1..Len(task'[t])
  BY <1>1, <1>3, <1>4
<1> QED
  BY <1>0, <1>2, <1>5, <1>6, <1>7, <1>8

LEMMA StepNewOps ==
    ASSUME TasksOK, NEW t \in Tasks, task[t] # <<>>, Turns(t)
    PROVE  NewOps(t)
<1>1. ASSUME NEW ops \in Seq(Given(content')), Then(t, ops)
      PROVE  NewOps(t)
  <2>1. ops \in Seq(OpSet) /\ \A i \in 1..Len(ops) : ops[i] \in Given(content')
    BY GivenOpSet, ElementOfSeq
  <2>2. /\ Len(ops) \in Nat /\ DOMAIN task'[t] = 1..Len(task'[t]) /\ Len(task'[t]) \in Int
        /\ \A i \in DOMAIN task'[t] : i <= Len(ops) => task'[t][i] = ops[i]
        /\ \A i \in DOMAIN task'[t] : ~(i <= Len(ops)) => Stands(t, i)
    BY <1>1, <2>1, ThenStands
  <2>3. \A i \in DOMAIN task'[t] : i <= Len(ops) => i \in 1..Len(ops)
    BY <2>2
  <2> QED
    BY <2>1, <2>2, <2>3 DEF NewOps
<1>2. ASSUME task' = [task EXCEPT ![t] = <<>>]
      PROVE  NewOps(t)
  <2>1. task'[t] = <<>>
    BY <1>2 DEF TasksOK
  <2>2. DOMAIN task'[t] = {}
    BY <2>1
  <2> QED
    BY <2>2 DEF NewOps
<1>3. ASSUME Hears(t) PROVE NewOps(t)
  <2>1. PICK o \in Fetches : o.op = "author" /\ Then(t, <<o>>)
    BY <1>3 DEF Hears
  <2>2. PICK ops : ops = <<o>>
    OBVIOUS
  <2>3. o \in OpSet
    BY DEF OpSet
  <2>4. ops \in Seq(OpSet) /\ Len(ops) = 1 /\ ops[1] = o /\ Then(t, ops)
    BY <2>1, <2>2, <2>3, SingletonSeq
  <2>5. /\ Len(task[t]) \in Nat /\ Len(task[t]) > 0
        /\ Len(task'[t]) = Len(ops) + Len(task[t]) - 1
        /\ DOMAIN task'[t] = 1..Len(task'[t])
        /\ \A i \in DOMAIN task'[t] : i <= Len(ops) => task'[t][i] = ops[i]
        /\ \A i \in DOMAIN task'[t] : ~(i <= Len(ops)) => Stands(t, i)
    BY <2>4, ThenStands
  <2>6. Len(task'[t]) = Len(task[t]) /\ 1 \in DOMAIN task'[t]
    BY <2>4, <2>5
  <2>7. task'[t][1] = o
    BY <2>4, <2>5, <2>6
  <2>8. \A i \in DOMAIN task'[t] : i # 1 => Stands(t, i)
    BY <2>4, <2>5, <2>6
  <2>9. Anew(t, 1)
    BY <1>3, <2>1, <2>6, <2>7 DEF Anew, Hears
  <2> QED
    BY <2>8, <2>9 DEF NewOps
<1>4. ASSUME NEW p, NEW tracked, Guards(t, p, tracked) PROVE NewOps(t)
  <2>1. PICK ops : ops = Posts(p, tracked)
    OBVIOUS
  <2>2. /\ ops \in Seq(OpSet) /\ Len(ops) = 2 /\ Then(t, ops)
        /\ ops[1].op = "post" /\ ops[1].pr = p /\ ops[1].tracked = tracked /\ Releases(ops[2], p)
    BY <1>4, <2>1, PostsTyped DEF Guards, Releases
  <2>3. /\ Len(task[t]) \in Nat /\ Len(task[t]) > 0
        /\ Len(task'[t]) = Len(ops) + Len(task[t]) - 1
        /\ DOMAIN task'[t] = 1..Len(task'[t])
        /\ \A i \in DOMAIN task'[t] : i <= Len(ops) => task'[t][i] = ops[i]
        /\ \A i \in DOMAIN task'[t] : ~(i <= Len(ops)) => Stands(t, i)
    BY <2>2, ThenStands
  <2>4. Len(task'[t]) = Len(task[t]) + 1 /\ 1 \in DOMAIN task'[t] /\ 2 \in DOMAIN task'[t]
    BY <2>2, <2>3
  <2>5. task'[t][1] = ops[1] /\ task'[t][2] = ops[2]
    BY <2>2, <2>3, <2>4
  <2>6. \A i \in DOMAIN task'[t] : i \notin {1, 2} => Stands(t, i)
    BY <2>2, <2>3, <2>4
  <2>7. Takes(t, p, tracked)
    BY <1>4, <2>2, <2>4, <2>5 DEF Takes
  <2>8. Anew(t, 1) /\ Anew(t, 2)
    BY <2>7 DEF Anew
  <2> QED
    BY <2>6, <2>8 DEF NewOps
<1> QED
  BY <1>1, <1>2, <1>3, <1>4 DEF Turns

(* What the head of a task lets its step be.                               *)
LEMMA StepByHead ==
    ASSUME NEW t, Step(t)
    PROVE  /\ Op(t).op = "ingest" => IngestMessage(t)
           /\ Op(t).op = "unguard" => Unguard(t)
           /\ Op(t).op = "post" => Autopost(t) \/ AutopostUnanswered(t) \/ DiscordFails(t)
<1>1. Op(t).op \in {"ingest", "unguard", "post"} =>
        ~\E lost \in Lost(Op(t).op) : Answer(t, lost)
  BY DEF Answer, GitHubOps
<1>2. LookUpState(t) \/ FetchAndStore(t) \/ ReadRows(t) \/ FetchMessage(t) \/ UpdateDone(t) \/ DmUser(t)
      \/ Sleep(t) \/ ReadThreads(t) \/ NotifyMessages(t) \/ RecheckThreads(t) \/ RecheckChecks(t)
      \/ StoreLabels(t) \/ RereadMessage(t) \/ ScanHistory(t) \/ ListActivePRs(t) \/ PollPR(t)
      \/ SweepMessages(t) \/ StartupComplete(t) \/ FetchAuthor(t) => Op(t).op \notin {"ingest", "unguard", "post"}
  BY DEF LookUpState, FetchAndStore, ReadRows, FetchMessage, UpdateDone, DmUser, Sleep, ReadThreads,
     NotifyMessages, RecheckThreads, RecheckChecks, StoreLabels, RereadMessage, ScanHistory, ListActivePRs,
     PollPR, SweepMessages, StartupComplete, FetchAuthor, Answered, At
<1>3. (\E emoji \in Emoji, fails \in BOOLEAN : React(t, emoji, fails)) => Op(t).op = "react"
  BY DEF React, At
<1>4. /\ IngestMessage(t) => Op(t).op = "ingest"
      /\ Unguard(t) => Op(t).op = "unguard"
      /\ Autopost(t) \/ AutopostUnanswered(t) => Op(t).op = "post"
      /\ DiscordFails(t) => Op(t).op \notin {"ingest", "unguard"}
  BY DEF IngestMessage, Unguard, Autopost, AutopostUnanswered, AutopostLands, DiscordFails, At
<1> QED
  BY <1>1, <1>2, <1>3, <1>4 DEF Step

LEMMA GivenFields ==
    ASSUME NEW c, NEW o \in Given(c)
    PROVE  /\ o \in OpSet /\ o.op \notin {"author", "post", "unguard", "history"}
           /\ o.op = "ingest" => o.message \in Messages /\ o.links \in SUBSET PRs /\ c[o.message] = o.links
<1>1. o.op = "ingest" => o \in Ingestions
  BY OpFields DEF Given
<1> QED
  BY <1>1 DEF Given, Ingestions

LEMMA TaskFields ==
    ASSUME TasksOK, NEW t \in Tasks
    PROVE  /\ Len(task[t]) \in Nat /\ DOMAIN task[t] = 1..Len(task[t])
           /\ \A i \in DOMAIN task[t] :
                /\ task[t][i] \in OpSet
                /\ task[t][i].op \in {"post", "unguard"} => task[t][i].pr \in PRs
                /\ task[t][i].op = "post" => task[t][i].tracked \in BOOLEAN
                /\ task[t][i].op = "ingest" =>
                     task[t][i].message \in Messages /\ task[t][i].links \in SUBSET PRs
           /\ task[t] # <<>> => Op(t) = task[t][1] /\ 1 \in DOMAIN task[t]
<1>1. task[t] \in Seq(OpSet)
  BY DEF TasksOK
<1>2. Len(task[t]) \in Nat /\ DOMAIN task[t] = 1..Len(task[t])
  BY <1>1, LenProperties
<1>3. \A i \in DOMAIN task[t] : task[t][i] \in OpSet
  BY <1>1, <1>2, ElementOfSeq
<1>4. ASSUME NEW o \in OpSet
      PROVE  /\ o.op \in {"post", "unguard"} => o.pr \in PRs
             /\ o.op = "post" => o.tracked \in BOOLEAN
             /\ o.op = "ingest" => o.message \in Messages /\ o.links \in SUBSET PRs
  <2>1. /\ o.op = "unguard" => o \in PrOps
        /\ o.op = "post" => o \in PostOps
        /\ o.op = "ingest" => o \in Ingestions
    BY OpFields
  <2> QED
    BY <2>1 DEF PrOps, PostOps, Ingestions
<1>5. task[t] # <<>> => Op(t) = task[t][1] /\ 1 \in DOMAIN task[t]
  BY <1>1, <1>2, EmptySeq DEF Op
<1> QED
  BY <1>2, <1>3, <1>4, <1>5

LEMMA StepGuards ==
    ASSUME TasksOK, TasksOK', GuardInv, ApartInv, NEW t \in Tasks, task[t] # <<>>,
           Step(t), StepFrame(t), NewOps(t), \A u \in Tasks : u # t => task'[u] = task[u]
    PROVE  GuardInv' /\ ApartInv'
<1> DEFINE Was(u, i) == \E j \in DOMAIN task[u] :
                           /\ task'[u][i] = task[u][j]
                           /\ Len(task'[u]) - i = Len(task[u]) - j
                           /\ IF u = t THEN j >= 2 ELSE j = i
<1>0. Asked(t) => t \in Handlers /\ Len(task[t]) = 2
  BY TaskFields DEF Asked, GuardInv
<1>1. ASSUME NEW u \in Tasks, NEW i \in DOMAIN task'[u],
             task'[u][i].op \in {"history", "unguard", "post", "author"}
      PROVE  Was(u, i) \/ (u = t /\ Anew(t, i))
  <2>1. CASE u = t
    BY <1>1, <2>1, GivenFields DEF NewOps, Stands
  <2>2. CASE u # t
    BY <1>1, <2>2
  <2> QED
    BY <2>1, <2>2
<1>5. ASSUME NEW i, Anew(t, i)
      PROVE  \/ task'[t][i].op = "author" /\ i = 1 /\ Len(task'[t]) = 2 /\ t \in Handlers
             \/ \E p, tracked :
                  /\ Takes(t, p, tracked) /\ Len(task'[t]) = 3 /\ t \in Handlers
                  /\ \/ i = 1 /\ task'[t][i].op = "post"
                     \/ i = 2 /\ Releases(task'[t][i], p)
  <2>1. CASE Asked(t) /\ i = 1 /\ task'[t][1].op = "author" /\ Len(task'[t]) = Len(task[t])
    BY <1>0, <2>1
  <2>2. ASSUME NEW p, NEW tracked, Takes(t, p, tracked), i \in {1, 2}
        PROVE  /\ Len(task'[t]) = 3 /\ t \in Handlers
               /\ \/ i = 1 /\ task'[t][i].op = "post"
                  \/ i = 2 /\ Releases(task'[t][i], p)
    <3>1. Asked(t) /\ Len(task'[t]) = Len(task[t]) + 1
      BY <2>2 DEF Takes, Guards
    <3>4. t \in Handlers /\ Len(task[t]) = 2
      BY <1>0, <3>1, Zenon
    <3>5. PICK n : n = Len(task[t])
      OBVIOUS
    <3>2. Len(task'[t]) = 3 /\ t \in Handlers
      <4>1. n = 2 /\ Len(task'[t]) = n + 1
        BY <3>1, <3>4, <3>5, Zenon
      <4> QED
        BY <3>4, <4>1
    <3>3. task'[t][1].op = "post" /\ Releases(task'[t][2], p)
      BY <2>2, Zenon DEF Takes
    <3> QED
      BY <2>2, <3>2, <3>3, Zenon
  <2> QED
    BY <1>5, <2>1, <2>2 DEF Anew
<1>6. ASSUME NEW p, NEW tracked, Takes(t, p, tracked)
      PROVE  p \in autoposting' /\ \A u \in Tasks : \A j \in DOMAIN task[u] : ~Releases(task[u][j], p)
  BY <1>6 DEF Takes, Guards, GuardInv, Releases
<1>2. ASSUME NEW u \in Tasks, NEW j \in DOMAIN task[u], task[u][j].op = "unguard",
             u = t => j >= 2
      PROVE  task[u][j].pr \in autoposting'
  <2>1. task[u][j].pr \in autoposting /\ Len(task[u]) - j = 1
    BY <1>2 DEF GuardInv
  <2>2. ASSUME Unguard(t), Op(t).pr = task[u][j].pr PROVE FALSE
    <3>1. Op(t) = task[t][1] /\ 1 \in DOMAIN task[t] /\ task[t][1].op = "unguard"
      BY <2>2, TaskFields DEF Unguard, At
    <3>2. u = t
      BY <1>2, <2>2, <3>1 DEF ApartInv, Releases
    <3>3. Len(task[t]) - 1 = 1
      BY <3>1 DEF GuardInv
    <3>4. Len(task[t]) \in Nat /\ j \in 1..Len(task[t])
      BY <3>2, TaskFields
    <3>5. Len(task[t]) - j = 1 /\ j >= 2
      BY <1>2, <2>1, <3>2
    <3> DEFINE n == Len(task[t])
    <3>6. n \in Nat /\ n - 1 = 1 /\ n - j = 1 /\ j \in 1..n
      BY <3>3, <3>4, <3>5
    <3> HIDE DEF n
    <3> QED
      BY <3>5, <3>6
  <2> QED
    BY <2>1, <2>2 DEF StepFrame, Unguard, FetchAuthor
<1>3. GuardInv'
  <2> SUFFICES ASSUME NEW u \in Tasks, NEW i \in DOMAIN task'[u]
               PROVE  /\ task'[u][i].op = "history" => u = "startup"
                      /\ task'[u][i].op = "unguard" =>
                           u \in Handlers /\ Len(task'[u]) - i = 1 /\ task'[u][i].pr \in autoposting'
                      /\ task'[u][i].op = "post" =>
                           i = 1 /\ Len(task'[u]) = 3 /\ Releases(task'[u][2], task'[u][1].pr)
                      /\ task'[u][i].op = "author" => u \in Handlers /\ i = 1 /\ Len(task'[u]) = 2
    BY DEF GuardInv
  <2>1. CASE u = t /\ Anew(t, i)
    <3>1. CASE task'[t][i].op = "author" /\ i = 1 /\ Len(task'[t]) = 2 /\ t \in Handlers
      BY <2>1, <3>1
    <3>2. ASSUME NEW p, NEW tracked, Takes(t, p, tracked), Len(task'[t]) = 3, t \in Handlers,
                 i = 1, task'[t][i].op = "post"
          PROVE  Releases(task'[u][2], task'[u][1].pr)
      BY <2>1, <3>2 DEF Takes
    <3>3. ASSUME NEW p, NEW tracked, Takes(t, p, tracked), Len(task'[t]) = 3, t \in Handlers,
                 i = 2, Releases(task'[t][i], p)
          PROVE  task'[u][i].op = "unguard" /\ task'[u][i].pr \in autoposting' /\ Len(task'[u]) - i = 1
      BY <1>6, <2>1, <3>3 DEF Releases
    <3>4. CASE task'[t][i].op = "post"
      BY <1>5, <2>1, <3>2, <3>4 DEF Releases
    <3>5. CASE task'[t][i].op = "unguard"
      BY <1>5, <2>1, <3>3, <3>5
    <3> QED
      BY <1>5, <2>1, <3>1, <3>4, <3>5 DEF Releases
  <2>2. CASE Was(u, i)
    <3>1. task'[u][i].op = "history" => u = "startup"
      BY <2>2 DEF GuardInv
    <3>2. task'[u][i].op = "unguard" =>
            u \in Handlers /\ Len(task'[u]) - i = 1 /\ task'[u][i].pr \in autoposting'
      BY <1>2, <2>2 DEF GuardInv
    <3>3. ASSUME task'[u][i].op \in {"post", "author"}
          PROVE  u # t /\ i \in DOMAIN task[u] /\ task'[u][i] = task[u][i]
      <4>1. PICK j \in DOMAIN task[u] : /\ task'[u][i] = task[u][j]
                                        /\ IF u = t THEN j >= 2 ELSE j = i
        BY <2>2
      <4>2. j = 1
        BY <3>3, <4>1 DEF GuardInv
      <4> QED
        BY <4>1, <4>2
    <3>4. ASSUME task'[u][i].op = "post"
          PROVE  i = 1 /\ Len(task'[u]) = 3 /\ Releases(task'[u][2], task'[u][1].pr)
      BY <3>3, <3>4 DEF GuardInv
    <3>5. ASSUME task'[u][i].op = "author" PROVE u \in Handlers /\ i = 1 /\ Len(task'[u]) = 2
      BY <3>3, <3>5 DEF GuardInv
    <3> QED
      BY <3>1, <3>2, <3>4, <3>5
  <2> QED
    BY <1>1, <2>1, <2>2
<1>4. ApartInv'
  <2> SUFFICES ASSUME NEW u \in Tasks, NEW v \in Tasks, NEW i \in DOMAIN task'[u], NEW j \in DOMAIN task'[v],
                      task'[u][i].op = "unguard", Releases(task'[v][j], task'[u][i].pr)
               PROVE  u = v
    BY DEF ApartInv
  <2>1. task'[v][j].op = "unguard" /\ task'[v][j].pr = task'[u][i].pr
    BY DEF Releases
  <2>2. ASSUME NEW w \in Tasks, NEW k \in DOMAIN task'[w], task'[w][k].op = "unguard"
        PROVE  \/ \E l \in DOMAIN task[w] : task'[w][k] = task[w][l]
               \/ w = t /\ \E tracked : Takes(t, task'[w][k].pr, tracked)
    BY <1>1, <1>5, <2>2 DEF Releases
  <2>3. ASSUME NEW w \in Tasks, NEW k \in DOMAIN task'[w], task'[w][k].op = "unguard",
               NEW tracked, Takes(t, task'[w][k].pr, tracked)
        PROVE  w = t
    BY <1>6, <2>2, <2>3 DEF Releases
  <2>4. CASE (\E l \in DOMAIN task[u] : task'[u][i] = task[u][l]) /\ \E l \in DOMAIN task[v] : task'[v][j] = task[v][l]
    BY <2>1, <2>4 DEF ApartInv, Releases
  <2>5. ASSUME NEW tracked, Takes(t, task'[u][i].pr, tracked) PROVE u = v
    BY <2>1, <2>3, <2>5
  <2>6. ASSUME NEW tracked, Takes(t, task'[v][j].pr, tracked) PROVE u = v
    BY <2>1, <2>3, <2>6
  <2> QED
    BY <2>1, <2>2, <2>4, <2>5, <2>6
<1> QED
  BY <1>3, <1>4

(* Only an auto-post brings a message of an auto-post into the channel.    *)
LEMMA StepLive ==
    ASSUME ChannelOK, TasksOK, NEW t \in Tasks, task[t] # <<>>, StepFrame(t),
           NEW m \in Messages, NEW p \in PRs, Live(m, p)'
    PROVE  Live(m, p) \/ (Autopost(t) /\ Op(t).tracked = FALSE /\ m = posted + 1 /\ p = Op(t).pr)
<1>1. CASE UNCHANGED <<content, posted, byBot, autoposts>>
  BY <1>1 DEF StepFrame, Live
<1>2. CASE AutopostLands(t) /\ Keeps(t)
  <2>1. m = posted + 1 => content'[m] = {Op(t).pr}
    BY <1>2 DEF AutopostLands, ChannelOK
  <2>2. m # posted + 1 => content'[m] = content[m]
    BY <1>2 DEF AutopostLands, ChannelOK
  <2>3. posted \in Nat /\ \A n \in autoposts : n <= posted
    BY DEF ChannelOK
  <2>4. posted + 1 \notin autoposts
    BY <2>3
  <2>5. Op(t) \in PostOps
    BY <1>2, OpTyped, OpFields DEF AutopostLands, At
  <2>6. Op(t).tracked \in BOOLEAN
    BY <2>5 DEF PostOps
  <2>7. ~Op(t).tracked => Op(t).tracked = FALSE
    BY <2>6, Zenon
  <2>8. autoposts' = autoposts \/ (Autopost(t) /\ Op(t).tracked = FALSE /\ autoposts' = autoposts \cup {posted + 1})
    BY <1>2, <2>7 DEF Keeps
  <2> QED
    BY <1>2, <2>1, <2>2, <2>4, <2>8 DEF StepFrame, Live
<1> QED
  BY <1>1, <1>2 DEF StepFrame

LEMMA GatewayFields ==
    ASSUME QueuesOK, NEW i \in DOMAIN gateway
    PROVE  gateway[i] \in GatewayEvents /\ gateway[i].message \in Messages
<1>1. gateway \in Seq(GatewayEvents) /\ i \in 1..Len(gateway)
  BY LenProperties DEF QueuesOK
<1>2. gateway[i] \in GatewayEvents
  BY <1>1, ElementOfSeq
<1> QED
  BY <1>2 DEF GatewayEvents, PostEvents

LEMMA StepIngests ==
    ASSUME QueuesOK, ChannelOK, TasksOK, TasksOK', IngestInv, GatewayInv, NEW t \in Tasks, task[t] # <<>>,
           StepFrame(t), NewOps(t), \A u \in Tasks : u # t => task'[u] = task[u]
    PROVE  IngestInv' /\ GatewayInv'
<1>0. posted \in Nat /\ ~(posted + 1 \in byBot) /\ \A k \in byBot : k <= posted
  BY DEF ChannelOK
<1>1. posted <= posted' /\ \A m \in Messages : m <= posted => content'[m] = content[m] /\ (m \in byBot' => m \in byBot)
  <2>1. CASE UNCHANGED <<content, posted, byBot, autoposts>>
    BY <1>0, <2>1
  <2>2. CASE AutopostLands(t)
    BY <1>0, <2>2 DEF AutopostLands, ChannelOK, Messages
  <2> QED
    BY <2>1, <2>2 DEF StepFrame
<1>2. \A m \in Messages : content'[m] # None => m <= posted'
  <2>1. CASE UNCHANGED <<content, posted, byBot, autoposts>>
    BY <2>1 DEF GatewayInv
  <2>2. CASE AutopostLands(t)
    <3>1. \A m \in Messages : m # posted + 1 => content'[m] = content[m]
      BY <2>2 DEF AutopostLands, ChannelOK
    <3>2. \A m \in Messages : content[m] # None => m <= posted
      BY DEF GatewayInv
    <3>3. posted' = posted + 1 /\ \A m \in Messages : m \in Int
      BY <2>2 DEF AutopostLands, Messages
    <3> QED
      BY <1>0, <3>1, <3>2, <3>3
  <2> QED
    BY <2>1, <2>2 DEF StepFrame
<1>3. IngestInv'
  <2> SUFFICES ASSUME NEW u \in Tasks, NEW i \in DOMAIN task'[u], task'[u][i].op = "ingest"
               PROVE  /\ task'[u][i].message <= posted'
                      /\ task'[u][i].message \in byBot' =>
                           content'[task'[u][i].message] \in {task'[u][i].links, None}
    BY DEF IngestInv
  <2>1. CASE task'[u][i] \in Given(content')
    <3>1. task'[u][i].message \in Messages /\ task'[u][i].links \in SUBSET PRs
          /\ content'[task'[u][i].message] = task'[u][i].links
      BY <2>1, GivenFields
    <3>2. content'[task'[u][i].message] # None
      BY <3>1, PrBotAssumption
    <3> QED
      BY <1>2, <3>1, <3>2
  <2>2. CASE \E j \in DOMAIN task[u] : task'[u][i] = task[u][j]
    <3>1. PICK j \in DOMAIN task[u] : task'[u][i] = task[u][j]
      BY <2>2
    <3>2. task[u][j].message \in Messages /\ task[u][j].message <= posted
      BY <3>1, TaskFields DEF IngestInv
    <3>3. task[u][j].message <= posted'
      <4> DEFINE k == task[u][j].message
      <4>1. k \in Int /\ posted' \in Int
        BY <1>0, <3>2 DEF Messages, StepFrame, AutopostLands
      <4> HIDE DEF k
      <4>2. k <= posted
        BY <3>2 DEF k
      <4>3. k <= posted'
        BY <1>0, <1>1, <4>1, <4>2
      <4> QED
        BY <4>3 DEF k
    <3> QED
      BY <1>1, <3>1, <3>2, <3>3 DEF IngestInv
  <2>3. u = t => task'[u][i] \in Given(content') \/ \E j \in DOMAIN task[u] : task'[u][i] = task[u][j]
    <3>1. ~Anew(t, i) \/ u # t
      BY DEF Anew, Takes, Releases
    <3> QED
      BY <3>1 DEF NewOps, Stands
  <2> QED
    BY <2>1, <2>2, <2>3
<1>4. GatewayInv'
  <2>1. gateway' = gateway
    BY DEF StepFrame
  <2>2. ASSUME NEW i \in DOMAIN gateway
        PROVE  /\ gateway[i].message <= posted'
               /\ gateway[i].kind = "post" => gateway[i].message \notin byBot'
               /\ gateway[i].kind = "delete" => content'[gateway[i].message] = None
    <3> DEFINE k == gateway[i].message
    <3>1. k \in Messages /\ k <= posted
      BY GatewayFields DEF GatewayInv
    <3>2. k \in Int /\ posted' \in Int
      BY <1>0, <3>1 DEF Messages, StepFrame, AutopostLands
    <3>3. /\ gateway[i].kind = "post" => k \notin byBot
          /\ gateway[i].kind = "delete" => content[k] = None
      BY DEF GatewayInv
    <3>4. content'[k] = content[k] /\ (k \in byBot' => k \in byBot)
      BY <1>1, <3>1
    <3> HIDE DEF k
    <3>5. k <= posted'
      BY <1>0, <1>1, <3>1, <3>2
    <3> QED
      BY <3>3, <3>4, <3>5 DEF k
  <2> QED
    BY <1>2, <2>1, <2>2 DEF GatewayInv
<1> QED
  BY <1>3, <1>4

LEMMA StepKnown ==
    ASSUME ChannelOK, TablesOK, TasksOK, TasksOK', GuardInv, IngestInv, KnownInv, NEW t \in Tasks, task[t] # <<>>,
           Step(t), StepFrame(t), \A u \in Tasks : u # t => task'[u] = task[u]
    PROVE  KnownInv'
<1> SUFFICES ASSUME NEW m \in Messages, NEW p \in PRs, Live(m, p)'
             PROVE  Known(m, p)' \/ \E u \in Tasks : Fresh(u, m, p)'
  BY DEF KnownInv
<1>1. ASSUME Autopost(t), m = posted + 1, p = Op(t).pr
      PROVE  Fresh(t, m, p)'
  <2>1. Op(t) = task[t][1] /\ 1 \in DOMAIN task[t] /\ task[t][1].op = "post"
    BY <1>1, TaskFields DEF Autopost, AutopostLands, At
  <2>2. Len(task[t]) = 3 /\ Releases(task[t][2], p)
    BY <1>1, <2>1 DEF GuardInv
  <2>3. task'[t] = <<Ingest(m, {p})>> \o Tail(task[t])
    BY <1>1 DEF Autopost, AutopostLands, Then, TasksOK
  <2>4. Tail(task[t]) \in Seq(OpSet) /\ Len(Tail(task[t])) = 2 /\ Tail(task[t])[1] = task[t][2]
    <3>1. task[t] \in Seq(OpSet)
      BY DEF TasksOK
    <3>2. Len(Tail(task[t])) = Len(task[t]) - 1 /\ Tail(task[t]) \in Seq(OpSet)
          /\ \A i \in 1..Len(Tail(task[t])) : Tail(task[t])[i] = task[t][i + 1]
      BY <3>1, HeadTailProperties
    <3> QED
      BY <2>2, <3>2
  <2>5. Ingest(m, {p}) \in OpSet
    BY DEF Ingest, Ingestions, OpSet
  <2>6. <<Ingest(m, {p})>> \in Seq(OpSet) /\ Len(<<Ingest(m, {p})>>) = 1
        /\ <<Ingest(m, {p})>>[1] = Ingest(m, {p})
    BY <2>5, SingletonSeq
  <2>7. Len(task'[t]) = 3 /\ task'[t][1] = Ingest(m, {p}) /\ task'[t][2] = task[t][2]
    BY <2>3, <2>4, <2>6, ConcatProperties
  <2> QED
    BY <2>2, <2>7 DEF Fresh, Ingest
<1>2. ASSUME IngestMessage(t), Live(m, p), Op(t).message = m
      PROVE  Known(m, p)'
  <2>1. Op(t) = task[t][1] /\ 1 \in DOMAIN task[t] /\ task[t][1].op = "ingest"
    BY <1>2, TaskFields DEF IngestMessage, At
  <2>2. m \in byBot /\ content[m] = {p} /\ content[m] # None
    BY <1>2, PrBotAssumption DEF Live, ChannelOK
  <2>3. Op(t).links = {p}
    BY <1>2, <2>1, <2>2 DEF IngestInv
  <2>4. message'[m] = [links |-> {p}, done |-> message[m] # None /\ message[m].done]
    BY <1>2, <2>3 DEF IngestMessage, Stored, TablesOK
  <2>5. message[m] # None => message[m].done \in BOOLEAN
    BY DEF TablesOK, Entries
  <2>6. (message[m] # None /\ message[m].done) \in BOOLEAN
    BY <2>5
  <2> DEFINE d == message[m] # None /\ message[m].done
  <2>7. d \in BOOLEAN /\ message'[m] = [links |-> {p}, done |-> d]
    BY <2>4, <2>6
  <2> HIDE DEF d
  <2>8. [links |-> {p}, done |-> d] \in Entries /\ None \notin Entries
    BY <2>7, PrBotAssumption DEF Entries
  <2>9. message'[m] # None
    BY <2>7, <2>8, Zenon
  <2>10. message'[m].links = {p}
    BY <2>7
  <2> QED
    BY <2>9, <2>10 DEF Known
<1>3. ASSUME Live(m, p), Known(m, p)
      PROVE  Known(m, p)'
  <2>1. CASE UNCHANGED message
    BY <1>3, <2>1 DEF Known
  <2>2. CASE UpdateDone(t)
    <3>1. \/ message' = message
          \/ /\ Op(t).message \in Messages
             /\ message' = [message EXCEPT ![Op(t).message] = [links |-> message[Op(t).message].links,
                                                               done |-> Op(t).mark = "done"]]
      BY <2>2 DEF UpdateDone, Tracked
    <3>2. message[m] \in Entries
      BY <1>3 DEF Known, TablesOK
    <3>3. [links |-> message[m].links, done |-> Op(t).mark = "done"] \in Entries
      BY <3>2 DEF Entries
    <3>4. None \notin Entries
      BY PrBotAssumption DEF Entries
    <3> QED
      BY <1>3, <3>1, <3>3, <3>4 DEF Known, TablesOK
  <2>3. CASE IngestMessage(t)
    <3>1. Op(t).message # m => message'[m] = message[m]
      BY <2>3 DEF IngestMessage, Stored, TablesOK
    <3> QED
      BY <1>2, <1>3, <2>3, <3>1 DEF Known
  <2> QED
    BY <2>1, <2>2, <2>3 DEF StepFrame
<1>4. ASSUME Live(m, p), NEW u \in Tasks, Fresh(u, m, p)
      PROVE  Known(m, p)' \/ Fresh(u, m, p)'
  <2>1. CASE u = t
    <3>1. Op(t).op = "ingest" /\ Op(t).message = m
      BY <1>4, <2>1, TaskFields DEF Fresh
    <3> QED
      BY <1>2, <1>4, <3>1, StepByHead
  <2>2. CASE u # t
    BY <1>4, <2>2 DEF Fresh
  <2> QED
    BY <2>1, <2>2
<1> QED
  BY <1>1, <1>3, <1>4, StepLive DEF KnownInv

(* Who holds an auto-post of a PR in the channel, or is about to.          *)
LEMMA LiveIsGuarded ==
    ASSUME TasksOK, GuardInv, KnownInv, NEW p \in PRs, MayAutopost(p), NEW m \in Messages
    PROVE  ~Live(m, p)
<1> SUFFICES ASSUME Live(m, p) PROVE FALSE
  OBVIOUS
<1>1. ~Known(m, p)
  BY DEF MayAutopost, MessagesFor, Tracked, Known
<1>2. PICK u \in Tasks : Fresh(u, m, p)
  BY <1>1 DEF KnownInv
<1>3. 2 \in DOMAIN task[u] /\ Releases(task[u][2], p)
  BY <1>2, TaskFields DEF Fresh
<1>4. p \in autoposting
  BY <1>3 DEF GuardInv, Releases
<1> QED
  BY <1>4 DEF MayAutopost

LEMMA StepPosts ==
    ASSUME ChannelOK, TasksOK, TasksOK', GuardInv, ApartInv, KnownInv, PostInv, OnceInv,
           NEW t \in Tasks, task[t] # <<>>,
           StepFrame(t), NewOps(t), \A u \in Tasks : u # t => task'[u] = task[u]
    PROVE  PostInv' /\ OnceInv'
<1>1. ASSUME Autopost(t) PROVE /\ 1 \in DOMAIN task[t] /\ Op(t) = task[t][1] /\ task[t][1].op = "post"
                               /\ Op(t).pr \in PRs /\ Len(task[t]) = 3 /\ 2 \in DOMAIN task[t]
                               /\ Releases(task[t][2], Op(t).pr)
                               /\ Op(t).tracked = FALSE => \A m \in Messages : ~Live(m, Op(t).pr)
  <2>1. 1 \in DOMAIN task[t] /\ Op(t) = task[t][1] /\ task[t][1].op = "post"
    BY <1>1, TaskFields DEF Autopost, AutopostLands, At
  <2>2. Len(task[t]) = 3 /\ DOMAIN task[t] = 1..Len(task[t])
    BY <2>1, TaskFields DEF GuardInv
  <2> QED
    BY <2>1, <2>2, TaskFields DEF GuardInv, PostInv
<1>2. PostInv'
  <2> SUFFICES ASSUME NEW u \in Tasks, NEW i \in DOMAIN task'[u], task'[u][i].op = "post",
                      task'[u][i].tracked = FALSE,
                      NEW m \in Messages, NEW p, p = task'[u][i].pr, Live(m, p)'
               PROVE  FALSE
    BY DEF PostInv, Live
  <2>1. ASSUME u = t PROVE FALSE
    <3>1. Stands(t, i) \/ Anew(t, i)
      BY <2>1, GivenFields DEF NewOps
    <3>2. ~Stands(t, i)
      BY <2>1 DEF Stands, GuardInv
    <3>3. \E tracked : Takes(t, p, tracked)
      BY <2>1, <3>1, <3>2 DEF Anew, Takes, Releases
    <3>4. PICK tracked : Takes(t, p, tracked)
      BY <3>3
    <3>5. i = 1 /\ tracked = FALSE /\ Asked(t) /\ p \in PRs /\ p \notin autoposting /\ MessagesFor(p) = {}
      BY <2>1, <3>1, <3>2, <3>4 DEF Anew, Takes, Guards, Releases, Asked
    <3>6. ~Live(m, p)
      BY <3>5, LiveIsGuarded DEF MayAutopost
    <3>7. ~Autopost(t)
      BY <3>5 DEF Asked, Autopost, AutopostLands, At
    <3> QED
      BY <3>5, <3>6, <3>7, StepLive
  <2>2. u # t /\ i \in DOMAIN task[u] /\ task[u][i].op = "post" /\ task'[u][i] = task[u][i]
    BY <2>1
  <2>3. p \in PRs /\ p = task[u][i].pr
    BY <2>2, TaskFields
  <2>5. ~Live(m, p)
    BY <2>2, <2>3 DEF PostInv
  <2>6. Autopost(t) /\ p = Op(t).pr
    BY <2>3, <2>5, StepLive
  <2>7. i = 1 /\ Len(task[u]) = 3 /\ Releases(task[u][2], p)
    BY <2>2, <2>3 DEF GuardInv
  <2>8. 2 \in DOMAIN task[u]
    BY <2>7, TaskFields
  <2>9. t = u
    BY <1>1, <2>6, <2>7, <2>8 DEF ApartInv, Releases
  <2> QED
    BY <2>2, <2>9
<1>3. OnceInv'
  <2> SUFFICES ASSUME NEW p \in PRs, NEW m \in Messages, NEW n \in Messages, Live(m, p)', Live(n, p)'
               PROVE  m = n
    BY DEF OnceInv
  <2>1. Live(m, p) \/ (Autopost(t) /\ Op(t).tracked = FALSE /\ m = posted + 1 /\ p = Op(t).pr)
    BY StepLive
  <2>2. Live(n, p) \/ (Autopost(t) /\ Op(t).tracked = FALSE /\ n = posted + 1 /\ p = Op(t).pr)
    BY StepLive
  <2> QED
    BY <1>1, <2>1, <2>2 DEF OnceInv
<1> QED
  BY <1>2, <1>3

LEMMA StepAutopost ==
    ASSUME Typed, AutopostInv, NEW t \in Tasks, task[t] # <<>>, Step(t)
    PROVE  AutopostInv'
<1>1. StepFrame(t) /\ Turns(t)
  BY StepFrames, StepTurns DEF Typed
<1>2. NewOps(t) /\ TasksOK' /\ \A u \in Tasks : u # t => task'[u] = task[u]
  BY <1>1, StepNewOps, TurnsTyped DEF Typed
<1>3. GuardInv' /\ ApartInv'
  BY <1>1, <1>2, StepGuards DEF Typed, AutopostInv
<1>4. IngestInv' /\ GatewayInv'
  BY <1>1, <1>2, StepIngests DEF Typed, AutopostInv
<1>5. KnownInv'
  BY <1>1, <1>2, StepKnown DEF Typed, AutopostInv
<1>6. PostInv' /\ OnceInv'
  BY <1>1, <1>2, StepPosts DEF Typed, AutopostInv
<1> QED
  BY <1>3, <1>4, <1>5, <1>6 DEF AutopostInv

LEMMA TailFields ==
    ASSUME QueuesOK, gateway # <<>>, NEW i \in DOMAIN Tail(gateway)
    PROVE  i + 1 \in DOMAIN gateway /\ Tail(gateway)[i] = gateway[i + 1]
<1>1. gateway \in Seq(GatewayEvents) /\ Len(gateway) \in Nat /\ DOMAIN gateway = 1..Len(gateway)
  BY LenProperties DEF QueuesOK
<1>2. /\ Tail(gateway) \in Seq(GatewayEvents) /\ Len(Tail(gateway)) = Len(gateway) - 1
      /\ \A j \in 1..Len(Tail(gateway)) : Tail(gateway)[j] = gateway[j + 1]
  BY <1>1, HeadTailProperties
<1>3. i \in 1..Len(Tail(gateway))
  BY <1>2, LenProperties
<1> QED
  BY <1>1, <1>2, <1>3

LEMMA GatewayTakes ==
    ASSUME QueuesOK, GatewayInv, UNCHANGED <<content, posted, byBot>>,
           gateway' = gateway \/ (gateway # <<>> /\ gateway' = Tail(gateway))
    PROVE  GatewayInv'
<1>1. CASE gateway' = gateway
  BY <1>1 DEF GatewayInv
<1>2. CASE gateway # <<>> /\ gateway' = Tail(gateway)
  <2>1. \A i \in DOMAIN gateway' : i + 1 \in DOMAIN gateway /\ gateway'[i] = gateway[i + 1]
    BY <1>2, TailFields
  <2>2. \A i \in DOMAIN gateway' : \E j \in DOMAIN gateway : gateway'[i] = gateway[j]
    BY <2>1
  <2> QED
    BY <2>2 DEF GatewayInv
<1> QED
  BY <1>1, <1>2

LEMMA HeadFields ==
    ASSUME QueuesOK, GatewayInv, gateway # <<>>
    PROVE  /\ Head(gateway) \in GatewayEvents /\ Head(gateway).message \in Messages
           /\ Head(gateway).kind = "post" => Head(gateway).message \notin byBot
           /\ Head(gateway).kind = "delete" => content[Head(gateway).message] = None
<1>1. gateway \in Seq(GatewayEvents) /\ Len(gateway) \in Nat /\ DOMAIN gateway = 1..Len(gateway)
  BY LenProperties DEF QueuesOK
<1>2. 1 \in DOMAIN gateway /\ Head(gateway) = gateway[1]
  BY <1>1, EmptySeq
<1> QED
  BY <1>2, GatewayFields DEF GatewayInv

LEMMA AutopostsFields ==
    ASSUME NEW p, NEW ready
    PROVE  /\ Len(Autoposts(p, ready)) = 3 /\ DOMAIN Autoposts(p, ready) = 1..3
           /\ Autoposts(p, ready)[1].op = "post" /\ Autoposts(p, ready)[1].pr = p
           /\ Releases(Autoposts(p, ready)[2], p)
           /\ Autoposts(p, ready)[3].op = "labels"
<1>1. Len(Autoposts(p, ready)) = 3 /\ DOMAIN Autoposts(p, ready) = 1..3
  BY DEF Autoposts
<1>2. /\ Autoposts(p, ready)[1] = [op |-> "post", pr |-> p, tracked |-> FALSE]
      /\ Autoposts(p, ready)[2] = [op |-> "unguard", pr |-> p]
      /\ Autoposts(p, ready)[3] = Labels(p, ready)
  BY DEF Autoposts
<1> QED
  BY <1>1, <1>2 DEF Releases, Labels

LEMMA AsksFirstFields ==
    ASSUME NEW p, NEW ready
    PROVE  /\ Len(AsksFirst(p, ready)) = 2 /\ DOMAIN AsksFirst(p, ready) = 1..2
           /\ AsksFirst(p, ready)[1].op = "author" /\ AsksFirst(p, ready)[2].op = "labels"
<1>1. Len(AsksFirst(p, ready)) = 2 /\ DOMAIN AsksFirst(p, ready) = 1..2
  BY DEF AsksFirst
<1>2. AsksFirst(p, ready)[1] = Await("author", p, None) /\ AsksFirst(p, ready)[2] = Labels(p, ready)
  BY DEF AsksFirst
<1> QED
  BY <1>1, <1>2 DEF Await, Labels

LEMMA ReceiveAutopost ==
    ASSUME Typed, AutopostInv, NEW t \in Handlers, task[t] = <<>>, Received(t), ReceiveFrame(t)
    PROVE  AutopostInv'
<1>0. /\ t \in Tasks /\ QueuesOK /\ TasksOK
      /\ UNCHANGED <<content, posted, byBot, old, autoposts>>
      /\ \A m, p : Live(m, p)' <=> Live(m, p)
  BY DEF Typed, Tasks, ReceiveFrame, Live
<1>1. PICK ops : Starts(t, ops)
  BY DEF Received
<1>2. task'[t] = ops /\ \A u \in Tasks : u # t => task'[u] = task[u]
  BY <1>0, <1>1 DEF Starts, TasksOK
<1>3. autoposting \subseteq autoposting'
  BY DEF Received
<1>4. GatewayInv'
  BY <1>0, GatewayTakes DEF AutopostInv, ReceiveFrame
<1>5. KnownInv'
  <2> SUFFICES ASSUME NEW m \in Messages, NEW p \in PRs, Live(m, p)
               PROVE  Known(m, p)' \/ \E u \in Tasks : Fresh(u, m, p)'
    BY <1>0 DEF KnownInv
  <2>1. ASSUME Known(m, p) PROVE Known(m, p)'
    <3>1. ASSUME OnMessage(t) PROVE message'[m] = message[m]
      <4>1. gateway # <<>> /\ Head(gateway).kind = "post"
        BY <3>1 DEF OnMessage, TakesEvent
      <4>2. Head(gateway).message \notin byBot
        BY <1>0, <4>1, HeadFields DEF AutopostInv
      <4>3. Head(gateway).message # m
        BY <4>2 DEF Live, Typed, ChannelOK
      <4> QED
        BY <3>1, <4>3 DEF OnMessage, Stored, Typed, TablesOK
    <3>2. message'[m] = message[m]
      BY <3>1 DEF ReceiveFrame
    <3> QED
      BY <2>1, <3>2 DEF Known
  <2>2. ASSUME NEW u \in Tasks, Fresh(u, m, p) PROVE Fresh(u, m, p)'
    <3>1. u # t
      BY <2>2, EmptySeq DEF Fresh
    <3> QED
      BY <1>2, <2>2, <3>1 DEF Fresh
  <2> QED
    BY <2>1, <2>2 DEF AutopostInv, KnownInv
<1>6. OnceInv'
  BY <1>0 DEF AutopostInv, OnceInv
<1>7. ASSUME ops \in Seq(Given(content'))
      PROVE  GuardInv' /\ ApartInv' /\ IngestInv' /\ PostInv'
  <2>1. \A i \in DOMAIN task'[t] : task'[t][i] \in Given(content)
    BY <1>0, <1>2, <1>7, ElementOfSeq, LenProperties
  <2>2. \A i \in DOMAIN task'[t] :
          /\ task'[t][i].op \notin {"author", "post", "unguard", "history"}
          /\ task'[t][i].op = "ingest" =>
               /\ task'[t][i].message \in Messages /\ task'[t][i].links \in SUBSET PRs
               /\ content[task'[t][i].message] = task'[t][i].links
    BY <2>1, GivenFields
  <2>3. \A m \in Messages : content[m] # None => m <= posted
    BY DEF AutopostInv, GatewayInv
  <2>4. GuardInv'
    BY <1>2, <1>3, <2>2 DEF AutopostInv, GuardInv
  <2>5. ApartInv'
    BY <1>2, <2>2 DEF AutopostInv, ApartInv, Releases
  <2>6. IngestInv'
    BY <1>0, <1>2, <2>2, <2>3, PrBotAssumption DEF AutopostInv, IngestInv
  <2>7. PostInv'
    BY <1>0, <1>2, <2>2 DEF AutopostInv, PostInv
  <2> QED
    BY <2>4, <2>5, <2>6, <2>7
<1>8. ASSUME NEW p \in PRs, NEW ready \in BOOLEAN, MayAutopost(p), autoposting' = autoposting \cup {p},
             ops = Autoposts(p, ready)
      PROVE  GuardInv' /\ ApartInv' /\ IngestInv' /\ PostInv'
  <2>1. /\ Len(task'[t]) = 3 /\ DOMAIN task'[t] = 1..3
        /\ task'[t][1].op = "post" /\ task'[t][1].pr = p
        /\ Releases(task'[t][2], p) /\ task'[t][3].op = "labels"
    <3>1. task'[t] = Autoposts(p, ready)
      BY <1>2, <1>8
    <3> QED
      BY <3>1, AutopostsFields
  <2>2. \A i \in DOMAIN task'[t] : i = 1 \/ i = 2 \/ i = 3
    BY <2>1
  <2>3. GuardInv'
    <3>1. ASSUME NEW i \in DOMAIN task'[t]
          PROVE  /\ task'[t][i].op = "history" => t = "startup"
                 /\ task'[t][i].op = "unguard" =>
                      t \in Handlers /\ Len(task'[t]) - i = 1 /\ task'[t][i].pr \in autoposting'
                 /\ task'[t][i].op = "post" =>
                      i = 1 /\ Len(task'[t]) = 3 /\ Releases(task'[t][2], task'[t][1].pr)
                 /\ task'[t][i].op # "author"
      BY <1>8, <2>1, <2>2 DEF Releases
    <3> QED
      BY <1>2, <1>3, <3>1 DEF AutopostInv, GuardInv
  <2>4. ASSUME NEW u \in Tasks, u # t, NEW j \in DOMAIN task[u], task[u][j].op = "unguard"
        PROVE  task[u][j].pr # p
    BY <1>8, <2>4 DEF AutopostInv, GuardInv, MayAutopost
  <2>5. \A i \in DOMAIN task'[t] : task'[t][i].op = "unguard" => task'[t][i].pr = p
    BY <2>1, <2>2 DEF Releases
  <2>6. ApartInv'
    <3> SUFFICES ASSUME NEW u \in Tasks, NEW v \in Tasks, NEW i \in DOMAIN task'[u], NEW j \in DOMAIN task'[v],
                        task'[u][i].op = "unguard", task'[v][j].op = "unguard",
                        task'[v][j].pr = task'[u][i].pr, u # v
                 PROVE  FALSE
      BY DEF ApartInv, Releases
    <3>1. CASE u = t
      BY <1>2, <2>4, <2>5, <3>1
    <3>2. CASE v = t
      BY <1>2, <2>4, <2>5, <3>2
    <3>3. CASE u # t /\ v # t
      BY <1>2, <3>3 DEF AutopostInv, ApartInv, Releases
    <3> QED
      BY <3>1, <3>2, <3>3
  <2>7. IngestInv'
    <3>1. \A i \in DOMAIN task'[t] : task'[t][i].op # "ingest"
      BY <2>1, <2>2 DEF Releases
    <3> QED
      BY <1>0, <1>2, <3>1 DEF AutopostInv, IngestInv
  <2>8. PostInv'
    <3>1. \A m \in Messages : ~Live(m, p)
      BY <1>0, <1>8, LiveIsGuarded DEF AutopostInv
    <3>2. \A i \in DOMAIN task'[t] : task'[t][i].op = "post" => task'[t][i].pr = p
      BY <2>1, <2>2 DEF Releases
    <3> QED
      BY <1>0, <1>2, <3>1, <3>2 DEF AutopostInv, PostInv
  <2> QED
    BY <2>3, <2>6, <2>7, <2>8
<1>9. ASSUME NEW p \in PRs, NEW ready \in BOOLEAN, ops = AsksFirst(p, ready)
      PROVE  GuardInv' /\ ApartInv' /\ IngestInv' /\ PostInv'
  <2>1. /\ Len(task'[t]) = 2 /\ DOMAIN task'[t] = 1..2
        /\ task'[t][1].op = "author" /\ task'[t][2].op = "labels"
    <3>1. task'[t] = AsksFirst(p, ready)
      BY <1>2, <1>9
    <3> QED
      BY <3>1, AsksFirstFields
  <2>2. \A i \in DOMAIN task'[t] : /\ task'[t][i].op \notin {"post", "unguard", "history", "ingest"}
                                   /\ task'[t][i].op = "author" => i = 1 /\ Len(task'[t]) = 2
    BY <2>1
  <2>3. GuardInv'
    BY <1>2, <1>3, <2>2 DEF AutopostInv, GuardInv
  <2>4. ApartInv'
    BY <1>2, <2>2 DEF AutopostInv, ApartInv, Releases
  <2>5. IngestInv' /\ PostInv'
    BY <1>0, <1>2, <2>2 DEF AutopostInv, IngestInv, PostInv
  <2> QED
    BY <2>3, <2>4, <2>5
<1>10. \/ ops \in Seq(Given(content'))
       \/ \E p \in PRs, ready \in BOOLEAN :
            \/ MayAutopost(p) /\ autoposting' = autoposting \cup {p} /\ ops = Autoposts(p, ready)
            \/ ops = AsksFirst(p, ready)
  BY <1>0, <1>2 DEF Received, Starts, TasksOK
<1> QED
  BY <1>4, <1>5, <1>6, <1>7, <1>8, <1>9, <1>10 DEF AutopostInv

LEMMA GitHubAutopost ==
    ASSUME AutopostInv, UNCHANGED <<task, message, autoposting, autoposts, byBot, content, posted, old, gateway>>
    PROVE  AutopostInv'
<1>1. GuardInv' /\ ApartInv' /\ IngestInv' /\ GatewayInv'
  BY DEF AutopostInv, GuardInv, ApartInv, IngestInv, GatewayInv
<1>2. \A m, p : Live(m, p)' <=> Live(m, p)
  BY DEF Live
<1>3. KnownInv' /\ PostInv' /\ OnceInv'
  BY <1>2 DEF AutopostInv, KnownInv, PostInv, OnceInv, Known, Fresh
<1> QED
  BY <1>1, <1>3 DEF AutopostInv

(* What users do takes auto-posts out of the channel, and puts none in.    *)
UsersView ==
    /\ UNCHANGED <<task, message, autoposting, autoposts, byBot>>
    /\ posted' \in Int /\ posted <= posted'
    /\ \A m \in Messages : m <= posted /\ m \in byBot => content'[m] \in {content[m], None}
    /\ \A m \in Messages : m <= posted /\ content[m] = None => content'[m] = None
    /\ \A m \in Messages : content'[m] # None => m <= posted'
    /\ \A m \in Messages, p \in PRs : Live(m, p)' => Live(m, p)
    /\ \A i \in DOMAIN gateway' :
         \/ i \in DOMAIN gateway /\ gateway'[i] = gateway[i]
         \/ /\ gateway'[i].message <= posted'
            /\ gateway'[i].kind = "post" => gateway'[i].message \notin byBot
            /\ gateway'[i].kind = "delete" => content'[gateway'[i].message] = None

LEMMA NotifiedView ==
    ASSUME QueuesOK, NEW e, Notified(e)
    PROVE  \A i \in DOMAIN gateway' : (i \in DOMAIN gateway /\ gateway'[i] = gateway[i]) \/ gateway'[i] = e
<1>1. gateway \in Seq(GatewayEvents \cup {e}) /\ Len(gateway) \in Nat /\ DOMAIN gateway = 1..Len(gateway)
  BY SeqMonotonic, LenProperties DEF QueuesOK
<1>2. CASE gateway' = Append(gateway, e)
  <2>1. Len(gateway') = Len(gateway) + 1 /\ DOMAIN gateway' = 1..(Len(gateway) + 1)
    BY <1>1, <1>2
  <2>2. \A i \in 1..Len(gateway) : gateway'[i] = gateway[i]
    BY <1>1, <1>2
  <2>3. gateway'[Len(gateway) + 1] = e
    BY <1>1, <1>2
  <2> QED
    BY <1>1, <2>1, <2>2, <2>3
<1>3. CASE gateway' = gateway
  BY <1>3
<1> QED
  BY <1>2, <1>3 DEF Notified

LEMMA UsersViewed ==
    ASSUME Typed, AutopostInv,
           \/ \E links \in Links : PostMessage(links) \/ \E m \in Messages : EditMessage(m, links)
           \/ \E m \in Messages : DeleteMessage(m) \/ GrowOld(m)
    PROVE  UsersView
<1>0. /\ posted \in Nat /\ \A m \in byBot : m <= posted
      /\ \A m \in autoposts : m \in byBot
      /\ \A m \in Messages : m \in Int
      /\ \A m \in Messages : content[m] # None => m <= posted
      /\ QueuesOK /\ ChannelOK /\ ~(posted + 1 \in byBot)
  BY DEF Typed, ChannelOK, Messages, AutopostInv, GatewayInv
<1>1. UserActs => UNCHANGED <<task, message, autoposting, autoposts, byBot>>
  BY DEF UserActs, tables, memory, history
<1>2. ASSUME NEW links \in Links, PostMessage(links) PROVE UsersView
  <2>1. UserActs /\ old' = old /\ posted' = posted + 1
        /\ Notified([kind |-> "post", message |-> posted + 1, links |-> links])
    BY <1>2 DEF PostMessage
  <2>2. \A m \in Messages : m # posted + 1 => content'[m] = content[m]
    BY <1>0, <1>2 DEF PostMessage, ChannelOK
  <2>3. \A m \in Messages : m <= posted => m # posted + 1
    BY <1>0
  <2>4. \A m \in Messages : content'[m] # None => m <= posted'
    BY <1>0, <2>1, <2>2
  <2>5. \A m \in Messages, p \in PRs : Live(m, p)' => Live(m, p)
    BY <1>0, <1>1, <2>1, <2>2 DEF Live
  <2>6. \A i \in DOMAIN gateway' :
         \/ i \in DOMAIN gateway /\ gateway'[i] = gateway[i]
         \/ gateway'[i] = [kind |-> "post", message |-> posted + 1, links |-> links]
    BY <1>0, <2>1, NotifiedView
  <2> QED
    BY <1>0, <1>1, <2>1, <2>2, <2>3, <2>4, <2>5, <2>6 DEF UsersView
<1>3. ASSUME NEW links \in Links, NEW k \in Messages, EditMessage(k, links) PROVE UsersView
  <2>1. UserActs /\ UNCHANGED <<old, posted>> /\ k \notin byBot /\ content[k] # None
        /\ Notified([kind |-> "edit", message |-> k])
    BY <1>3 DEF EditMessage
  <2>2. \A m \in Messages : m # k => content'[m] = content[m]
    BY <1>0, <1>3 DEF EditMessage, ChannelOK
  <2>3. k <= posted
    BY <1>0, <2>1
  <2>4. \A m \in Messages, p \in PRs : Live(m, p)' => Live(m, p)
    BY <1>0, <1>1, <2>1, <2>2 DEF Live
  <2>5. \A i \in DOMAIN gateway' :
         \/ i \in DOMAIN gateway /\ gateway'[i] = gateway[i]
         \/ gateway'[i] = [kind |-> "edit", message |-> k]
    BY <1>0, <2>1, NotifiedView
  <2> QED
    BY <1>0, <1>1, <2>1, <2>2, <2>3, <2>4, <2>5 DEF UsersView
<1>4. ASSUME NEW k \in Messages, DeleteMessage(k) PROVE UsersView
  <2>1. UserActs /\ UNCHANGED <<old, posted>> /\ content[k] # None
        /\ Notified([kind |-> "delete", message |-> k])
    BY <1>4 DEF DeleteMessage
  <2>2. content'[k] = None /\ \A m \in Messages : m # k => content'[m] = content[m]
    BY <1>0, <1>4 DEF DeleteMessage, ChannelOK
  <2>3. k <= posted
    BY <1>0, <2>1
  <2>4. \A m \in Messages, p \in PRs : Live(m, p)' => Live(m, p)
    BY <1>0, <1>1, <2>1, <2>2, PrBotAssumption DEF Live
  <2>5. \A i \in DOMAIN gateway' :
         \/ i \in DOMAIN gateway /\ gateway'[i] = gateway[i]
         \/ gateway'[i] = [kind |-> "delete", message |-> k]
    BY <1>0, <2>1, NotifiedView
  <2> QED
    BY <1>0, <1>1, <2>1, <2>2, <2>3, <2>4, <2>5 DEF UsersView
<1>5. ASSUME NEW k \in Messages, GrowOld(k) PROVE UsersView
  <2>1. UserActs /\ UNCHANGED <<content, posted, gateway>> /\ old \subseteq old'
    BY <1>5 DEF GrowOld
  <2>2. \A m \in Messages, p \in PRs : Live(m, p)' => Live(m, p)
    BY <1>1, <2>1 DEF Live
  <2> QED
    BY <1>0, <1>1, <2>1, <2>2 DEF UsersView
<1> QED
  BY <1>2, <1>3, <1>4, <1>5

LEMMA UsersAutopost ==
    ASSUME Typed, AutopostInv, UsersView
    PROVE  AutopostInv'
<1>0. TasksOK /\ QueuesOK /\ posted \in Nat /\ posted' \in Int /\ posted <= posted'
  BY DEF Typed, ChannelOK, UsersView
<1>1. GuardInv' /\ ApartInv'
  BY DEF AutopostInv, GuardInv, ApartInv, UsersView
<1>2. IngestInv'
  <2> SUFFICES ASSUME NEW u \in Tasks, NEW i \in DOMAIN task[u], task[u][i].op = "ingest"
               PROVE  /\ task[u][i].message <= posted'
                      /\ task[u][i].message \in byBot =>
                           content'[task[u][i].message] \in {task[u][i].links, None}
    BY DEF IngestInv, UsersView
  <2> DEFINE k == task[u][i].message
  <2>1. k \in Messages /\ k <= posted /\ (k \in byBot => content[k] \in {task[u][i].links, None})
    BY <1>0, TaskFields DEF AutopostInv, IngestInv
  <2>2. k \in Int
    BY <2>1 DEF Messages
  <2> HIDE DEF k
  <2>3. k <= posted'
    BY <1>0, <2>1, <2>2
  <2>4. k \in byBot => content'[k] \in {content[k], None}
    BY <2>1 DEF UsersView
  <2> QED
    BY <2>1, <2>3, <2>4 DEF k
<1>3. GatewayInv'
  <2>1. ASSUME NEW i \in DOMAIN gateway', i \in DOMAIN gateway, gateway'[i] = gateway[i]
        PROVE  /\ gateway'[i].message <= posted'
               /\ gateway'[i].kind = "post" => gateway'[i].message \notin byBot'
               /\ gateway'[i].kind = "delete" => content'[gateway'[i].message] = None
    <3> DEFINE k == gateway[i].message
    <3>1. /\ k \in Messages /\ k <= posted
          /\ gateway[i].kind = "post" => k \notin byBot
          /\ gateway[i].kind = "delete" => content[k] = None
      BY <1>0, <2>1, GatewayFields DEF AutopostInv, GatewayInv
    <3>2. k \in Int
      BY <3>1 DEF Messages
    <3> HIDE DEF k
    <3>3. k <= posted'
      BY <1>0, <3>1, <3>2
    <3>4. gateway[i].kind = "delete" => content'[k] = None
      BY <3>1 DEF UsersView
    <3> QED
      BY <2>1, <3>1, <3>3, <3>4 DEF k, UsersView
  <2> QED
    BY <2>1 DEF GatewayInv, UsersView
<1>4. KnownInv' /\ PostInv' /\ OnceInv'
  <2>1. KnownInv'
    BY DEF AutopostInv, KnownInv, UsersView, Known, Fresh
  <2>2. PostInv'
    <3> SUFFICES ASSUME NEW u \in Tasks, NEW i \in DOMAIN task[u], task[u][i].op = "post",
                        task[u][i].tracked = FALSE,
                        NEW m \in Messages, NEW p, p = task[u][i].pr, Live(m, p)'
                 PROVE  FALSE
      BY DEF PostInv, Live, UsersView
    <3>1. p \in PRs
      BY <1>0, TaskFields
    <3> QED
      BY <3>1 DEF AutopostInv, PostInv, UsersView
  <2>3. OnceInv'
    BY DEF AutopostInv, OnceInv, UsersView
  <2> QED
    BY <2>1, <2>2, <2>3
<1> QED
  BY <1>1, <1>2, <1>3, <1>4 DEF AutopostInv

LEMMA OthersAutopost ==
    ASSUME Typed, AutopostInv, OnDelete \/ RunCleanup \/ Crash \/ Restart
    PROVE  AutopostInv'
<1>0. TasksOK /\ QueuesOK /\ TablesOK
  BY DEF Typed
<1>1. ASSUME OnDelete PROVE AutopostInv'
  <2>1. /\ gateway # <<>> /\ Head(gateway).kind = "delete" /\ gateway' = Tail(gateway)
        /\ UNCHANGED <<env, task, memory, autoposts>>
        /\ message' = [message EXCEPT ![Head(gateway).message] = None]
    BY <1>1 DEF OnDelete, TakesEvent
  <2>2. UNCHANGED <<task, autoposting, autoposts, byBot, content, posted, old>>
    BY <2>1 DEF env, memory
  <2>3. \A m, p : Live(m, p)' <=> Live(m, p)
    BY <2>2 DEF Live
  <2>4. GuardInv' /\ ApartInv' /\ IngestInv' /\ PostInv' /\ OnceInv'
    BY <2>2, <2>3 DEF AutopostInv, GuardInv, ApartInv, IngestInv, PostInv, OnceInv
  <2>5. GatewayInv'
    BY <1>0, <2>1, <2>2, GatewayTakes DEF AutopostInv
  <2>6. ASSUME NEW m \in Messages, NEW p \in PRs, Live(m, p) PROVE message'[m] = message[m]
    <3>1. content[Head(gateway).message] = None /\ content[m] # None
      BY <1>0, <2>1, <2>6, HeadFields, PrBotAssumption DEF AutopostInv, Live
    <3>2. m # Head(gateway).message
      BY <3>1
    <3> QED
      BY <1>0, <2>1, <3>2 DEF TablesOK
  <2>7. KnownInv'
    BY <2>2, <2>3, <2>6 DEF AutopostInv, KnownInv, Known, Fresh
  <2> QED
    BY <2>4, <2>5, <2>7 DEF AutopostInv
<1>2. ASSUME Cleaned, UNCHANGED <<old, autoposts, content>>
      PROVE  \A m \in Messages, p \in PRs : Live(m, p)' => message'[m] = message[m] /\ Live(m, p)
  BY <1>0, <1>2, CleanedTables DEF Live
<1>3. ASSUME RunCleanup PROVE AutopostInv'
  <2>1. Cleaned /\ UNCHANGED <<task, autoposting, autoposts, byBot, content, posted, old, gateway>>
    BY <1>3 DEF RunCleanup, env, queues, memory
  <2>2. \A m, p : Live(m, p)' <=> Live(m, p)
    BY <2>1 DEF Live
  <2>3. GuardInv' /\ ApartInv' /\ IngestInv' /\ GatewayInv' /\ PostInv' /\ OnceInv'
    BY <2>1, <2>2 DEF AutopostInv, GuardInv, ApartInv, IngestInv, GatewayInv, PostInv, OnceInv
  <2>4. KnownInv'
    BY <1>2, <2>1 DEF AutopostInv, KnownInv, Known, Fresh
  <2> QED
    BY <2>3, <2>4 DEF AutopostInv
<1>4. ASSUME Crash PROVE AutopostInv'
  <2>1. /\ task' = [t \in Tasks |-> <<>>] /\ gateway' = <<>> /\ autoposts' = {}
        /\ UNCHANGED <<content, posted, byBot, old>>
    BY <1>4 DEF Crash, env
  <2>2. \A t \in Tasks : DOMAIN task'[t] = {}
    BY <2>1
  <2>3. \A m, p : ~Live(m, p)'
    BY <2>1 DEF Live
  <2>4. GuardInv' /\ ApartInv' /\ IngestInv' /\ KnownInv' /\ PostInv' /\ OnceInv'
    BY <2>2, <2>3 DEF GuardInv, ApartInv, IngestInv, KnownInv, PostInv, OnceInv
  <2>5. DOMAIN gateway' = {}
    BY <2>1
  <2>6. GatewayInv'
    BY <2>1, <2>5 DEF AutopostInv, GatewayInv
  <2> QED
    BY <2>4, <2>6 DEF AutopostInv
<1>5. ASSUME Restart PROVE AutopostInv'
  <2> DEFINE settled == {m \in Messages : message'[m] # None /\ message'[m].links # {}}
             pass == [op |-> "history", skip |-> settled]
  <2>1. /\ Cleaned /\ UNCHANGED <<content, posted, byBot, old, autoposts, autoposting, gateway>>
        /\ task' = [task EXCEPT !["startup"] = <<pass>>]
    BY <1>5 DEF Restart, env, queues
  <2>2. \A t \in Tasks : task[t] = <<>>
    BY <1>5 DEF Restart, Typed, MemoryOK, Idle
  <2>3. "startup" \in Tasks /\ task'["startup"] = <<pass>> /\ \A t \in Tasks : t # "startup" => task'[t] = <<>>
    BY <1>0, <2>1, <2>2 DEF Tasks, TasksOK
  <2>4. pass.op = "history"
    OBVIOUS
  <2> HIDE DEF pass
  <2>5. \A t \in Tasks : \A i \in DOMAIN task'[t] : t = "startup" /\ task'[t][i].op = "history"
    BY <2>3, <2>4
  <2>6. \A m, p : Live(m, p)' <=> Live(m, p)
    BY <2>1 DEF Live
  <2>7. GuardInv' /\ ApartInv' /\ IngestInv' /\ PostInv'
    BY <2>5 DEF GuardInv, ApartInv, Releases, IngestInv, PostInv
  <2>8. GatewayInv' /\ OnceInv'
    BY <2>1, <2>6 DEF AutopostInv, GatewayInv, OnceInv
  <2>9. \A t \in Tasks : \A m, p : ~Fresh(t, m, p)
    BY <2>2, EmptySeq DEF Fresh
  <2>10. KnownInv'
    BY <1>2, <2>1, <2>9 DEF AutopostInv, KnownInv, Known
  <2> QED
    BY <2>7, <2>8, <2>10 DEF AutopostInv
<1> QED
  BY <1>1, <1>3, <1>4, <1>5

LEMMA InitAutopost == Init => AutopostInv
<1> SUFFICES ASSUME Init PROVE AutopostInv
  OBVIOUS
<1>1. \A t \in Tasks : DOMAIN task[t] = {}
  BY DEF Init
<1>2. DOMAIN gateway = {} /\ \A m \in Messages : content[m] = None
  BY DEF Init
<1>3. \A m, p : ~Live(m, p)
  BY DEF Init, Live
<1> QED
  BY <1>1, <1>2, <1>3 DEF AutopostInv, GuardInv, ApartInv, IngestInv, GatewayInv, KnownInv, PostInv, OnceInv

LEMMA NextAutopost ==
    ASSUME Typed, AutopostInv, [Next]_vars
    PROVE  AutopostInv'
<1>1. CASE \E t \in Tasks \ Idle : Step(t)
  BY <1>1, StepAutopost DEF Idle
<1>2. CASE \E t \in Handlers \cap Idle : Receive(t)
  BY <1>2, ReceiveTurns, ReceiveAutopost DEF Idle
<1>3. CASE OnDelete \/ RunCleanup \/ Crash \/ Restart
  BY <1>3, OthersAutopost
<1>4. CASE \E p \in PRs : GitHubChanges(p)
  <2>1. UNCHANGED <<task, message, autoposting, autoposts, byBot, content, posted, old, gateway>>
    BY <1>4, GitHubOutside DEF Outside, tables, memory
  <2> QED
    BY <2>1, GitHubAutopost
<1>5. CASE \/ \E links \in Links : PostMessage(links) \/ \E m \in Messages : EditMessage(m, links)
           \/ \E m \in Messages : DeleteMessage(m) \/ GrowOld(m)
  BY <1>5, UsersViewed, UsersAutopost
<1>6. CASE UNCHANGED vars
  <2>1. UNCHANGED <<task, message, autoposting, autoposts, byBot, content, posted, old, gateway>>
    BY <1>6 DEF vars, env, queues, tables, memory, history
  <2> QED
    BY <2>1, GitHubAutopost
<1> QED
  BY <1>1, <1>2, <1>3, <1>4, <1>5, <1>6 DEF Next

LEMMA AutopostStands == Spec => []AutopostInv
<1>1. Init => AutopostInv
  BY InitAutopost
<1>2. Typed /\ AutopostInv /\ [Next]_vars => AutopostInv'
  BY NextAutopost
<1> QED
  BY <1>1, <1>2, TypedStands, PTL DEF Spec

(* However many label webhooks of a PR overlap, and wherever in them GitHub *)
(* is asked for the author, one process never has two auto-posts of the PR *)
(* in the channel of which it was told and before which it found the PR    *)
(* untracked with the guard free: _autoposting in src/pr-bot/bot.py guards *)
(* the PR until its message is in the tables.  The two kinds of post the   *)
(* guard does not stop are those autoposts leaves out, see Autopost.       *)
THEOREM AutopostOnceCorrect == Spec => []AutopostOnce
<1>1. Typed /\ AutopostInv => AutopostOnce
  <2> SUFFICES ASSUME Typed, AutopostInv, NEW p \in PRs
               PROVE  Cardinality({m \in autoposts \ old : content[m] = {p}}) <= 1
    BY DEF AutopostOnce
  <2> DEFINE posts == {m \in autoposts \ old : content[m] = {p}}
  <2>1. \A m \in posts : m \in Messages /\ Live(m, p)
    <3>1. MaxMessages \in Nat
      BY PrBotAssumption
    <3> QED
      BY <3>1 DEF Live, Typed, ChannelOK, Messages
  <2>2. \A m, n \in posts : m = n
    BY <2>1 DEF AutopostInv, OnceInv
  <2> HIDE DEF posts
  <2>3. posts = {} \/ \E m : posts = {m}
    BY <2>2
  <2>4. Cardinality({}) = 0 /\ \A m : Cardinality({m}) = 1
    BY FS_EmptySet, FS_Singleton
  <2>5. Cardinality(posts) <= 1
    BY <2>3, <2>4
  <2> QED
    BY <2>5 DEF posts
<1> QED
  BY <1>1, TypedStands, AutopostStands, PTL
==============================================================================
