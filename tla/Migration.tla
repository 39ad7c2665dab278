----------------------------- MODULE Migration -----------------------------
(***************************************************************************)
(* migrate_fingerprints: at each start the server computes the fingerprint *)
(* of every error group anew, one row after the other of a snapshot of the *)
(* table, and renames the group or merges it into the group that has the   *)
(* new fingerprint.  The loop is one transaction, so nothing else runs in  *)
(* between; what makes it hard is that the winner is read live while the   *)
(* row that is merged into it is the snapshot's.                            *)
(* A count or a date is known by the rows of the snapshot it adds up: a    *)
(* group starts with its own and a merge adds the loser's.                 *)
(* A definition named Bug... is a mutated form of the definition after it. *)
(***************************************************************************)
EXTENDS Naturals, FiniteSets

CONSTANTS
    Rows,       \* the number of rows of the snapshot, in the order of their ids
    Traces,     \* what the rules take from a group: its class and top frames
    Texts,      \* what they take from a message: its normalized text
    Times,      \* timestamps of occurrences
    None        \* no message, no occurrence

ASSUME MigrationAssumption == Rows \in Nat /\ Times \subseteq Nat /\ None \notin 0..Rows

VARIABLES
    next,           \* the row the loop is at; past the last one it is done
    live,           \* rows of error_groups
    fingerprint,    \* error_groups.fingerprint
    trace,          \* error_groups.canonical_trace, as the rules see it
    template,       \* error_groups.message_template, as the rules see it
    counted,        \* the rows total_count, first_seen and last_seen account for
    hasActivity,    \* error_groups.has_activity
    messageId,      \* error_groups.discord_message_id: the row it was posted for
    pendingDeletes, \* pending_discord_deletes
    latest,         \* the newest occurrence each row brought, None without one
    occurrences,    \* occurrences.group_id: whose occurrences each row holds
    hours,          \* server_hour_counts: whose counts each row holds
    attempts,       \* fix_attempts: the fingerprint the attempts of each row carry
    before,         \* the snapshot's fingerprints
    posted,         \* the rows that have a message in the snapshot
    dropped         \* rows merged into one that was then itself merged (history)

content == <<fingerprint, template, counted, hasActivity, messageId>>
moved   == <<pendingDeletes, occurrences, hours, attempts>>
vars    == <<next, live, content, trace, latest, moved, before, posted, dropped>>

Ids          == 1..Rows
Older(i)     == <<None, i>>                  \* what only older rules made of group i
Fingerprints == (Traces \X Texts) \cup {Older(i) : i \in Ids}
Occurrence   == [time: Times, text: Texts]

TypeOK ==
    /\ next \in 1..(Rows + 1)
    /\ live \subseteq Ids /\ posted \subseteq Ids /\ dropped \subseteq Ids
    /\ fingerprint \in [Ids -> Fingerprints]
    /\ trace \in [Ids -> Traces]
    /\ template \in [Ids -> Texts]
    /\ counted \in [Ids -> SUBSET Ids]
    /\ hasActivity \in [Ids -> BOOLEAN]
    /\ messageId \in [Ids -> Ids \cup {None}]
    /\ pendingDeletes \subseteq Ids
    /\ latest \in [Ids -> Occurrence \cup {None}]
    /\ occurrences \in [Ids -> SUBSET Ids]
    /\ hours \in [Ids -> SUBSET Ids]
    /\ attempts \in [Ids -> Fingerprints]
    /\ before \in [Ids -> Fingerprints]
    /\ \A i, j \in live : fingerprint[i] = fingerprint[j] => i = j

(* Any table: groups whose occurrences have all expired have only their    *)
(* template; a group may have no message.                                  *)
Init ==
    /\ next = 1 /\ live = Ids /\ dropped = {}
    /\ fingerprint \in {f \in [Ids -> Fingerprints] :
                            \A i, j \in Ids : /\ f[i] = f[j] => i = j
                                              /\ f[i] = Older(j) => i = j}
    /\ before = fingerprint /\ attempts = fingerprint
    /\ trace \in [Ids -> Traces]
    /\ latest \in [Ids -> Occurrence \cup {None}]
    /\ template \in {f \in [Ids -> Texts] :
                         \A i \in Ids : latest[i] # None => f[i] = latest[i].text}
    /\ counted = [i \in Ids |-> {i}]
    /\ hasActivity = [i \in Ids |-> FALSE]
    /\ posted \in SUBSET Ids
    /\ messageId = [i \in Ids |-> IF i \in posted THEN i ELSE None]
    /\ pendingDeletes = {}
    /\ occurrences = [i \in Ids |-> {i}]
    /\ hours = [i \in Ids |-> {i}]
-----------------------------------------------------------------------------
(* Of occurrences of one time the younger counts: its id is the larger.    *)
Newer(a, b) ==
    \/ latest[a].time > latest[b].time
    \/ latest[a].time = latest[b].time /\ a >= b

(* The message the rules are applied to: the newest a group holds by now,  *)
(* or its template.                                                        *)
BugText(i) == IF latest[i] = None THEN template[i] ELSE latest[i].text
Text(i) ==
    LET held == {o \in occurrences[i] : latest[o] # None} IN
    IF held = {} THEN template[i]
    ELSE latest[CHOOSE o \in held : \A other \in held : Newer(o, other)].text

NewFp(i) == <<trace[i], Text(i)>>
BugWinners(i) == {w \in live : w < i /\ fingerprint[w] = NewFp(i)}
Winners(i) == {w \in live : fingerprint[w] = NewFp(i)}

(* Fix attempts have no group id: they follow the fingerprint. *)
BugReaddressed(old, new) == attempts
Readdressed(old, new) == [a \in Ids |-> IF attempts[a] = old THEN new ELSE attempts[a]]

Row(i) == next = i /\ next' = i + 1

(* Nothing but the signature, which depends on the fingerprint's inputs.   *)
Keep(i) ==
    /\ Row(i)
    /\ NewFp(i) = before[i]
    /\ UNCHANGED <<live, content, trace, latest, moved, before, posted, dropped>>

Rename(i) ==
    /\ Row(i)
    /\ NewFp(i) # before[i] /\ Winners(i) = {}
    /\ fingerprint' = [fingerprint EXCEPT ![i] = NewFp(i)]
    /\ template' = [template EXCEPT ![i] = Text(i)]
    /\ hasActivity' = [hasActivity EXCEPT ![i] = TRUE]
    /\ attempts' = Readdressed(before[i], NewFp(i))
    /\ UNCHANGED <<live, counted, messageId, trace, latest, pendingDeletes, occurrences, hours,
                   before, posted, dropped>>

(* What the loser i brings to the winner's counts and dates: the snapshot. *)
Brought(i) == {i}

(* The message the snapshot has for the loser goes to a winner that has    *)
(* none by now, else to the queue of deletions.                            *)
BugAdopts(w) == w \notin posted
Adopts(w) == messageId[w] = None

BugFlags(w) == [hasActivity EXCEPT ![w] = @ \/ messageId[w] # None]
Flags(w) == [hasActivity EXCEPT ![w] = TRUE]

Merge(i) ==
    /\ Row(i)
    /\ NewFp(i) # before[i]
    /\ \E w \in Winners(i) :
        /\ counted' = [counted EXCEPT ![w] = @ \cup Brought(i), ![i] = {}]
        /\ hasActivity' = [Flags(w) EXCEPT ![i] = FALSE]
        /\ occurrences' = [occurrences EXCEPT ![w] = @ \cup occurrences[i], ![i] = {}]
        /\ hours' = [hours EXCEPT ![w] = @ \cup hours[i], ![i] = {}]
        /\ messageId' = [messageId EXCEPT ![w] = IF i \in posted /\ Adopts(w) THEN i ELSE @,
                                          ![i] = None]
        /\ pendingDeletes' = IF i \in posted /\ ~Adopts(w) THEN pendingDeletes \cup {i}
                             ELSE pendingDeletes
        /\ attempts' = Readdressed(before[i], NewFp(i))
        /\ live' = live \ {i}
        /\ dropped' = dropped \cup (occurrences[i] \ {i})
    /\ UNCHANGED <<fingerprint, template, trace, latest, before, posted>>

Done == next > Rows /\ UNCHANGED vars

Next == Done \/ \E i \in Ids : Keep(i) \/ Rename(i) \/ Merge(i)

Spec == Init /\ [][Next]_vars
-----------------------------------------------------------------------------
Finished == next > Rows

(* The live row the data of row i has ended up in. *)
Homes(i) == {g \in live : i \in occurrences[g]}

(* After the pass a second one would find nothing to do: every group with  *)
(* an occurrence has the fingerprint the rules give for the newest it holds *)
(* now, although it may have been given occurrences before or after its    *)
(* turn.                                                                   *)
Settled ==
    Finished => \A g \in live : \A newest \in occurrences[g] :
        /\ latest[newest] # None
        /\ \A o \in occurrences[g] : latest[o] # None => Newer(newest, o)
        => fingerprint[g] = <<trace[g], latest[newest].text>>

(* Whatever merges into what, all that belongs to a group stays together:  *)
(* occurrences and hour counts are in one live row, and the fix attempts   *)
(* carry that row's fingerprint.                                           *)
StaysTogether ==
    Finished => \A i \in Ids :
        \E g \in live : /\ Homes(i) = {g}
                        /\ {h \in live : i \in hours[h]} = {g}
                        /\ attempts[i] = fingerprint[g]

(* Counts, dates and messages are neither lost nor doubled: a group counts *)
(* exactly the rows whose occurrences it holds, and a message is tracked   *)
(* by one group or queued for deletion.  The rows of dropped are excepted: *)
(* what a row gained before its own turn is not in the snapshot, and is    *)
(* gone when that row is merged in its turn.                               *)
NothingLost ==
    Finished =>
        /\ \A g \in live : counted[g] = occurrences[g] \ dropped
        /\ \A m \in posted :
              LET trackers == {g \in live : messageId[g] = m}
                  places == Cardinality(trackers) + Cardinality(pendingDeletes \cap {m}) IN
              places <= 1 /\ (m \notin dropped => places = 1)

(* A group whose message would now read differently is flagged for the     *)
(* refresh loop.                                                           *)
ChangedIsFlagged ==
    Finished => \A g \in live :
        fingerprint[g] # before[g] \/ counted[g] # {g} \/ messageId[g] \notin {g, None} =>
            hasActivity[g]
=============================================================================
