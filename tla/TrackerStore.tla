---------------------------- MODULE TrackerStore ----------------------------
(***************************************************************************)
(* The exception store of the tracker server: error_groups, occurrences    *)
(* and server_hour_counts, and every operation that writes the three       *)
(* together.  Each operation is one synchronous transaction, so a step.    *)
(* What makes it hard is time: an event carries the sender's timestamp,    *)
(* arrives in any order and is bounded only from above, while expiry       *)
(* sweeps the three tables by three different columns.  A definition named *)
(* Bug... is a mutated form of the definition after it.                     *)
(***************************************************************************)
EXTENDS Naturals, FiniteSets

CONSTANTS
    Groups,        \* the fingerprints that may be ingested
    Servers,       \* the server_id values of the senders
    Hour,          \* length of an hour bucket (3600 s)
    Window,        \* EXPIRY_DAYS, as a time
    PurgeWindows,  \* the older_than_days arguments, as times
    Skew,          \* _MAX_CLOCK_SKEW_S
    RawCap,        \* RAW_EVENT_CAP
    MaxEvents,     \* bound: events ingested
    MaxTime        \* bound: the last value of the clock

ASSUME StoreAssumption ==
    /\ Hour \in Nat \ {0}
    /\ Window \in Nat
    /\ PurgeWindows \subseteq Nat
    /\ Skew \in Nat
    /\ RawCap \in Nat
    /\ MaxEvents \in Nat
    /\ MaxTime \in Nat

VARIABLES
    now,           \* int(time.time())
    groups,        \* fingerprints with a row in error_groups
    status,        \* error_groups.status
    marks,         \* which of muted_by, resolved_by is not null
    lastSeen,      \* error_groups.last_seen
    occurrences,   \* rows of occurrences
    lastId,        \* the AUTOINCREMENT high-water mark of occurrences
    hourCount,     \* server_hour_counts.count, 0 without a row
    swept          \* the latest cutoff a sweep has used (a history variable)

vars == <<now, groups, status, marks, lastSeen, occurrences, lastId, hourCount, swept>>

Statuses == {"active", "muted", "resolved"}
Stamps == 0..(MaxTime + Skew)

Occurrence ==
    [id: 1..MaxEvents, group: Groups, server: Servers, timestamp: Stamps, raw: BOOLEAN]

TypeOK ==
    /\ now \in 0..MaxTime
    /\ groups \in SUBSET Groups
    /\ status \in [Groups -> Statuses]
    /\ marks \in [Groups -> SUBSET {"muted", "resolved"}]
    /\ lastSeen \in [Groups -> Stamps]
    /\ occurrences \in SUBSET Occurrence
    /\ lastId \in 0..MaxEvents
    /\ hourCount \in [Groups \X Servers \X Stamps -> 0..MaxEvents]
    /\ swept \in 0..MaxTime

Init ==
    /\ now = 0
    /\ groups = {}
    /\ status = [g \in Groups |-> "active"]
    /\ marks = [g \in Groups |-> {}]
    /\ lastSeen = [g \in Groups |-> 0]
    /\ occurrences = {}
    /\ lastId = 0
    /\ hourCount = [k \in Groups \X Servers \X Stamps |-> 0]
    /\ swept = 0
-----------------------------------------------------------------------------
(* Ingest: the clamped time selects the bucket, the bucket's new count      *)
(* decides whether the payload is kept, and last_seen takes the event's    *)
(* time even when it is older than what the group has seen.                *)

BugClamp(t) == IF t <= now + Skew THEN t ELSE now + Skew + 1
Clamp(t) == IF t <= now + Skew THEN t ELSE now + Skew

HourOf(t) == t - (t % Hour)

BugKeepsRaw(n, fits) == n <= RawCap + 1 /\ fits
KeepsRaw(n, fits) == n <= RawCap /\ fits

Ingest(g, s, t, fits) ==
    LET stamp == Clamp(t)
        bucket == <<g, s, HourOf(stamp)>>
        row == [id |-> lastId + 1, group |-> g, server |-> s, timestamp |-> stamp,
                raw |-> KeepsRaw(hourCount[bucket] + 1, fits)]
    IN  /\ lastId < MaxEvents
        /\ groups' = groups \cup {g}
        /\ lastSeen' = [lastSeen EXCEPT ![g] = stamp]
        /\ hourCount' = [hourCount EXCEPT ![bucket] = @ + 1]
        /\ occurrences' = occurrences \cup {row}
        /\ lastId' = lastId + 1
        /\ UNCHANGED <<now, status, marks, swept>>
-----------------------------------------------------------------------------
(* A user marks a group; an unknown fingerprint updates no row.            *)

Mark(g, st) ==
    /\ g \in groups
    /\ status' = [status EXCEPT ![g] = st]
    /\ marks' = [marks EXCEPT ![g] = @ \cup {st}]
    /\ UNCHANGED <<now, groups, lastSeen, occurrences, lastId, hourCount, swept>>

MuteGroup(g) == Mark(g, "muted")
ResolveGroup(g) == Mark(g, "resolved")

BugUnmarked(m) == m \ {"muted"}
Unmarked(m) == {}

UnmuteGroup(g) ==
    /\ g \in groups
    /\ status' = [status EXCEPT ![g] = "active"]
    /\ marks' = [marks EXCEPT ![g] = Unmarked(@)]
    /\ UNCHANGED <<now, groups, lastSeen, occurrences, lastId, hourCount, swept>>
-----------------------------------------------------------------------------
(* Deleting groups: nothing of a deleted row is left, and the two child    *)
(* tables cascade.  Purges delete groups only; expiry also sweeps the      *)
(* children that are older than the cutoff now - w.                        *)

DeleteGroups(gone) ==
    /\ groups' = groups \ gone
    /\ status' = [g \in Groups |-> IF g \in gone THEN "active" ELSE status[g]]
    /\ marks' = [g \in Groups |-> IF g \in gone THEN {} ELSE marks[g]]
    /\ lastSeen' = [g \in Groups |-> IF g \in gone THEN 0 ELSE lastSeen[g]]

BugExpired(t, w) == t + w <= now
Expired(t, w) == t + w < now

BugHourExpired(b, w) == b + Hour + w < now
HourExpired(b, w) == b + w < now

RunExpiry(w) ==
    LET gone == {g \in groups : lastSeen[g] + w < now}
    IN  /\ DeleteGroups(gone)
        /\ occurrences' =
             {o \in occurrences : ~Expired(o.timestamp, w) /\ o.group \notin gone}
        /\ hourCount' = [k \in DOMAIN hourCount |->
             IF HourExpired(k[3], w) \/ k[1] \in gone THEN 0 ELSE hourCount[k]]
        /\ swept' = IF swept + w < now THEN now - w ELSE swept
        /\ UNCHANGED <<now, lastId>>

Purge(gone) ==
    /\ gone # {}
    /\ DeleteGroups(gone)
    /\ occurrences' = {o \in occurrences : o.group \notin gone}
    /\ hourCount' = [k \in DOMAIN hourCount |-> IF k[1] \in gone THEN 0 ELSE hourCount[k]]
    /\ UNCHANGED <<now, lastId, swept>>

SendersOf(g) == {o.server : o \in {p \in occurrences : p.group = g}}

PurgeServer(s) == Purge({g \in groups : SendersOf(g) = {s}})

PurgeByStatus(st) == Purge({g \in groups : status[g] = st})

Tick ==
    /\ now < MaxTime
    /\ now' = now + 1
    /\ UNCHANGED <<groups, status, marks, lastSeen, occurrences, lastId, hourCount, swept>>
-----------------------------------------------------------------------------
Next ==
    \/ \E g \in Groups, s \in Servers, t \in 0..(MaxTime + Skew + 1), fits \in BOOLEAN :
          Ingest(g, s, t, fits)
    \/ \E g \in Groups : MuteGroup(g)
    \/ \E g \in Groups : ResolveGroup(g)
    \/ \E g \in Groups : UnmuteGroup(g)
    \/ \E w \in {Window} \cup PurgeWindows : RunExpiry(w)
    \/ \E s \in Servers : PurgeServer(s)
    \/ \E st \in {"muted", "resolved"} : PurgeByStatus(st)
    \/ Tick

Spec == Init /\ [][Next]_vars
-----------------------------------------------------------------------------
Held(g, s, b) ==
    {o \in occurrences : o.group = g /\ o.server = s /\ HourOf(o.timestamp) = b}

(* A group always keeps the occurrence its last_seen names, so its details *)
(* have a latest message and /purge server: can find it: the sweep of the  *)
(* occurrences and the sweep of the groups agree on the boundary.          *)
LastSeenWitnessed ==
    \A g \in groups : \E o \in occurrences : o.group = g /\ o.timestamp = lastSeen[g]

(* The aggregate never claims more than the occurrences behind it, and is  *)
(* exact for every hour no sweep has cut into (server_hour_counts, written *)
(* apart from the occurrences and swept by another column).                *)
HourCountsExact ==
    \A g \in Groups, s \in Servers, b \in Stamps :
        /\ hourCount[<<g, s, b>>] <= Cardinality(Held(g, s, b))
        /\ b >= swept => hourCount[<<g, s, b>>] = Cardinality(Held(g, s, b))

(* At most RAW_EVENT_CAP payloads are kept per group, server and hour, for *)
(* every hour no sweep has cut into, at whatever times events arrive.      *)
RawCapped ==
    \A g \in Groups, s \in Servers, b \in Stamps :
        b >= swept => Cardinality({o \in Held(g, s, b) : o.raw}) <= RawCap

(* muted_by and resolved_by tell the truth: the status of a group is one   *)
(* it is attributed for, an active group has no attribution left, and none *)
(* is inherited from a deleted group of the same fingerprint.              *)
Attributed ==
    \A g \in Groups :
        IF status[g] = "active" THEN marks[g] = {} ELSE g \in groups /\ status[g] \in marks[g]

(* SCHEMA.md, expiry: "Delete groups not seen within the window".  A sweep *)
(* deletes no group that still has an occurrence inside the window.        *)
OnlyUnseenExpire ==
    [][\A w \in {Window} \cup PurgeWindows : RunExpiry(w) =>
          \A g \in groups \ groups', o \in occurrences :
              o.group = g => Expired(o.timestamp, w)]_vars
=============================================================================
