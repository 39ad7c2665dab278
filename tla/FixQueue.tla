------------------------------ MODULE FixQueue ------------------------------
(***************************************************************************)
(* The Chisel fix queue of the tracker server: the table fix_attempts and  *)
(* every handler that writes it.  The server is one asyncio event loop     *)
(* over one synchronous SQLite connection, so the code between two awaits  *)
(* is one step; a cancel awaits Discord between its checks and its UPDATE  *)
(* and is therefore two.  Attempts are requested by the wrench reaction or *)
(* the API, claimed by Chisel's poll, reported by its callback (which may  *)
(* be late, repeated or never come), cancelled while pending, timed out by *)
(* the hourly loop, and re-addressed when a restart re-fingerprints their  *)
(* groups.  A definition named Bug... is a mutated form of the definition   *)
(* after it: no action uses it, the properties are tested against it.      *)
(***************************************************************************)
EXTENDS Naturals, FiniteSets

CONSTANTS
    Jobs,          \* the attempts that may be queued (job_id, a fresh UUID each)
    Fingerprints,  \* the group fingerprints the rules can compute
    NewFp,         \* NewFp[g]: what a restart's rules may compute for group g
    None,          \* the fingerprint of an attempt not queued yet
    Timeout,       \* age after which an attempt is stale (3600 s)
    QueueBy,       \* bound: no attempt is queued later than this
    MaxTime        \* bound: the last value of the clock

ASSUME ConstantsAssumption ==
    /\ None \notin Fingerprints
    /\ NewFp \in [Fingerprints -> (SUBSET Fingerprints) \ {{}}]
    /\ Timeout \in Nat
    /\ QueueBy \in Nat
    /\ MaxTime \in Nat

VARIABLES
    now,           \* int(time.time())
    live,          \* fingerprints that have a row in error_groups
    status,        \* fix_attempts.status, "none" before the row exists
    fingerprint,   \* fix_attempts.fingerprint
    queuedAt,      \* fix_attempts.queued_at
    message,       \* who wrote fix_attempts.message last
    handed,        \* attempts a poll has returned (a history variable)
    cancelling,    \* cancel requests suspended in `await _resolve_actor`
    migrating      \* rows the startup migration has still to visit

attempt == <<status, fingerprint, queuedAt, message>>
vars == <<now, live, attempt, handed, cancelling, migrating>>

Active   == {"pending", "running"}
Reported == {"success", "failure", "declined"}
Statuses == {"none", "cancelled"} \cup Active \cup Reported
Writers  == {"nobody", "chisel", "timeout", "canceller"}

TypeOK ==
    /\ now \in Nat
    /\ live \in SUBSET Fingerprints
    /\ status \in [Jobs -> Statuses]
    /\ fingerprint \in [Jobs -> Fingerprints \cup {None}]
    /\ queuedAt \in [Jobs -> Nat]
    /\ message \in [Jobs -> Writers]
    /\ handed \in SUBSET Jobs
    /\ cancelling \in SUBSET Jobs
    /\ migrating \in SUBSET Fingerprints

Init ==
    /\ now = 0
    /\ live = {}
    /\ status = [j \in Jobs |-> "none"]
    /\ fingerprint = [j \in Jobs |-> None]
    /\ queuedAt = [j \in Jobs |-> 0]
    /\ message = [j \in Jobs |-> "nobody"]
    /\ handed = {}
    /\ cancelling = {}
    /\ migrating = {}

(* main() migrates before it starts the HTTP server, the bot or the loop. *)
Serving == migrating = {}

IsActive(j) == status[j] \in Active
-----------------------------------------------------------------------------
(* Requesting: request_fix, shared by the reaction and the API route.      *)

BugHasQueued(g) == \E j \in Jobs : fingerprint[j] = g /\ status[j] = "pending"
HasActive(g) == \E j \in Jobs : fingerprint[j] = g /\ IsActive(j)

BugInsertAttempt(j, g) ==
    /\ status' = [status EXCEPT ![j] = "queued"]
    /\ fingerprint' = [fingerprint EXCEPT ![j] = g]
    /\ queuedAt' = [queuedAt EXCEPT ![j] = now]
InsertAttempt(j, g) ==
    /\ status' = [status EXCEPT ![j] = "pending"]
    /\ fingerprint' = [fingerprint EXCEPT ![j] = g]
    /\ queuedAt' = [queuedAt EXCEPT ![j] = now]

RequestFix(j, g) ==
    /\ Serving
    /\ status[j] = "none" /\ now <= QueueBy
    /\ ~HasActive(g)
    /\ g \in live
    /\ InsertAttempt(j, g)
    /\ UNCHANGED <<now, live, message, handed, cancelling, migrating>>
-----------------------------------------------------------------------------
(* Claiming: the poll.  Its response may be lost: then no callback comes.  *)

BugAnyPending(j) == status[j] = "pending"
OldestPending(j) ==
    /\ status[j] = "pending"
    /\ \A k \in Jobs : status[k] = "pending" => queuedAt[j] <= queuedAt[k]

ClaimAttempt(j) ==
    /\ Serving
    /\ OldestPending(j)
    /\ status' = [status EXCEPT ![j] = "running"]
    /\ handed' = handed \cup {j}
    /\ UNCHANGED <<now, live, fingerprint, queuedAt, message, cancelling, migrating>>
-----------------------------------------------------------------------------
(* Reporting: Chisel's callback, at any time after the claim, any number   *)
(* of times.  It overwrites whatever the row holds, unless cancelled.      *)

CompleteAttempt(j, result) ==
    /\ status[j] # "cancelled"
    /\ status' = [status EXCEPT ![j] = result]
    /\ message' = [message EXCEPT ![j] = "chisel"]

Callback(j, result) ==
    /\ Serving
    /\ j \in handed
    /\ CompleteAttempt(j, result)
    /\ UNCHANGED <<now, live, fingerprint, queuedAt, handed, cancelling, migrating>>
-----------------------------------------------------------------------------
(* Cancelling: the checks, an await on Discord, then an UPDATE that decides *)
(* by the status it finds.                                                 *)

BugCancelChecked(j) ==
    /\ status' = [status EXCEPT ![j] = "cancelled"]
    /\ message' = [message EXCEPT ![j] = "canceller"]
CancelAttempt(j) ==
    IF status[j] = "pending"
    THEN /\ status' = [status EXCEPT ![j] = "cancelled"]
         /\ message' = [message EXCEPT ![j] = "canceller"]
    ELSE UNCHANGED <<status, message>>

CancelRequest(j) ==
    /\ Serving
    /\ status[j] # "none"
    /\ cancelling' = cancelling \cup {j}
    /\ UNCHANGED <<now, live, attempt, handed, migrating>>

CancelResume(j) ==
    /\ Serving
    /\ j \in cancelling
    /\ CancelAttempt(j)
    /\ cancelling' = cancelling \ {j}
    /\ UNCHANGED <<now, live, fingerprint, queuedAt, handed, migrating>>
-----------------------------------------------------------------------------
(* Timing out: the hourly loop, by age since queued.                       *)

BugIsOld(j) == status[j] # "none" /\ queuedAt[j] + Timeout < now
BugIsStaleClaim(j) == status[j] = "running" /\ queuedAt[j] + Timeout < now
IsStale(j) == IsActive(j) /\ queuedAt[j] + Timeout < now

TimeoutStale ==
    /\ Serving
    /\ \E j \in Jobs : IsStale(j)
    /\ status' = [j \in Jobs |-> IF IsStale(j) THEN "failure" ELSE status[j]]
    /\ message' = [j \in Jobs |-> IF IsStale(j) THEN "timeout" ELSE message[j]]
    /\ UNCHANGED <<now, live, fingerprint, queuedAt, handed, cancelling, migrating>>
-----------------------------------------------------------------------------
(* The groups the attempts are for.  Attempts are no foreign key: they     *)
(* outlive their group, and meet a later group of the same fingerprint.    *)

GroupAppears(g) ==
    /\ Serving
    /\ g \notin live
    /\ live' = live \cup {g}
    /\ UNCHANGED <<now, attempt, handed, cancelling, migrating>>

GroupVanishes(g) ==
    /\ Serving
    /\ g \in live
    /\ live' = live \ {g}
    /\ UNCHANGED <<now, attempt, handed, cancelling, migrating>>

(* A restart drops the suspended requests; the table survives.  Migration  *)
(* then visits every group once, in no stated order, in one transaction.   *)
Restart ==
    /\ Serving
    /\ cancelling' = {}
    /\ migrating' = live
    /\ UNCHANGED <<now, live, attempt, handed>>

(* Group g is renamed n, or merged into the group that already is n; its   *)
(* attempts are re-addressed either way.                                   *)
MigrateGroup(g, n) ==
    /\ g \in migrating
    /\ n \in NewFp[g]
    /\ live' = (live \ {g}) \cup {n}
    /\ fingerprint' = [j \in Jobs |-> IF fingerprint[j] = g THEN n ELSE fingerprint[j]]
    /\ migrating' = migrating \ {g}
    /\ UNCHANGED <<now, status, queuedAt, message, handed, cancelling>>

Tick ==
    /\ now < MaxTime
    /\ now' = now + 1
    /\ UNCHANGED <<live, attempt, handed, cancelling, migrating>>
-----------------------------------------------------------------------------
Next ==
    \/ \E j \in Jobs, g \in Fingerprints : RequestFix(j, g)
    \/ \E j \in Jobs : ClaimAttempt(j)
    \/ \E j \in Jobs, result \in Reported : Callback(j, result)
    \/ \E j \in Jobs : CancelRequest(j)
    \/ \E j \in Jobs : CancelResume(j)
    \/ TimeoutStale
    \/ \E g \in Fingerprints : GroupAppears(g)
    \/ \E g \in Fingerprints : GroupVanishes(g)
    \/ Restart
    \/ \E g, n \in Fingerprints : MigrateGroup(g, n)
    \/ Tick

Spec == Init /\ [][Next]_vars

(* The clock advances, a migration ends, and the loop sweeps: strongly fair *)
(* because every start of the server begins with a sweep, so restarts can  *)
(* interrupt the hourly rhythm but not skip it forever.  No user, and not  *)
(* Chisel, is obliged to do anything.                                      *)
Fairness ==
    /\ WF_vars(Tick)
    /\ SF_vars(TimeoutStale)
    /\ WF_vars(\E g, n \in Fingerprints : MigrateGroup(g, n))

FairSpec == Spec /\ Fairness
-----------------------------------------------------------------------------
(* A group never has two attempts in flight, whichever surface asked and   *)
(* however requests, expiry, recreation of the group and restarts          *)
(* interleave (request_fix's check, SCHEMA.md on fix_attempts).            *)
OneActivePerGroup ==
    \A j, k \in Jobs :
        IsActive(j) /\ IsActive(k) /\ fingerprint[j] = fingerprint[k] => j = k

(* "A cancelled job was never handed to Chisel" (complete_fix_attempt):    *)
(* a poll and a cancel that race for one attempt cannot both win.          *)
CancelledNeverHanded == \A j \in handed : status[j] # "cancelled"

(* The poll serves the queue in order: nothing Chisel was given is younger *)
(* than what still waits.                                                  *)
OldestFirst ==
    \A j \in handed, k \in Jobs :
        status[k] = "pending" => queuedAt[j] <= queuedAt[k]

(* "A late real result is better than the timeout", and never the reverse: *)
(* what Chisel reported is not replaced by a timeout or a cancel.          *)
ReportStands ==
    [][\A j \in Jobs : message[j] = "chisel" =>
          message'[j] = "chisel" /\ status'[j] \in Reported]_vars

(* A dead job does not block its group forever: every attempt ends even if *)
(* nobody polls, reports or cancels, and across restarts.                  *)
EveryAttemptEnds == \A j \in Jobs : IsActive(j) ~> ~IsActive(j)
-----------------------------------------------------------------------------
(* Without a change of normalization rules a migration renames nothing,    *)
(* and then each group's attempts are one slot.                            *)
StableRules == \A g \in Fingerprints : NewFp[g] = {g}

SlotOf(g) ==
    IF \E j \in Jobs : fingerprint[j] = g /\ status[j] = "pending" THEN "queued"
    ELSE IF \E j \in Jobs : fingerprint[j] = g /\ status[j] = "running" THEN "working"
    ELSE "free"

Slots == INSTANCE FixSlots WITH slot <- [g \in Fingerprints |-> SlotOf(g)]

(* Seen through the one slot of each group, the table takes, starts and    *)
(* frees slots as FixSlots allows: a late callback never reopens an        *)
(* attempt, and no attempt goes back from running to the queue.            *)
ImplementsSlots == Slots!Spec
=============================================================================
