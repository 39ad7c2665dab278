---------------------------- MODULE FixReactions ----------------------------
(***************************************************************************)
(* What Discord shows and tells of the fix attempts of one group: the      *)
(* wrench a user adds, the working reaction while an attempt is in flight, *)
(* the outcome reaction and the message to the requester.  A handler       *)
(* changes the table at once; Discord follows in tasks nobody waits for,   *)
(* which interleave at every await and die with the process.  The table is *)
(* that of FixQueue, without the clock, the order of the claims and the    *)
(* renaming of groups: groups share neither attempts nor messages.         *)
(* A definition named Bug... is a mutated form of the definition after it. *)
(***************************************************************************)
EXTENDS Naturals, FiniteSets

CONSTANTS
    Jobs,          \* the attempts that may be queued for the group
    None,          \* the job of a wrench that queued nothing
    MaxMessages,   \* bound: messages posted for the group, 1..n
    Reports,       \* bound: the outcomes Chisel reports
    MaxEnds,       \* bound: reports, timeouts and cancels of all attempts
    MaxWrenches,   \* bound: wrenches added
    MaxFaults      \* bound: failed calls, broken tasks and restarts

ASSUME ReactionsAssumption ==
    /\ None \notin Jobs
    /\ Reports \subseteq {"success", "failure", "declined"}
    /\ {MaxMessages, MaxEnds, MaxWrenches, MaxFaults} \subseteq Nat

VARIABLES
    status,        \* fix_attempts.status, "none" before the row exists
    handed,        \* attempts a poll has returned (Chisel's knowledge)
    live,          \* does the group have a row in error_groups?
    messageId,     \* its discord_message_id, 0 if NULL
    posted,        \* messages posted so far
    emojis,        \* the reactions on each message
    wrenches,      \* wrenches added so far
    tasks,         \* the handlers that have still to work on Discord
    ends,          \* how often each attempt was reported, timed out or cancelled
    ended,         \* how often any was (for the bound)
    results,       \* what it was reported to be, each time (history)
    untold,        \* ends whose requester was not told, and nothing failed (history)
    faults,        \* failed calls, broken tasks and restarts so far
    lapsed,        \* messages whose working reaction a failed, dropped or
                   \* belated step may have left wrong (history)
    missed         \* messages whose wrench handler failed or was dropped (history)

table   == <<status, handed>>
group   == <<live, messageId, posted>>
history == <<ends, ended, results, untold>>
vars    == <<table, group, emojis, wrenches, tasks, history, faults, lapsed, missed>>

Active   == {"pending", "running"}
Reported == {"success", "failure", "declined"}
Outcomes == Reported \cup {"cancelled"}
Emojis   == {"wrench", "working"} \cup Reported

(* A task: a wrench's handler ("swap"), add_fix_working_reaction ("mark"), *)
(* or on_fix_attempt_completed for the nth end of an attempt ("finish").   *)
Task(kind, j, nth, result, tell, m) ==
    [kind |-> kind, job |-> j, nth |-> nth, result |-> result, tell |-> tell, on |-> m, at |-> "start"]

TypeOK ==
    /\ status \in [Jobs -> {"none"} \cup Active \cup Outcomes] /\ handed \subseteq Jobs
    /\ live \in BOOLEAN
    /\ posted \in 0..MaxMessages /\ messageId \in 0..posted
    /\ messageId # 0 => live
    /\ emojis \in [1..MaxMessages -> SUBSET Emojis]
    /\ wrenches \in 0..MaxWrenches
    /\ tasks \subseteq [kind: {"swap", "mark", "finish"}, job: Jobs \cup {None}, nth: 0..MaxEnds,
                        result: Outcomes \cup {"none"}, tell: BOOLEAN, on: 0..posted,
                        at: {"start", "clear", "add", "outcome", "tell"}]
    /\ \A t, u \in tasks : t.kind = u.kind /\ t.job = u.job /\ t.nth = u.nth /\ t.job # None => t = u
    /\ ended \in 0..MaxEnds
    /\ ends \in [Jobs -> 0..MaxEnds] /\ results \in [Jobs -> SUBSET Outcomes]
    /\ untold \in [Jobs -> 0..MaxEnds]
    /\ faults \in 0..MaxFaults
    /\ lapsed \subseteq 1..posted /\ missed \subseteq 1..posted

Init ==
    /\ status = [j \in Jobs |-> "none"] /\ handed = {}
    /\ live = FALSE /\ messageId = 0 /\ posted = 0
    /\ emojis = [m \in 1..MaxMessages |-> {}] /\ wrenches = 0
    /\ tasks = {}
    /\ ended = 0
    /\ ends = [j \in Jobs |-> 0] /\ results = [j \in Jobs |-> {}] /\ untold = [j \in Jobs |-> 0]
    /\ faults = 0 /\ lapsed = {} /\ missed = {}

IsActive(j) == status[j] \in Active
HasActive == \E j \in Jobs : IsActive(j)
-----------------------------------------------------------------------------
(* The table changes, and tasks are created. *)

(* request_fix *)
RequestFix(j) ==
    /\ live /\ ~HasActive
    /\ status[j] = "none"
    /\ status' = [status EXCEPT ![j] = "pending"]

(* POST /api/groups/<id>/fix *)
ApiRequest(j) ==
    /\ RequestFix(j)
    /\ tasks' = tasks \cup {Task("mark", j, 0, "none", FALSE, 0)}
    /\ UNCHANGED <<handed, group, emojis, wrenches, history, faults, lapsed, missed>>

(* A user adds the wrench to the group's message. *)
AddWrench ==
    /\ wrenches < MaxWrenches /\ messageId # 0
    /\ wrenches' = wrenches + 1
    /\ emojis' = [emojis EXCEPT ![messageId] = @ \cup {"wrench"}]
    /\ tasks' = tasks \cup {Task("swap", None, 0, "none", FALSE, messageId)}
    /\ UNCHANGED <<table, group, history, faults, lapsed, missed>>

(* Its handler runs: the attempt is queued, or it is not because the user  *)
(* is not allowed, an attempt is active or the prompt cannot be read.      *)
BugRefused(t) == {}
Refused(t) == {[t EXCEPT !.at = "clear"]}

HandleWrench(t) ==
    /\ t.kind = "swap" /\ t.at = "start"
    /\ \/ /\ messageId = t.on
          /\ \E j \in Jobs : RequestFix(j) /\ tasks' = (tasks \ {t}) \cup {[t EXCEPT !.job = j, !.at = "clear"]}
          /\ UNCHANGED missed
       \/ /\ messageId = t.on
          /\ tasks' = (tasks \ {t}) \cup Refused(t)
          /\ UNCHANGED <<status, missed>>
       \/ /\ messageId # t.on
          /\ tasks' = tasks \ {t} /\ missed' = missed \cup {t.on}
          /\ UNCHANGED status
    /\ UNCHANGED <<handed, group, emojis, wrenches, history, faults, lapsed>>

Claim(j) ==
    /\ status[j] = "pending"
    /\ status' = [status EXCEPT ![j] = "running"]
    /\ handed' = handed \cup {j}
    /\ UNCHANGED <<group, emojis, wrenches, tasks, history, faults, lapsed, missed>>

(* An attempt ends, once more, with a result; tell is whether a requester  *)
(* is to be told.                                                          *)
Ends(j, result, tell) ==
    /\ ended < MaxEnds /\ ended' = ended + 1
    /\ ends' = [ends EXCEPT ![j] = @ + 1]
    /\ results' = [results EXCEPT ![j] = @ \cup {result}]
    /\ untold' = IF tell THEN [untold EXCEPT ![j] = @ + 1] ELSE untold
    /\ tasks' = tasks \cup {Task("finish", j, ends[j] + 1, result, tell, 0)}
    /\ UNCHANGED <<handed, group, emojis, wrenches, faults, lapsed, missed>>

Report(j, result) ==
    /\ j \in handed /\ status[j] # "cancelled"
    /\ status' = [status EXCEPT ![j] = result]
    /\ Ends(j, result, TRUE)

(* When an attempt is stale is FixQueue's subject: here, any time. *)
TimeOut(j) ==
    /\ IsActive(j)
    /\ status' = [status EXCEPT ![j] = "failure"]
    /\ Ends(j, "failure", TRUE)

(* The caller of a cancel is told by the response; a requester who is      *)
(* somebody else gets a message.  A cancel that finds the attempt claimed, *)
(* ended or cancelled answers 409 and changes nothing.                     *)
BugWithdraws(j) == status[j] \in {"pending", "cancelled"}
Withdraws(j) == status[j] = "pending"

Cancel(j, byRequester) ==
    /\ Withdraws(j)
    /\ status' = [status EXCEPT ![j] = "cancelled"]
    /\ Ends(j, "cancelled", ~byRequester)
-----------------------------------------------------------------------------
(* The group and its message. *)

GroupAppears ==
    /\ ~live /\ live' = TRUE
    /\ UNCHANGED <<table, messageId, posted, emojis, wrenches, tasks, history, faults, lapsed, missed>>

PostMessage ==
    /\ live /\ messageId = 0 /\ posted < MaxMessages
    /\ posted' = posted + 1 /\ messageId' = posted + 1
    /\ UNCHANGED <<table, live, emojis, wrenches, tasks, history, faults, lapsed, missed>>

(* By expiry or a purge.  A later group of the fingerprint has the attempts.*)
GroupVanishes ==
    /\ live
    /\ live' = FALSE /\ messageId' = 0
    /\ UNCHANGED <<table, posted, emojis, wrenches, tasks, history, faults, lapsed, missed>>

MessageOf(t) == IF t.on # 0 THEN t.on ELSE messageId
Lapses(t) == IF t.job = None THEN {} ELSE {MessageOf(t)} \ {0}

Fault(happens) ==
    /\ happens => faults < MaxFaults
    /\ faults' = IF happens THEN faults + 1 ELSE faults

Pending(j) == Cardinality({t \in tasks : t.job = j /\ t.tell})

(* The tasks die with the process. *)
Restart ==
    /\ Fault(TRUE)
    /\ tasks' = {}
    /\ untold' = [j \in Jobs |-> untold[j] - Pending(j)]
    /\ lapsed' = lapsed \cup UNION {Lapses(t) : t \in tasks}
    /\ missed' = missed \cup {t.on : t \in {u \in tasks : u.kind = "swap"}}
    /\ UNCHANGED <<table, group, emojis, wrenches, ends, ended, results>>
-----------------------------------------------------------------------------
(* The tasks' calls to Discord.  A call succeeds, or fails with an error   *)
(* the handler catches, or with one it does not (the connection's), which  *)
(* ends the task.                                                          *)

Becomes(t, next) == tasks' = (tasks \ {t}) \cup next
To(t, stage) == {[t EXCEPT !.at = stage]}
Reacts(t, set) == emojis' = [emojis EXCEPT ![t.on] = set]

(* The wrench is removed, then the working reaction added if queued.  No   *)
(* message, no reaction; a wrench that cannot be removed does not keep the *)
(* working reaction from being added.                                      *)
AfterWrench(t) == IF t.job = None THEN {} ELSE To(t, "add")

ClearWrench(t, ok) ==
    /\ t.kind = "swap" /\ t.at = "clear"
    /\ \/ /\ ok
          /\ Becomes(t, AfterWrench(t)) /\ Reacts(t, emojis[t.on] \ {"wrench"})
          /\ UNCHANGED <<lapsed, missed>>
       \/ /\ ~ok
          /\ \/ Becomes(t, AfterWrench(t)) /\ UNCHANGED lapsed
             \/ Becomes(t, {}) /\ lapsed' = lapsed \cup {t.on}
          /\ missed' = missed \cup {t.on} /\ UNCHANGED emojis
    /\ UNCHANGED untold

(* add_fix_working_reaction reads the message when it starts. *)
StartMark(t) ==
    /\ t.kind = "mark" /\ t.at = "start"
    /\ LET m == MessageOf(t) IN Becomes(t, IF m = 0 THEN {} ELSE {[t EXCEPT !.at = "add", !.on = m]})
    /\ UNCHANGED <<emojis, untold, lapsed, missed>>

(* Whether the attempt is still in flight is not asked again. *)
AddWorking(t, ok) ==
    /\ t.kind \in {"swap", "mark"} /\ t.at = "add"
    /\ Becomes(t, {})
    /\ IF ok THEN Reacts(t, emojis[t.on] \cup {"working"}) ELSE UNCHANGED emojis
    /\ lapsed' = IF ok /\ IsActive(t.job) THEN lapsed ELSE lapsed \cup {t.on}
    /\ UNCHANGED <<untold, missed>>

(* on_fix_attempt_completed.  Tasks start in the order they were created.  *)
Shown(t) == IF t.tell THEN To(t, "tell") ELSE {}

StartFinish(t) ==
    /\ t.kind = "finish" /\ t.at = "start"
    /\ ~\E u \in tasks : u.kind = "mark" /\ u.at = "start" /\ u.job = t.job
    /\ LET m == MessageOf(t) IN Becomes(t, IF m = 0 THEN Shown(t) ELSE {[t EXCEPT !.at = "clear", !.on = m]})
    /\ UNCHANGED <<emojis, untold, lapsed, missed>>

(* A cancelled job never ran: no outcome. *)
BugAnyOutcome(t) == {t.result}
BugOutcome(t) == {IF t.result = "cancelled" THEN "failure" ELSE t.result}
Outcome(t) == {t.result} \cap Reported

BugClears(t) == Outcome(t) # {}
Clears(t) == TRUE

BugFetchFails(t) == {}
FetchFails(t) == Shown(t)

AfterClear(t) == IF Outcome(t) = {} THEN Shown(t) ELSE To(t, "outcome")

ClearWorking(t, ok) ==
    /\ t.kind = "finish" /\ t.at = "clear"
    /\ IF ok /\ Clears(t)
       THEN /\ Becomes(t, AfterClear(t)) /\ Reacts(t, emojis[t.on] \ {"working"})
            /\ lapsed' = lapsed \ {t.on}
       ELSE /\ Becomes(t, AfterClear(t)) \/ (~ok /\ Becomes(t, FetchFails(t)))
            /\ lapsed' = IF ok THEN lapsed ELSE lapsed \cup {t.on}
            /\ UNCHANGED emojis
    /\ UNCHANGED <<untold, missed>>

AddOutcome(t, ok) ==
    /\ t.kind = "finish" /\ t.at = "outcome"
    /\ Becomes(t, Shown(t))
    /\ IF ok THEN Reacts(t, emojis[t.on] \cup Outcome(t)) ELSE UNCHANGED emojis
    /\ UNCHANGED <<untold, lapsed, missed>>

Tell(t, ok) ==
    /\ t.kind = "finish" /\ t.at = "tell"
    /\ Becomes(t, {})
    /\ untold' = [untold EXCEPT ![t.job] = @ - 1]
    /\ UNCHANGED <<emojis, lapsed, missed>>

Breaks(t) ==
    /\ t.at # "start"
    /\ Becomes(t, {})
    /\ lapsed' = IF t.job # None /\ t.at \in {"clear", "add"} THEN lapsed \cup Lapses(t) ELSE lapsed
    /\ missed' = IF t.kind = "swap" /\ t.at = "clear" THEN missed \cup {t.on} ELSE missed
    /\ untold' = IF t.tell THEN [untold EXCEPT ![t.job] = @ - 1] ELSE untold
    /\ UNCHANGED emojis

TaskStep(t) ==
    /\ \/ (StartMark(t) \/ StartFinish(t)) /\ Fault(FALSE)
       \/ Breaks(t) /\ Fault(TRUE)
       \/ \E ok \in BOOLEAN :
             /\ ClearWrench(t, ok) \/ AddWorking(t, ok) \/ ClearWorking(t, ok) \/ AddOutcome(t, ok) \/ Tell(t, ok)
             /\ Fault(~ok)
    /\ UNCHANGED <<table, group, wrenches, ends, ended, results>>
-----------------------------------------------------------------------------
Next ==
    \/ \E j \in Jobs : ApiRequest(j) \/ Claim(j) \/ TimeOut(j)
    \/ \E j \in Jobs, result \in Reports : Report(j, result)
    \/ \E j \in Jobs, byRequester \in BOOLEAN : Cancel(j, byRequester)
    \/ \E t \in tasks : HandleWrench(t) \/ TaskStep(t)
    \/ AddWrench \/ GroupAppears \/ PostMessage \/ GroupVanishes \/ Restart

Spec == Init /\ [][Next]_vars
-----------------------------------------------------------------------------
(* A working reaction on the group's message means that an attempt is in   *)
(* flight or that its removal is under way: nothing else can leave one     *)
(* behind than a call to Discord that failed, a restart, or an addition    *)
(* that came after the attempt had ended.                                  *)
NoneLingers ==
    messageId # 0 /\ "working" \in emojis[messageId] =>
        \/ HasActive \/ messageId \in lapsed
        \/ \E t \in tasks : t.kind = "finish" /\ messageId = MessageOf(t)

(* An outcome on a message is one an attempt of the group really had,      *)
(* however reports, timeouts and cancels race, and a cancel shows none.    *)
OutcomeEarned ==
    \A m \in 1..MaxMessages :
        emojis[m] \cap Reported \subseteq UNION {results[j] : j \in Jobs}

(* Whatever goes wrong with the reactions, the requester is told of every  *)
(* end: only a failed message, a broken task or a restart loses one.       *)
EveryEndTold == \A j \in Jobs : untold[j] = Pending(j)

(* An attempt that was cancelled has one end, although cancels, polls and  *)
(* the timeout race for it: its requester is told at most once.            *)
CancelledOnce ==
    \A j \in Jobs : status[j] = "cancelled" => ends[j] = 1 /\ results[j] = {"cancelled"}

(* "The wrench reaction is always removed regardless of outcome": whatever *)
(* comes of the request, a wrench is there only while its handler is under *)
(* way, unless a step of it failed or was dropped.                         *)
WrenchGoes ==
    \A m \in 1..MaxMessages : "wrench" \in emojis[m] =>
        m \in missed \/ \E t \in tasks : t.kind = "swap" /\ t.on = m /\ t.at \in {"start", "clear"}
=============================================================================
