--------------------------- MODULE DiscordMirror ---------------------------
(***************************************************************************)
(* The Discord channel as a mirror of error_groups: one message per group, *)
(* posted, edited and deleted by asyncio tasks that hold what they read    *)
(* from the database across awaits on Discord.  A task is started by an    *)
(* ingest, a mutation or a removal, or is the step the refresh loop or the *)
(* startup backfill is waiting for.  A group's content is a version        *)
(* number, fresh with every change of the group; a message shows one.      *)
(* A definition named Bug... is a mutated form of the definition after it. *)
(***************************************************************************)
EXTENDS Naturals

CONSTANTS
    Groups,         \* fingerprints
    Spawned,        \* bound: names for the fire-and-forget tasks alive at once
    None,           \* no message, no group
    MaxEditFailures,\* _MAX_EDIT_FAILURES
    Unhandled,      \* may Discord calls raise what their caller does not catch?
    MissingChannel, \* may the configured channel be not found?
    MaxVersion,     \* bound: changes of one group
    MaxMessages,    \* bound: messages ever posted
    MaxRestarts     \* bound: restarts

ASSUME MirrorAssumption ==
    /\ None \notin Groups \cup Nat /\ \A S \in SUBSET Groups : S # None
    /\ {"refresh", "backfill"} \cap Spawned = {}
    /\ MaxEditFailures \in Nat \ {0}
    /\ {Unhandled, MissingChannel} \subseteq BOOLEAN
    /\ MaxVersion \in Nat /\ MaxMessages \in Nat /\ MaxRestarts \in Nat

VARIABLES
    live,           \* groups with a row in error_groups
    messageId,      \* error_groups.discord_message_id
    hasActivity,    \* error_groups.has_activity
    version,        \* the content of the group, as a number
    pendingDeletes, \* pending_discord_deletes
    editFailures,   \* ExceptionBot._edit_failures (lost by a restart)
    gaveUp,         \* groups whose edits were given up (a history variable)
    raced,          \* groups whose calls or changes overlapped (a history variable)
    channel,        \* messages that exist in the Discord channel
    shows,          \* shows[m]: the content of message m
    lastMessage,    \* the last message id Discord has assigned
    task,           \* what each task, and each loop's current call, is at
    loop,           \* where _refresh_loop is
    editQueue,      \* the (group, message) pairs the tick has still to edit
    deleteQueue,    \* the popped messages the tick has still to delete
    backfillQueue,  \* the groups the backfill has still to post, or None
    restarts

database == <<live, messageId, hasActivity, version, pendingDeletes>>
discord  == <<channel, shows, lastMessage>>
memory   == <<editFailures, gaveUp, raced>>
queues   == <<loop, editQueue, deleteQueue, backfillQueue>>
vars     == <<database, discord, memory, task, queues, restarts>>

Tasks    == Spawned \cup {"refresh", "backfill"}
Messages == 1..MaxMessages

Call(op, g, m) == [op |-> op, at |-> "start", group |-> g, message |-> m, copy |-> 0]
Idle           == Call("idle", None, None)
Post(g)        == Call("post", g, None)
Edit(g, m)     == Call("edit", g, m)
Delete(m)      == Call("delete", None, m)

TypeOK ==
    /\ live \in SUBSET Groups
    /\ messageId \in [Groups -> Messages \cup {None}]
    /\ hasActivity \in [Groups -> BOOLEAN]
    /\ version \in [Groups -> 0..MaxVersion]
    /\ pendingDeletes \in SUBSET Messages
    /\ editFailures \in [Groups -> 0..(MaxEditFailures - 1)]
    /\ gaveUp \in SUBSET Groups
    /\ raced \in SUBSET Groups
    /\ channel \in SUBSET Messages
    /\ shows \in [Messages -> 0..MaxVersion]
    /\ lastMessage \in 0..MaxMessages
    /\ task \in [Tasks -> [op: {"idle", "post", "edit", "delete"},
                           at: {"start", "read", "done"},
                           group: Groups \cup {None},
                           message: Messages \cup {None},
                           copy: 0..MaxVersion]]
    /\ loop \in {"asleep", "editing", "deleting", "dead"}
    /\ editQueue \in SUBSET (Groups \X Messages)
    /\ deleteQueue \in SUBSET Messages
    /\ backfillQueue \in {None} \cup SUBSET Groups
    /\ restarts \in 0..MaxRestarts

Init ==
    /\ live = {}
    /\ messageId = [g \in Groups |-> None]
    /\ hasActivity = [g \in Groups |-> FALSE]
    /\ version = [g \in Groups |-> 0]
    /\ pendingDeletes = {}
    /\ editFailures = [g \in Groups |-> 0]
    /\ gaveUp = {}
    /\ raced = {}
    /\ channel = {}
    /\ shows = [m \in Messages |-> 0]
    /\ lastMessage = 0
    /\ task = [t \in Tasks |-> Idle]
    /\ loop = "asleep"
    /\ editQueue = {}
    /\ deleteQueue = {}
    /\ backfillQueue = None
    /\ restarts = 0
-----------------------------------------------------------------------------
(* The handlers that change a group, each one step that may start a task.  *)

Free(t) == t \in Spawned /\ task[t] = Idle
Start(t, call) == Free(t) /\ task' = [task EXCEPT ![t] = call]

(* Nothing keeps the calls and the changes of one group apart.  No guard   *)
(* reads raced: it holds the groups for which a call read the group during *)
(* another call, the row changed during an edit, or the row was inserted   *)
(* anew while a call of the group was in flight, waited, or might come     *)
(* from the backfill.  A change that finds nothing of its group in flight  *)
(* or waiting takes the group out again: its flag starts afresh.           *)
InFlight(g, ops) ==
    \E t \in Tasks : task[t].group = g /\ task[t].op \in ops /\ task[t].at # "start"

Waiting(g) ==
    \/ \E t \in Tasks : task[t].group = g
    \/ \E m \in Messages : <<g, m>> \in editQueue
    \/ backfillQueue = None \/ g \in backfillQueue

Races(g, collides) ==
    raced' = IF collides THEN raced \cup {g}
             ELSE IF Waiting(g) THEN raced ELSE raced \ {g}

Changed(g) ==
    /\ version[g] < MaxVersion
    /\ version' = [version EXCEPT ![g] = @ + 1]
    /\ gaveUp' = gaveUp \ {g}

(* A first occurrence inserts the row and posts. *)
IngestNew(g, t) ==
    /\ g \notin live
    /\ live' = live \cup {g}
    /\ Changed(g)
    /\ Races(g, Waiting(g))
    /\ Start(t, Post(g))
    /\ UNCHANGED <<messageId, hasActivity, pendingDeletes, discord, editFailures, queues, restarts>>

(* A repeat only flags the row: the refresh loop will edit. *)
BugFlagged(g) == [hasActivity EXCEPT ![g] = @ \/ messageId[g] # None]
FlagSet(g) == [hasActivity EXCEPT ![g] = TRUE]

IngestRepeat(g) ==
    /\ g \in live
    /\ Changed(g)
    /\ Races(g, InFlight(g, {"edit"}))
    /\ hasActivity' = FlagSet(g)
    /\ UNCHANGED <<live, messageId, pendingDeletes, discord, editFailures, task, queues, restarts>>

(* A mute, unmute or resolve flags the row and edits its message, if any.  *)
Mutate(g, t) ==
    /\ g \in live
    /\ Changed(g)
    /\ Races(g, InFlight(g, {"edit"}))
    /\ hasActivity' = FlagSet(g)
    /\ IF messageId[g] = None THEN UNCHANGED task ELSE Start(t, Edit(g, messageId[g]))
    /\ UNCHANGED <<live, messageId, pendingDeletes, discord, editFailures, queues, restarts>>

(* Expiry or a purge drops the row and deletes its message, if any.        *)
Remove(g, t) ==
    /\ g \in live
    /\ live' = live \ {g}
    /\ hasActivity' = [hasActivity EXCEPT ![g] = FALSE]
    /\ gaveUp' = gaveUp \ {g}
    /\ messageId' = [messageId EXCEPT ![g] = None]
    /\ IF messageId[g] = None THEN UNCHANGED task ELSE Start(t, Delete(messageId[g]))
    /\ UNCHANGED <<version, pendingDeletes, discord, editFailures, raced, queues, restarts>>
-----------------------------------------------------------------------------
(* The steps of a task.  The group is read when the channel is at hand; a  *)
(* group that is gone by then ends the task.                               *)

Finish(t) == task' = [task EXCEPT ![t] = Idle]
Goes(t, at, m, copy) ==
    task' = [task EXCEPT ![t] = [op |-> @.op, at |-> at, group |-> @.group, message |-> m, copy |-> copy]]

Read(t) ==
    /\ task[t].op \in {"post", "edit"} /\ task[t].at = "start"
    /\ LET g == task[t].group IN
         IF g \in live
         THEN /\ Goes(t, "read", task[t].message, version[g])
              /\ raced' = IF InFlight(g, {"post", "edit"}) THEN raced \cup {g} ELSE raced
         ELSE Finish(t) /\ UNCHANGED raced
    /\ UNCHANGED <<database, discord, editFailures, gaveUp, queues, restarts>>

(* The channel is not found: every call gives up before it reads anything. *)
NoChannel(t) ==
    /\ MissingChannel
    /\ task[t] # Idle /\ task[t].at = "start"
    /\ Finish(t)
    /\ UNCHANGED <<database, discord, memory, queues, restarts>>

(* channel.send: Discord shows the copy under a new id. *)
Send(t) ==
    /\ task[t].op = "post" /\ task[t].at = "read"
    /\ lastMessage < MaxMessages
    /\ lastMessage' = lastMessage + 1
    /\ channel' = channel \cup {lastMessage + 1}
    /\ shows' = [shows EXCEPT ![lastMessage + 1] = task[t].copy]
    /\ Goes(t, "done", lastMessage + 1, 0)
    /\ UNCHANGED <<database, memory, queues, restarts>>

(* The post resumes: set_discord_message_id updates the row, if it is there. *)
PostResume(t) ==
    /\ task[t].op = "post" /\ task[t].at = "done"
    /\ LET g == task[t].group IN
         messageId' = IF g \in live THEN [messageId EXCEPT ![g] = task[t].message] ELSE messageId
    /\ Finish(t)
    /\ UNCHANGED <<live, hasActivity, version, pendingDeletes, discord, memory, queues, restarts>>

(* The post fails, and so may its answer: Discord then keeps a message no  *)
(* row tracks.                                                             *)
PostFails(t) ==
    /\ task[t].op = "post" /\ task[t].at \in {"read", "done"}
    /\ Finish(t)
    /\ UNCHANGED <<database, discord, memory, queues, restarts>>

(* message.edit: Discord shows the copy. *)
EditLands(t) ==
    /\ task[t].op = "edit" /\ task[t].at = "read"
    /\ task[t].message \in channel
    /\ shows' = [shows EXCEPT ![task[t].message] = task[t].copy]
    /\ Goes(t, "done", task[t].message, 0)
    /\ UNCHANGED <<database, channel, lastMessage, memory, queues, restarts>>

(* The edit resumes: the flag is cleared, whatever has happened since.     *)
EditResume(t) ==
    /\ task[t].op = "edit" /\ task[t].at = "done"
    /\ LET g == task[t].group IN
         /\ hasActivity' = [hasActivity EXCEPT ![g] = FALSE]
         /\ editFailures' = [editFailures EXCEPT ![g] = 0]
    /\ Finish(t)
    /\ UNCHANGED <<live, messageId, version, pendingDeletes, discord, gaveUp, raced, queues, restarts>>

(* fetch_message finds no message: the tracked id of the group is cleared. *)
BugUntracked(g) == messageId
Untracked(g) == [messageId EXCEPT ![g] = None]

EditNotFound(t) ==
    /\ task[t].op = "edit" /\ task[t].at = "read"
    /\ task[t].message \notin channel
    /\ LET g == task[t].group IN
         /\ messageId' = Untracked(g)
         /\ editFailures' = [editFailures EXCEPT ![g] = 0]
    /\ Finish(t)
    /\ UNCHANGED <<live, hasActivity, version, pendingDeletes, discord, gaveUp, raced, queues, restarts>>

(* Discord refuses, or its answer does: counted, and given up in the end.  *)
BugLastFailure(n) == n > MaxEditFailures
LastFailure(n) == n >= MaxEditFailures

EditFails(t) ==
    /\ task[t].op = "edit" /\ task[t].at \in {"read", "done"}
    /\ LET g == task[t].group
           n == editFailures[g] + 1
       IN  IF LastFailure(n)
           THEN /\ hasActivity' = [hasActivity EXCEPT ![g] = FALSE]
                /\ editFailures' = [editFailures EXCEPT ![g] = 0]
                /\ gaveUp' = gaveUp \cup ({g} \cap live)
           ELSE /\ editFailures' = [editFailures EXCEPT ![g] = n]
                /\ UNCHANGED <<hasActivity, gaveUp>>
    /\ Finish(t)
    /\ UNCHANGED <<live, messageId, version, pendingDeletes, discord, raced, queues, restarts>>

DeleteLands(t) ==
    /\ task[t].op = "delete"
    /\ channel' = channel \ {task[t].message}
    /\ Finish(t)
    /\ UNCHANGED <<database, shows, lastMessage, memory, queues, restarts>>

DeleteFails(t) ==
    /\ task[t].op = "delete"
    /\ Finish(t)
    /\ UNCHANGED <<database, discord, memory, queues, restarts>>

(* Somebody deletes a message by hand. *)
Moderate(m) ==
    /\ m \in channel
    /\ channel' = channel \ {m}
    /\ UNCHANGED <<database, shows, lastMessage, memory, task, queues, restarts>>

(* An exception no handler names (a refused connection, or any failure to   *)
(* fetch the channel but NotFound) ends the task, and with it the coroutine *)
(* that was waiting for it.                                                *)
Raise(t) ==
    /\ Unhandled
    /\ task[t] # Idle
    /\ Finish(t)
    /\ IF t = "refresh"
       THEN loop' = "dead" /\ editQueue' = {} /\ deleteQueue' = {}
       ELSE UNCHANGED <<loop, editQueue, deleteQueue>>
    /\ backfillQueue' = IF t = "backfill" THEN {} ELSE backfillQueue
    /\ UNCHANGED <<database, discord, memory, restarts>>
-----------------------------------------------------------------------------
(* The refresh loop: edit what is flagged, one by one, then pop the queue  *)
(* of deletions and work it off, then sleep.                               *)

Flagged(g) == g \in live /\ hasActivity[g] /\ messageId[g] # None

RefreshTick ==
    /\ loop = "asleep"
    /\ loop' = "editing"
    /\ editQueue' = {<<g, messageId[g]>> : g \in {h \in Groups : Flagged(h)}}
    /\ UNCHANGED <<database, discord, memory, task, deleteQueue, backfillQueue, restarts>>

RefreshEdit ==
    /\ loop = "editing" /\ task["refresh"] = Idle
    /\ \E pair \in editQueue :
          /\ editQueue' = editQueue \ {pair}
          /\ task' = [task EXCEPT !["refresh"] = Edit(pair[1], pair[2])]
    /\ UNCHANGED <<database, discord, memory, loop, deleteQueue, backfillQueue, restarts>>

RefreshPop ==
    /\ loop = "editing" /\ task["refresh"] = Idle /\ editQueue = {}
    /\ loop' = "deleting"
    /\ deleteQueue' = pendingDeletes
    /\ pendingDeletes' = {}
    /\ UNCHANGED <<live, messageId, hasActivity, version, discord, memory, task,
                   editQueue, backfillQueue, restarts>>

RefreshDelete ==
    /\ loop = "deleting" /\ task["refresh"] = Idle
    /\ \E m \in deleteQueue :
          /\ deleteQueue' = deleteQueue \ {m}
          /\ task' = [task EXCEPT !["refresh"] = Delete(m)]
    /\ UNCHANGED <<database, discord, memory, loop, editQueue, backfillQueue, restarts>>

RefreshSleep ==
    /\ loop = "deleting" /\ task["refresh"] = Idle /\ deleteQueue = {}
    /\ loop' = "asleep"
    /\ UNCHANGED <<database, discord, memory, task, editQueue, deleteQueue, backfillQueue, restarts>>

RefreshLoop == RefreshTick \/ RefreshEdit \/ RefreshPop \/ RefreshDelete \/ RefreshSleep
-----------------------------------------------------------------------------
(* The backfill: once per start, post what had no message then.            *)

BackfillStart ==
    /\ backfillQueue = None
    /\ backfillQueue' = {g \in live : messageId[g] = None}
    /\ UNCHANGED <<database, discord, memory, task, loop, editQueue, deleteQueue, restarts>>

BackfillPost ==
    /\ backfillQueue # None /\ task["backfill"] = Idle
    /\ \E g \in backfillQueue :
          /\ backfillQueue' = backfillQueue \ {g}
          /\ task' = [task EXCEPT !["backfill"] = Post(g)]
    /\ UNCHANGED <<database, discord, memory, loop, editQueue, deleteQueue, restarts>>
-----------------------------------------------------------------------------
(* A restart keeps the database and the channel and forgets the rest.  Its *)
(* migration may leave all groups alone, rename groups (only flagging them *)
(* here) or merge a group h into a group g.                                *)

Forget ==
    /\ restarts < MaxRestarts
    /\ restarts' = restarts + 1
    /\ task' = [t \in Tasks |-> Idle]
    /\ editFailures' = [g \in Groups |-> 0]
    /\ loop' = "asleep"
    /\ editQueue' = {}
    /\ deleteQueue' = {}
    /\ backfillQueue' = None

Restart ==
    /\ Forget
    /\ UNCHANGED <<database, discord, gaveUp, raced>>

RestartMerging(g, h) ==
    /\ g \in live /\ h \in live /\ g # h
    /\ version[g] < MaxVersion
    /\ Forget
    /\ version' = [version EXCEPT ![g] = @ + 1]
    /\ live' = live \ {h}
    /\ gaveUp' = gaveUp \ {g, h}
    /\ raced' = raced \ {g, h}
    /\ hasActivity' = [hasActivity EXCEPT ![g] = TRUE, ![h] = FALSE]
    /\ LET adopts == messageId[g] = None
       IN  /\ messageId' = [messageId EXCEPT
                 ![g] = IF adopts THEN messageId[h] ELSE @, ![h] = None]
           /\ pendingDeletes' = IF adopts THEN pendingDeletes
                                ELSE pendingDeletes \cup ({messageId[h]} \ {None})
    /\ UNCHANGED discord
-----------------------------------------------------------------------------
TaskStep(t) ==
    \/ Read(t) \/ NoChannel(t)
    \/ Send(t) \/ PostResume(t) \/ PostFails(t)
    \/ EditLands(t) \/ EditResume(t) \/ EditNotFound(t) \/ EditFails(t)
    \/ DeleteLands(t) \/ DeleteFails(t)
    \/ Raise(t)

Next ==
    \/ \E g \in Groups, t \in Spawned : IngestNew(g, t)
    \/ \E g \in Groups : IngestRepeat(g)
    \/ \E g \in Groups, t \in Spawned : Mutate(g, t)
    \/ \E g \in Groups, t \in Spawned : Remove(g, t)
    \/ \E t \in Tasks : TaskStep(t)
    \/ \E m \in Messages : Moderate(m)
    \/ RefreshLoop
    \/ BackfillStart
    \/ BackfillPost
    \/ Restart
    \/ \E g, h \in Groups : RestartMerging(g, h)

Spec == Init /\ [][Next]_vars

(* The refresh loop runs, and every call it makes to Discord ends: answers, *)
(* fails or raises.  Nobody is obliged to send events or to mute.          *)
Fairness ==
    /\ WF_vars(RefreshLoop)
    /\ WF_vars(TaskStep("refresh"))

FairSpec == Spec /\ Fairness
-----------------------------------------------------------------------------
Stale(g) ==
    /\ g \in live /\ messageId[g] \in channel
    /\ shows[messageId[g]] # version[g]

(* has_activity "means exactly: the Discord channel message for this group *)
(* is stale" (SCHEMA.md, bot.py): a message that lags behind its group is  *)
(* flagged, or was given up after _MAX_EDIT_FAILURES failed edits.         *)
StaleIsFlagged == \A g \in Groups : Stale(g) => hasActivity[g] \/ g \in gaveUp

(* What of that promise survives the races of bot.py: a message that lags  *)
(* behind is flagged or was given up unless calls or changes of its group  *)
(* overlapped since a change last found the group at rest.  Failures,      *)
(* restarts, merges, removals and what other groups do never unflag it,    *)
(* and one change of the group at rest ends what a race has left.          *)
RestedStaleIsFlagged ==
    \A g \in Groups : Stale(g) => hasActivity[g] \/ g \in gaveUp \/ g \in raced

(* A flagged group does not stay flagged forever: its edit succeeds, is    *)
(* given up, or its message or row is found gone.                          *)
FlagIsServed == \A g \in Groups : Flagged(g) ~> ~Flagged(g)
=============================================================================
