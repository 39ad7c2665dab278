# Formal models of monumenta-exception-logging

This directory holds TLA+ models of the exception tracker, the TLC
configurations that check them on small instances, and TLAPS proofs. Everything
is translated from the source; line references are to `src/`.

## 1. Inventory

The repository contains four programs. `server/` (Python, asyncio) is the
tracker: an HTTP server, an SQLite database and a Discord bot in one process.
`plugin/` (Java) runs in the Minecraft servers: it sends exceptions to the
tracker and triggers heap dumps. `heap-logger/` (Python, asyncio) accepts the
path of a dump from the plugin, analyses the file and reports what leaks to the
tracker as exceptions. `pr-bot/` (Python, asyncio) keeps the reactions on
Discord messages in step with the GitHub pull requests they link.

| Component | State it keeps | Operations | Talks to |
|---|---|---|---|
| Exception store (`tracker/ingest.py`, `db.py`, `api.py`) | `error_groups`, `occurrences`, `server_hour_counts` | ingest, mute, unmute, resolve, expiry, `/purge old`, `/purge server`, purge by status | HTTP handlers, Discord commands, hourly loop |
| Chisel fix queue (`tracker/chisel.py`, `db.py`, `server.py`) | `fix_attempts` | request, poll (claim), callback, cancel, hourly timeout | the external worker Chisel (polls and calls back), reactions, API |
| Discord mirror (`bot.py`) | `discord_message_id`, `has_activity`, `pending_discord_deletes`, `_edit_failures`, the channel itself | post, edit, delete, refresh loop, startup backfill | every handler that changes a group, Discord's HTTP API |
| Startup fingerprint migration (`db.py:356`) | all of the above | rename or merge groups | runs before the server serves |
| Fix reactions and DMs (`bot.py:672-899`) | emoji on a message, tasks in memory | wrench, working and outcome reactions, result DM | fix queue, Discord |
| API tokens, notify subscriptions (`api.py:860-930`) | `api_tokens`, `notify_subscriptions` | issue, revoke, sweep, add, remove | Discord commands, API |
| Schema upgrades (`db.py:168-330`) | table definitions | `_migrate`, `_migrate_fix_attempts_status` | SQLite |
| Fingerprinting (`tracker/fingerprint.py`) | none (pure) | normalize, hash | ingest, migration |
| Queries and rendering (`api.py`, `bot.py`, `server.py`) | none | search, details, listings | users |
| `exctl` (`cli/exctl.py`) | a config file | one HTTP request per invocation | API |
| Plugin appender and sender | a per-second budget, a one-thread executor | append, reset, submit, shutdown | tracker |
| Plugin heap dumps (`HeapDumpIntegration.java`) | two atomic flags, a timer per dump | trigger, completion line, notification, shutdown | spark, heap-logger |
| heap-logger (`heap-logger/server.py`) | an in-memory queue, a directory of dumps | ingest (202), worker | plugin, heaptool, tracker |
| pr-bot (`pr-bot/*.py`) | `messages`, `pr_links`, `prs`, `users`, `_autoposting` | webhooks, gateway events, autopost, reconcile, cleanup, startup pass | GitHub, Discord |

The behaviours that are hard:

- *asyncio interleavings.* Code between two awaits is atomic (one loop, one
  synchronous SQLite connection), so what can go wrong is what is read before
  an await and used after it: a group's content and message id
  (`edit_exception_message`), an attempt's status (`api_cancel_fix_attempt`),
  the rows behind a reconciliation (`reconcile_message`).
- *Threads.* In the plugin any thread may log or log spark's line; two atomic
  flags, a counter and an executor are all that orders them.
- *Time.* Events carry the sender's clock; expiry sweeps three tables by three
  columns; attempts time out by age, and a late result may still come; a
  30-minute timer resets a flag whoever holds it by then.
- *Unreliable callers.* A poll's response or a callback can be lost, repeated or
  late; webhooks overtake each other. Discord and GitHub calls fail in ways the
  code catches, and in ways it does not.
- *Restarts.* Tasks, failure counters and queues in memory vanish; the database
  stays; the migration, or the pr-bot's startup pass, repairs it.

What makes each component correct, in a sentence: the store's tables agree with
each other and nothing recent is lost; a group has one attempt in flight, every
attempt ends with the best answer there is, and whoever asked is told; the
channel shows each group once and never silently stays out of date; the
migration loses no count and no message; the exceptions of a game server arrive
in order and within the budget; a heap dump that was requested is reported once
or can be requested again; a PR message ends up showing the latest state of its
PRs.

`PROJECT.json` lists the hazards at their lines, with the properties that cover
them or the reason none does.

## 2. Plan

| Module | Content | Status |
|---|---|---|
| `FixSlots` | abstract: one slot per group, free / queued / working | done |
| `FixQueue`, `FixQueueProofs` | the table of attempts and all handlers; implements `FixSlots` | done, proved |
| `FixReactions`, `FixReactionsProofs` | the Discord side of the attempts of one group | done, proved |
| `TrackerStore`, `TrackerStoreProofs` | ingest, marks, expiry, purges over the three tables | done, proved |
| `Migration`, `MigrationProofs` | the loop of `migrate_fingerprints` over its snapshot | done, proved |
| `DiscordMirror`, `DiscordMirrorProofs` | posts, edits, deletes, refresh loop, backfill, restart, one merge | done, proved but for liveness |
| `ExceptionSender`, `HeapDump`, `Plugin`, `PluginProofs` | the plugin's two halves and the heap-logger, composed by `onDisable` | done, proved but for liveness |
| `PrRules`, `PrBot`, `PrBotProofs`, `PrBotTrustProofs` | the pure rules of the pr-bot, and its tasks | done, proved |

`Plugin` EXTENDS `ExceptionSender` and `HeapDump`; `PrBot` EXTENDS `PrRules`;
`FixQueue` instantiates `FixSlots`. The tracker's modules are separate on
purpose: what one needs of another is one or two of its actions (a group
appears, a group vanishes, a restart), which it contains in the other's words.

No module declares a `RECURSIVE` operator; a module that is proved about has a
`...Proofs` module of its own.

## 3. Modules and the code

In every module a definition named `Bug...` is a plausible mistake in the
definition that follows it. No action uses it; the properties are tested by
putting it in place of the original.

### FixQueue (and FixSlots)

One row of `fix_attempts` per element of `Jobs`. `status`, `fingerprint`,
`queuedAt` are columns; `message` is reduced to who wrote it (nobody, Chisel,
the timeout, the canceller); `handed` is a history variable, the attempts a poll
has returned. `live` is the set of fingerprints with a row in `error_groups`:
attempts have no foreign key, so they outlive their group and meet a later group
of the same fingerprint. `rendered_message`, `summary`, `detail` and `pr_url`
are stored and shown but decide nothing, and are left out.

| Action | Code |
|---|---|
| `RequestFix` | `chisel.request_fix`, used by the reaction and by the API: `has_active_fix_attempt`, group lookup, insert, one step without await |
| `ClaimAttempt` | `claim_fix_attempt`: oldest pending by `queued_at` (ties in any order: the code names no tie break) |
| `Callback` | `/chisel/callback` and `complete_fix_attempt`: any status but cancelled is overwritten; possible any number of times once handed |
| `CancelRequest`, `CancelResume` | `api_cancel_fix_attempt` up to and after `await _resolve_actor`; the `UPDATE` decides by the status it finds |
| `TimeoutStale` | `timeout_stale_fix_attempts` in the hourly loop |
| `GroupAppears`, `GroupVanishes` | ingest of an unknown fingerprint; expiry or purge |
| `Restart`, `MigrateGroup` | `main`: nothing is served until each group has been visited; a group is renamed or merged and its attempts follow. `NewFp[g]` is what a restart's rules may compute |

A lost poll response is a claim that no callback follows; a lost callback is one
that never comes. Authentication is not modelled: a callback for an attempt that
was never handed out is not among the inputs.

`FixSlots` forgets the table: each group has one slot that is taken, worked on
and released. `ImplementsSlots` instantiates it with `slot[g]` computed from the
rows of `g`.

### TrackerStore

`groups`, `status`, `marks` (which of `muted_by`, `resolved_by` is set),
`lastSeen` are `error_groups`; `occurrences` and `hourCount` are the two child
tables; `swept` is a history variable, the latest cutoff of any sweep. `Ingest`
is `ingest_event` including `clamp_timestamp` (only the future is clamped), the
hour bucket and the payload cap; `RunExpiry(w)` is `run_expiry` with the
configured window or the argument of `/purge old`, including the cascade of the
foreign keys; `PurgeServer`, `PurgeByStatus`, `MuteGroup`, `ResolveGroup`,
`UnmuteGroup` are the methods of `Tracker`. A purge deletes groups, and
occurrences and counts go with them. `total_count` is a counter that no sweep
adjusts; it matters when groups merge, and `Migration` has it (`counted`).
First-seen time and the descriptive columns are left out.

### DiscordMirror

A group's content is a version number that every change increases; a message
shows one. A task is a record: what it does (`post`, `edit`, `delete`), how far
it is (`start`, `read`: it holds a copy of the group, `done`: Discord has
carried it out and the code has not resumed), the group, the message and the
copy. Fire-and-forget tasks take a name from `Spawned`; `"refresh"` and
`"backfill"` are the calls the two loops are waiting for.

| Action | Code |
|---|---|
| `IngestNew`, `IngestRepeat` | `/ingest`: a new group starts `post_new_exception`, a repeat sets `has_activity` |
| `Mutate` | mute, unmute, resolve: flag, then `_dispatch_discord_edit` with the message id of that moment |
| `Remove` | expiry and purges: delete the row, start `delete_channel_message` |
| `Read`, `NoChannel` | after `_get_channel`: `get_group_details`, or return |
| `Send`, `PostResume`, `PostFails` | `channel.send`, `set_discord_message_id` (an `UPDATE` that may find no row), `except` |
| `EditLands`, `EditResume`, `EditNotFound`, `EditFails` | `fetch_message` and `edit`, `clear_has_activity`, the two `except` branches with `_record_edit_failure` |
| `DeleteLands`, `DeleteFails` | `delete_channel_message` |
| `Raise` | an exception no handler names; it ends the task and the loop that awaits it |
| `Moderate` | external: somebody deletes a message by hand |
| `RefreshTick` ... `RefreshSleep` | `_refresh_loop`: snapshot of flagged pairs, edits one by one, `pop_pending_discord_deletes`, deletes one by one, sleep |
| `BackfillStart`, `BackfillPost` | `_backfill_missing_messages` |
| `Restart`, `RestartMerging` | the process restarts; the migration may merge one group into another, which adopts or queues the loser's message |

Nothing keeps the calls and changes of one group apart, in the code or in the
model. `raced`, a history variable that no guard reads, holds the groups for
which they overlapped: a call read the group during another call of it, its row
changed during an edit, or it was removed and ingested anew while a call of it
was in flight, waited, or might still come from the backfill (`Waiting`: an edit
that waits while its group is removed and reborn finds the old message still
there, carries it out, and clears the flag of the new row, finding 7). A change
that finds nothing of its group in flight or waiting takes the group out of
`raced` again. `gaveUp` is a history variable: groups whose edits were given up
after `_MAX_EDIT_FAILURES` and that have not changed since.

Two constants select the environment. `Unhandled` lets any call raise what
nobody catches. `MissingChannel` lets `_get_channel` return `None`. A post or an
edit may fail before Discord carries it out or after (`PostFails`, `EditFails`
at `"read"` and at `"done"`); a post whose answer failed leaves a message no row
tracks, of which no property speaks.

### Migration

`migrate_fingerprints` reads all rows of `error_groups` once and visits them in
the order of their ids; everything it writes is one transaction, so the model
has no other actor. `Init` is any table: any fingerprints, the current rules'
or ones that only older rules produced (`Older`), any traces, any newest
occurrence or none, any message. The rules are `NewFp`: the trace and the text
of the newest occurrence the row holds *now*. Counts and dates are known by the
rows they add up (`counted`, `occurrences`, `hours`, `attempts`), so that a loss
or a doubling shows whatever the numbers are.

| Action | Code |
|---|---|
| `Keep` | the fingerprint is what it was: at most the signature is stored |
| `Rename` | no live row has the new fingerprint: fingerprint, template, flag, attempts |
| `Merge` | one has: counts and dates of the *snapshot's* row are added to the winner, children are moved, the message is adopted or queued for deletion, the attempts follow, the row goes |

`dropped` is a history variable: rows that were merged into a row which was then
merged itself. See finding 4.

### FixReactions

The attempts of one group as in `FixQueue`, without clock and order, and the
messages of the group with their reactions. A task is a record: its kind
(`swap`, the wrench's handler; `mark`, `add_fix_working_reaction`; `finish`,
`on_fix_attempt_completed`), the attempt and which of its ends, the message, and
how far it is. `ends` counts how often each attempt ended, and `ended`, which
only bounds a run, how often any did. Handlers change the table at once and
start a task; each call to Discord is a step of a task, and any other step may
come before it.

| Action | Code |
|---|---|
| `ApiRequest`, `Claim`, `Report`, `TimeOut`, `Cancel` | the handlers of `FixQueue` with the task each starts; `tell` is whether a requester other than the caller waits for an answer |
| `AddWrench`, `HandleWrench` | `on_raw_reaction_add`; `_handle_fix_request_reaction` up to its first call: the group is gone, the request is refused, or an attempt is queued |
| `ClearWrench`, `AddWorking` | the wrench is removed, then the working reaction added if queued |
| `StartMark`, `StartFinish` | the task looks up the group's message |
| `ClearWorking`, `AddOutcome`, `Tell` | the working reaction goes, the outcome's comes, the requester gets a DM |
| `Breaks` | an error the `except` clauses do not name ends the task: a connection error is not a `discord.HTTPException` |
| `PostMessage`, `GroupAppears`, `GroupVanishes`, `Restart` | the group's message and row come and go; the tasks die with the process |

`lapsed`, `missed` and `untold` are history variables. A message is in `lapsed`
when a step that should have removed its working reaction failed, was dropped,
or when the reaction was added after the attempt had ended.

### ExceptionSender, HeapDump and Plugin

`ExceptionSender` has the appender (`append` of any thread is two steps, the
budget and `submit`, between which anything may happen), the reset thread, and
the executor with its one thread. `HeapDump` has both flags of
`HeapDumpIntegration`, a timer per commanded dump, spark's line, the post to the
heap-logger, and there the queue, the worker and the directory. A request may
fail after it was received; a crash takes the queue and the job, not the files.
`Plugin` composes both with `onDisable`, whose three parts are steps: the heap
watcher, the appender with its reset thread, the executor.

| Action | Code |
|---|---|
| `LogEvent`, `Submit`, `ResetBudget` | `append`, `HttpSender.send`, the rate limit thread |
| `TakeEvent`, `EventSent` | the executor's task; the request has no timeout |
| `TriggerDump`, `TimerFires` | `triggerDump` on `LowMemoryEvent`, its 30-minute task |
| `ManualDump`, `DumpFails` | external: an operator's command, spark failing |
| `DumpWritten`, `NotifyEnds` | `SparkHeapWatcher.append` and `onHeapDumpReady` up to the post, and its end |
| `Resubmit`, `WorkerTakes`, `AnalysisEnds`, `ReportPattern`, `JobRaises`, `LoggerCrashes` | `/ingest`; `_worker` and `_process` up to heaptool, the move, each report; its `except`; a crash |
| `OnDisable`, `SenderTerminated` | `onDisable`; `shutdown`'s wait of three seconds and `shutdownNow` |

### PrRules and PrBot

`PrRules` has the pure functions: how a review moves the status, how GitHub's
list of reviews is folded into one, which emoji a message should carry, who gets
a DM. `PrBot` has GitHub, the channel, the tables `prs`, `messages` and
`pr_links`, and the bot's tasks. A task is a sequence of operations; its head is
an await (any other task may run) or one of `SyncOps`, which the event loop
runs before any other task. A handler puts its operations into an idle name of
`Handlers`; `"startup"` is the pass of a fresh process.

| Action | Code |
|---|---|
| `SubmitReview` ... `ResolveThreads` | external: changes on GitHub, each with the webhook `github.py` parses, or drops (`ReopenPr`) |
| `PostMessage`, `EditMessage`, `DeleteMessage`, `GrowOld` | external: users and time |
| `HandleReview`, `ReadThreads`, `HandleClose`, `NotifyMessages` | `_handle_review_or_lifecycle`, cut at its awaits |
| `HandleThread`, `RecheckThreads`, `HandleCheck`, `RecheckChecks` | `_handle_thread_event`, `_handle_check_event` |
| `HandleLabel`, `FetchAuthor`, `Autopost`, `AutopostUnanswered`, `Unguard`, `StoreLabels` | `_handle_label_event`, `_maybe_autopost_ready_pr`: check and guard in one step if the payload names the author, else the check before `fetch_pr_state` and the guard after it; the post with and without its answer |
| `OnMessage`, `OnEdit`, `Resync`, `RereadMessage`, `OnDelete` | the gateway's handlers and `/pr_resync` |
| `IngestMessage`, `LookUpState`, `FetchAndStore` | `ingest_message`, `_fetch_and_store_pr` |
| `ReadRows`, `FetchMessage`, `React`, `UpdateDone` | `reconcile_message`: rows, message, one reaction at a time, `done` |
| `Answer` | GitHub's answer to a fetch, with what could not be read of it (`lost`) |
| `DmUser`, `Sleep`, `DiscordFails` | a DM; the pauses between messages; a Discord call that fails |
| `RunCleanup`, `Crash`, `Restart` | the cleanup loop; the process |
| `ScanHistory`, `ListActivePRs`, `PollPR`, `SweepMessages`, `StartupComplete` | `startup_reconcile` |

A check event names one PR here; the code loops over those the event names
(`bot.py:913`), which are several events in the model. Every PR's author has
linked a Discord account.

The history variable `autoposts` holds the auto-posts of this process that the
bot was told of and whose PR no message tracked when the guard was taken: the
posts `AutopostOnce` is about. The other two kinds are finding 14.

The history variable `trust` says when the rows and reactions may be believed:
`"whole"` while tasks take turns and nothing fails, `"broken"` after an overlap,
a failed call or a webhook out of order, `"healing"` during the startup pass
after a crash, which makes it `"whole"` again if nothing disturbs it. The
properties of the channel are claimed while it is whole and nothing is under
way; that the startup pass restores them, whatever happened before, is the part
a test would hardly reach.

## 4. Runs

| Run | Shows | Bounds and why they suffice |
|---|---|---|
| `queue_stable` | `OneActivePerGroup`, `ImplementsSlots` when the rules do not change | 3 attempts on 2 groups: two meet in one group while a third is elsewhere. Timeout 1, last request at 1, clock to 3: attempts can be requested before and after another has timed out |
| `queue_rules` | `TypeOK`, `CancelledNeverHanded`, `OldestFirst`, `ReportStands`, `EveryAttemptEnds` under any renaming and merging | 2 attempts, 2 groups, `NewFp` lets any group become any other; all but the last are proved for any number |
| `store_counts` | `TypeOK`, `LastSeenWitnessed`, `HourCountsExact`, `RawCapped`, `Attributed` | 1 group, 2 servers, 3 events, cap 1, hours of 2, windows of 1 and 2, clock to 3: a bucket below, at and above its cap, sweeps that cut into an hour, events before and after a sweep. Groups share no row, so one suffices |
| `store_late_event` | violation of `OnlyUnseenExpire` | one server suffices |
| `mirror_races` | `TypeOK`, `RestedStaleIsFlagged` | 2 groups (for a merge), 1 task beside the two loops, which is three calls at once, 2 changes per group, 2 messages, 1 restart; give-up after 1 failure (3 in the code: the counter is only compared with its limit). Proved for any number |
| `mirror_served` | `FlagIsServed` | 1 group, 1 task beside the loops, 1 restart, give-up after 2 failures |
| `mirror_lost_update` | violation of `StaleIsFlagged` | 1 group, 1 task, no restart |
| `reactions` | `TypeOK`, `NoneLingers`, `OutcomeEarned`, `EveryEndTold`, `CancelledOnce`, `WrenchGoes` | 2 attempts, of which one may end twice or both once (`MaxEnds` 2), 1 message, 1 wrench, 1 fault: the end of one attempt overlaps the start of the next. All but `TypeOK` are proved for any number |
| `migration` | `TypeOK`, `Settled`, `StaysTogether`, `NothingLost`, `ChangedIsFlagged` | 3 rows: the smallest table with a chain (a winner that is merged in its turn) and a fan (two losers of one winner); 2 traces, 2 texts and 2 times tell any two rows apart |
| `plugin` | `TypeOK`, `LimitHeld`, `OrderKept`, `OneCommand`, `ReportedOnce`, `LeftoverExcused`, `Disabled`, `GuardServed`, `QueueDrains` | limit 2, 4 events, 1 reset: a full budget before and after the reset; 2 dumps, 1 pattern, 1 crash, 1 dump posted again. The halves share only `onDisable`, so each runs alone at that size, and both together with one event and one dump |
| `pr_bot` | `TypeOK`, `ShowsRows`, `RowsTrue`, `NoExtraDm`, `AutopostOnce` | 2 PRs (one changes in every way, the other only ends), 2 messages, 2 handlers beside the startup pass; 2 changes, 2 user actions, 1 fault and 1 crash, 3 of these in one behaviour: two webhooks in flight and a third disturbance |
| `pr_bot_untracked` | violation of `ReactionsTrue` | 1 PR, 1 handler, no fault |

Deadlock is checked unless the cfg says otherwise. It is off for the bounded
environments that may simply be used up: an idle mirror with a dead refresh
loop, a group whose attempts have all ended, a disabled plugin, a bot to which
nothing more happens.

### Fairness

`FixQueue!FairSpec`: the clock advances, a started migration goes on, and the
hourly sweep is *strongly* fair, because each start of the server begins with a
sweep before its first sleep (`_expiry_loop`), so restarts may interrupt the
rhythm but cannot avoid the sweep. Nothing is assumed of users or of Chisel.

`DiscordMirror!FairSpec`: the refresh loop takes its steps, and each call it
makes to Discord ends somehow: success, failure, or an exception. Nothing is
assumed of events, users, restarts or other tasks. `FlagIsServed` assumes that
the configured channel can be fetched and that calls raise only what is caught.

`Plugin!FairSpec`: the scheduler fires timers while the plugin is enabled; the
heap-logger's worker goes on, heaptool included, which is what `_process` awaits
without a limit, and its posts end within aiohttp's default of five minutes; the
thread that runs `onDisable` goes on, and `awaitTermination` returns. Nothing is
assumed of the plugin's own requests, which may never end, nor of spark.

### Findings

The violation runs are disagreements between the code and what its documents
say; `PROJECT.json` quotes both sides.

1. *A late event makes expiry delete a recently seen group*
   (`store_late_event`, `ingest.py:196`): `last_seen` follows the last arrival.
2. *A change during an edit is lost* (`mirror_lost_update`, `bot.py:507`): the
   completed edit clears the flag the change has set.
3. *A PR that was known before it was linked shows what nobody has read*
   (`pr_bot_untracked`, `pr-bot/bot.py:441`).

Others the models contain, without a run of their own:

4. *A chain of merges loses counts and a message* (`db.py:372`). The loop reads
   the loser from its snapshot. If row 1 is merged into row 2 before row 2's
   turn and row 2 is then merged into row 3, row 3 gets row 2's counts and
   message id as they were before row 1 came: row 1's total, dates and message
   are gone. `NothingLost` excepts exactly these rows (`dropped`), and the
   occurrences and hour counts, which are moved live, arrive (`StaysTogether`).
5. *A merge leaves two attempts in flight* (`db.py:484`, against `SCHEMA.md:274`):
   both groups may have one, and the re-addressing does not look. `FixQueue`
   reaches it when `NewFp` is not the identity, which is why `OneActivePerGroup`
   is checked and proved under `StableRules`.
6. *A group removed while it is being posted leaves its message*
   (`bot.py:448`): the `UPDATE` finds no row.
7. *An edit with an old id untracks the new message* (`bot.py:516`). If the old
   message is still there, the edit clears the flag of the new row instead
   (`bot.py:507`).
8. *One uncaught exception ends the refresh loop* (`bot.py:573`); deletions it
   has taken off the queue and not tried are lost with it (`bot.py:589`).
9. *A working reaction can outlive its attempt* (`bot.py:751`): the task that
   adds it does not ask again whether the attempt is in flight, so it may come
   after the end that removed it; and the late end of a timed-out attempt
   removes the reaction of the attempt that followed. The first is `lapsed` in
   `NoneLingers`.
10. *A wrench can stay* (`bot.py:716`, against `src/README.md:284`, "always
    removed"): a restart, a failed call or a group that is gone leave it; they
    are `missed` in `WrenchGoes`.
11. *A finished dump's timer resets the next dump's guard* (`HeapDumpIntegration.java:91`),
    and so does any other dump's line; `lapsed` in `OneCommand`.
12. *A reopened PR stays closed* (`github.py:208`): the event is dropped, and
    the startup pass does not poll a PR whose messages are done.
13. *A failing check may be told twice* (`pr-bot/db.py:316`): the cleanup
    deletes the row of a PR that no message links any more; if the PR is linked
    again after another webhook has recreated its row without the failing
    check, the next check event reads as a new failure. `Forgotten` grants that
    one DM in `NoExtraDm`.
14. *A ready PR can be auto-posted twice* (against `pr-bot/bot.py:862`, "Guard
    against concurrent webhooks [...] both passing the get_messages_for_pr check
    before either post is ingested"). If the payload names no author, the handler
    awaits `fetch_pr_state` between that check (830) and the guard (864): another
    webhook can post, ingest and release the guard meanwhile. And a send that
    Discord carried out but whose answer raises releases the guard (891) with
    nothing stored, so the next ready label posts again. `PrBot` has both
    (`FetchAuthor`, `AutopostUnanswered`); `AutopostOnce` leaves out these posts
    and no others.

Two smaller ones: a failure callback may store a `pr_url` (`db.py:659`, against
`SCHEMA.md:251`), and a sweep that cuts into an hour forgets its count, so a
late event of that hour keeps a payload beyond `RAW_EVENT_CAP` (`db.py:718`,
against `SCHEMA.md:492`); this is why `RawCapped` speaks only of hours no sweep
has cut into.

## 5. Proofs

Each module assumes only the `ASSUME` of the constants of the module it is
about, which bounds nothing.

### FixQueueProofs

For any set of attempts and groups, any timeout and any length of run:

- `TypeCorrect`: `TypeOK` is inductive.
- `QueueInv` is the strengthening for the other three: an attempt that was
  handed out is never again `none`, `pending` or `cancelled`
  (`HandedHasStarted`); a message from Chisel sits on a reported status
  (`ChiselRowIsReported`); nothing was queued in the future
  (`QueuedInThePast`, without which a new request could be older than an attempt
  already handed out); every row has a group's fingerprint (`Addressed`).
- `CancelledNeverHandedCorrect`, `OldestFirstCorrect`, `ReportStandsCorrect`
  follow, whatever the rules of a restart do.
- `OneActiveCorrect` and `SlotsImplemented` assume `StableRules`, i.e. restarts
  under unchanged normalization rules; finding 5 is why the assumption is
  needed. The refinement maps a request to `Take`, a claim to `Work`, and a
  callback, a cancel or a sweep to `Release` of the groups whose attempt ended
  (`SlotsReleased`), every other step to a stutter.

### TrackerStoreProofs

For any groups, servers, windows, cap and events. `Typed` holds the types and
`CountedOnce`: every row has an id no row has had, and an hour's count is never
above the last of them. From it alone follow `LastSeenIsWitnessed` (its step,
`WitnessKept`, is that a sweep which deletes the occurrence `last_seen` names
deletes the group with it) and `AttributionHolds`. `HourCountsAreExact` and
`RawIsCapped` are inductive together, over finite sets of rows (`HourInv`). The
proof looks at one hour at a time (`HourGood`): an hour whose rows and
count are left alone stays good (`HourUntouched`), and so does one that loses its
count and, unless a sweep has cut into it, all its rows (`SweepKeepsHours`).

### PluginProofs

For any number of events, dumps, patterns and crashes and any loads. The
composition's invariant is one conjunct per concern, each preserved by all of
`Plugin`'s steps: `BudgetInv` (what passed since the reset is at most the
budget, and at most the limit), `PipelineInv` (what was received, is being sent
and waits are in the order of `submitted`), `GuardInv` (a commanded dump that is
being written holds the guard, unless it was cleared), `LoggerInv` (nothing of a
dump is reported before it was moved, and what is left of a job is what has not
been reported), `NotifyInv` (one notification at a time), and `LeftoverExcused`,
which is inductive given the others. `Composed` says where `onDisable` is.

### FixReactionsProofs

For any attempts, messages, wrenches and faults. `Typed` says which forms a task
can have (`TaskOK`: a task that changes reactions knows its message, one that
adds the working reaction has an attempt, one that tells somebody has somebody
to tell). `TaskMoves` is the lemma the rest leans on: a task's step leaves at
most one successor of the same attempt, and a task that ends has told its
requester or is counted as a fault. From it follow

- `CancelsOnce`: attempts that are `none` or `pending` have no end (`EndsInv`);
- `OutcomesAreEarned`: a task's result is one of its attempt's (`OutcomeInv`);
- `WrenchesGo`: inductive as it stands;
- `NoReactionLingers`: the witness must be a task that has not passed the
  removal yet (`LingerInv`);
- `EveryEndIsTold`: the tasks that have somebody to tell are finite, and
  different in attempt or number, so the count goes down by one when one of
  them ends (`TellInv`).

`TypeCorrect` puts these together: no attempt has ended more often than all
have (`CountInv`), and no two tasks do the same for the same end (`DistinctInv`).

### MigrationProofs

For any table, any traces and texts, any messages and any rules `NewFp`.
`MigrationInv` describes the loop between two rows: rows whose turn is to come
are untouched (`WaitInv`); everything that belonged to a row has one home, the
live row that holds its occurrences and hour counts and whose fingerprint its
attempts carry (`HomeInv`); a tracked message came with a row its group holds
and is not queued for deletion (`PlaceInv`); a group counts what it holds, but
for `dropped` (`CountInv`); changed rows are flagged (`FlagInv`); and a group
past its turn has the fingerprint of the newest occurrence it holds
(`SettledInv`), although rows may be merged into it after its turn: what is
newer was merged by its own text, which is the winner's. That a finite set of
occurrences has a newest (`NewestExists`) would be an induction the provers
cannot do; the newest is found instead as the one whose set of newer ones is
minimal, since strict inclusion of finite sets is well founded. The four properties follow at the end of the loop.

### DiscordMirrorProofs

For any groups, tasks, changes, messages and restarts.

- `TypeCorrect`, with `TasksFit`: what each task knows at each stage.
- `OwnersStand`, whatever overlaps: a message has one owner, among rows, queued
  edits and tasks under way.
- `RestedStaleIsFlaggedCorrect` assumes nothing of the order of calls. Its
  invariant speaks of the groups outside `raced` (`Rested`): their calls take
  turns (`TurnsInv`), not because anything makes them but because a call that
  does not puts the group into `raced`; such a group is posted for once, by its
  ingest or by the backfill, and only while its row tracks nothing (`PostInv`);
  an edit which waits is of the message the row tracks, or of one that is gone
  (`EditInv`); and what a task has read, or has shown and not recorded, is the
  group as it is unless a change has flagged it since (`FreshInv`). A group that
  leaves `raced` enters all four: nothing of it is in flight or waits, and the
  change that takes it out flags it, or inserts its row without a message.

### PrBotProofs

For any PRs, handlers, preferences, links and bounds.

- `DerivedIsSummed`: GitHub's list of reviews, folded as in `github.py`, is its
  last decisive review, or a comment that none follows, for lists of any
  length. It is the closed form every fact about statuses rests on. The fold is
  unfolded once and compared with the closed form at a minimal set of positions
  on which they differ, of which there is none (`SmallestSet` stands in for an
  induction).
- `TypeCorrect`: the invariant `Typed` adds to `TypeOK` which operations there
  are (`OpSet`) and that at most one task stands at a synchronous one
  (`OneBusy`), which is what the event loop guarantees.
- `AutopostOnceCorrect`: `AutopostInv` follows a label event through its task.
  `unguard` is the last operation but one and its PR is guarded (`GuardInv`),
  by one task only (`ApartInv`); an ingestion of the bot's own message stores
  what the message links (`IngestInv`), and the gateway brings nothing that
  would change that (`GatewayInv`); so an auto-post in `autoposts` is in the
  tables, or the task that has posted it is about to store it and still holds
  the guard (`KnownInv`). A task that took the guard of an untracked PR, at once
  or after the author's answer, therefore has no such post of that PR beside it
  (`PostInv`), and there is one at most (`OnceInv`). What the theorem does not
  cover is finding 14.

### PrBotTrustProofs

For any PRs, handlers, preferences, links and bounds. The module is about the
state `trust` calls whole or healing. `TrustInv` says what that is worth: while
the trust is whole the startup pass has ended and one handler at most is alive,
while it heals the pass is alone and no webhook is on its way. `ShapeInv` says
what a task looks like: the pass ends with its next part, a handler ends with its
DM, and it asks GitHub in its first operation only. `StepsAdd` and
`ReceiveBegins` describe once what every operation puts into a task, and every
later lemma cites them instead of the actions of `Step`.

- `NoExtraDmCorrect`: `owed[p]` is never below what is still due (`DueInv`),
  which is the number of webhooks worth a DM by themselves (`Worthy`), plus one
  if the handler alive ends with a DM (`Told`), plus one if the failure of the
  checks may still become news (`Failing`). The last is the subtle one, since a
  check webhook may lead to a DM about a failure that another webhook announced:
  it is news if the answer held by the handler says "failing" and the row does
  not, or if GitHub says it while an answer that says "passing" is about to be
  stored, or while the row does not know and a question is queued or asked. So
  `Failing` is at most one however many check webhooks wait, and turns to one
  only where `owed` grows: when checks fail on GitHub, and when the cleanup
  forgets a failing row.
- `RowsTrueCorrect`: with three invariants beside those of `NoExtraDm`.
  `FillInv`: a filled PR has a row, and a message links it.
  `RowsInv`, while the trust is whole: column by column, what GitHub says now is
  what the row will say after the webhooks on their way and the operations the
  handler alive has still to do (`Leads`). The review status is the fold of the
  queued reviews over the row, by its closed form: the last decisive review
  counts, or the row's status, or a comment (`ReviewLeads`; `Sent` says the
  same of the queue alone, for a PR whose fetch is under way and will store the
  answer over what the webhooks wrote). A PR's end and its labels are what the
  last such webhook says. Checks and threads are asked for: until a later
  webhook about them is on its way, the answer a handler holds is the truth,
  and so is the row once nobody asks. `HealInv`, during the startup pass: every
  filled row and every answer is the truth, and a PR still to be polled has the
  row it was listed with or the truth, so that a poll which finds nothing
  missed stores nothing and is right. The theorem is about the emoji and not
  the row because `resolved` is asked for only when a comment may have opened
  a thread: it leads to the truth when the status is "commented"
  (`ResolvedLeads`), and `Desired` looks at it only then (`SameDesired`).

- `ShowsRowsCorrect`: `Covered` says of every message in the window that it
  fits its rows (`Fits`, which is what the property asks and that every linked
  PR has a row) or that an operation some task has still to do will put it
  right (`Redoes`: a reconciliation of it at any stage, or a notification that
  will reach it). `ShowInv`, while the trust is whole: `Covered`, and what a
  handler has read before an await is still so. In the middle of a
  reconciliation that is `Keen`: the emoji it wants and the mark it will write
  are those of the rows by now, and what it has yet to add and remove leads
  from the reactions by now to the emoji it wants. Before an answer of GitHub it
  is `Knows`: the messages a handler listed when it asked are those it would
  list now, and one that stores what it read of the threads has still to notify
  the messages. `SweptInv`, while the trust heals, asks nothing of the startup
  pass before its last part: the sweep lists every message of the window, which
  covers whatever was wrong, and from there on the pass only reconciles.
  Three facts carry the corner cases. A done message does not follow its rows,
  so a column that changes may leave it alone only because its emoji and its
  mark depend on how its PRs ended (`SameLives`). A first fetch may store any
  end without looking who shows the PR, but it finds no row (`DueInv`), so no
  message that links the PR fits before, and the ingestion that fetched ends
  with a reconciliation. And an end that is no news must leave the row as it
  is: a webhook that says "closed" of a row that says "merged" would rewrite it
  without a reconciliation. `MergedInv` says that no row, no webhook on its way
  and no answer held calls a PR merged that GitHub does not, whatever goes
  wrong, and `RowsInv` that the webhook tells the truth. `TrackedInv` says that
  only posted messages are in the tables, so a message that enters the channel
  is owed nothing before it is ingested.

### Only model-checked

Liveness: `EveryAttemptEnds`, `FlagIsServed`, `Disabled`, `GuardServed` and
`QueueDrains`, which is out of the prover's reach. Every other property of a
passing run is a theorem.

## 6. Not modelled

`PROJECT.json` gives the reason per component. Out of scope by choice: rendering
and queries (no state), the text of fingerprint normalization (regular
expressions and a hash: the models take its result as a constant), `exctl` (a
stateless client), authentication and the HTTP layer, tokens and subscriptions
(each operation is one synchronous step; their caps are checked in it), schema
upgrades, the plugin's test and verbosity commands.

Left out of modelled components:

- *Discord mirror*: the DMs of notify subscriptions.
- *Fix reactions*: the `:question:` reaction, which only sends a DM.
- *heap-logger*: the retention sweep of processed dumps, and the warning for a
  status other than 200, 201 or 202 (the tracker's 204 triggers it; only a log
  line).
- *pr-bot*: an exception no handler catches, which ends a task where it stands
  (the channel lookup of an auto-post, `bot.py:872`, then leaves its guard set
  until the next start); a reply to oneself that inherits the links of the message it
  answers; titles (whether one is fetched is kept, as a pause); emoji of an
  older configuration that a reconciliation purges; label categories other than
  ready; several posters with different preferences; `/pr_link`, `/pr_notify`,
  `/pr_summary`.

Shutdown by signal and the drain of tasks at the end of the tracker's process
are not modelled: a restart drops the tasks at any point, which includes what a
drain would have left.
