------------------------------- MODULE PrBot -------------------------------
(***************************************************************************)
(* The pr-bot: GitHub webhooks, Discord events and the startup pass are    *)
(* asyncio tasks that read the tables messages, pr_links and prs, await    *)
(* GitHub or Discord, and go on with what they read before.  A task is the *)
(* sequence of operations it has still to do.  Its head is either an       *)
(* await, during which any other task may run, or one of SyncOps, which    *)
(* the event loop runs before it turns to another task.                    *)
(* A definition named Bug... is a mutated form of the definition after it. *)
(***************************************************************************)
EXTENDS Integers, FiniteSetsExt, PrRules

CONSTANTS
    PRs,            \* pull requests of the configured repositories
    None,           \* no row, no answer
    Handlers,       \* bound: names for the handler tasks alive at once
    Pref,           \* the notify preference of the one poster
    Kinds,          \* Kinds[p]: the kinds of change that happen to PR p on GitHub
    Links,          \* bound: the sets of PRs a user's message links
    MaxMessages,    \* bound: messages ever posted
    MaxReviews,     \* bound: reviews of one PR
    MaxChanges,     \* bound: changes on GitHub
    MaxUserActions, \* bound: what users do on Discord
    MaxFaults,      \* bound: calls that fail, webhooks that overtake others
    MaxRestarts,    \* bound: crashes
    MaxEvents       \* bound: all of the last four together

(* What a webhook request can say. *)
Events ==
    UNION {[kind: {"review"}, pr: PRs, review: Reviews], [kind: {"close"}, pr: PRs, life: Terminal],
           [kind: {"label"}, pr: PRs, ready: BOOLEAN], [kind: {"check"}, pr: PRs, failing: BOOLEAN],
           [kind: {"thread"}, pr: PRs]}

ASSUME PrBotAssumption ==
    /\ IsFiniteSet(PRs) /\ \A ps \in SUBSET PRs : ps # None
    /\ None \notin PRs \cup Row \cup Events \cup [links: SUBSET PRs, done: BOOLEAN]
    /\ "startup" \notin Handlers
    /\ Pref \in Prefs
    /\ Links \subseteq SUBSET PRs
    /\ Kinds \in [PRs -> SUBSET {"review", "dismiss", "close", "reopen", "label", "check", "thread"}]
    /\ {MaxMessages, MaxReviews, MaxChanges, MaxUserActions, MaxFaults, MaxRestarts, MaxEvents}
         \subseteq Nat

VARIABLES
    github,         \* what GitHub knows of each PR
    webhooks,       \* webhook requests on their way, oldest first
    content,        \* content[m]: the PRs message m links, None if it is not in the channel
    reactions,      \* reactions[m]: the managed emoji the bot has put on m
    posted,         \* messages ever posted
    byBot,          \* the auto-posted ones
    gateway,        \* Discord events on their way, in order
    old,            \* messages older than PR_RETENTION_DAYS
    row,            \* the table prs
    message,        \* the tables messages and pr_links
    task,           \* the operations each task has still to do
    up,             \* is the process alive?
    autoposting,    \* PrBot._autoposting
    autoposts,      \* this process's auto-posts, see Autopost (a history variable)
    trust,          \* has nothing gone wrong since the last clean start? (history)
    filled,         \* PRs whose row was fetched whole while tracked (history)
    owed,           \* changes worth a DM without their DM so far (history)
    bounded         \* how often each bounded thing may still happen

env     == <<github, content, reactions, posted, byBot, old>>
queues  == <<webhooks, gateway>>
tables  == <<row, message>>
memory  == <<up, autoposting>>
history == <<autoposts, trust, filled, owed>>
vars    == <<env, queues, tables, task, memory, history, bounded>>

Messages == 1..MaxMessages
Tasks    == Handlers \cup {"startup"}

Once(thing) ==
    /\ bounded[thing] > 0 /\ bounded.events > 0
    /\ bounded' = [bounded EXCEPT ![thing] = @ - 1, !.events = @ - 1]

(* GitHub's answer to a fetch of a PR, and the row it amounts to. *)
Truth(p) == [review |-> Derived(github[p].reviews), life |-> github[p].life,
             ready |-> github[p].ready, failing |-> github[p].failing,
             resolved |-> github[p].resolved]

Tracked == {m \in Messages : message[m] # None}
MessagesFor(p) == {m \in Tracked : p \in message[m].links}
NotDone(ms) == {m \in ms : ~message[m].done}
RowOr(p) == IF row[p] = None THEN DefaultRow ELSE row[p]

SyncOps == {"state", "reconcile", "notify", "unguard", "labels"}
Busy == {t \in Tasks : task[t] # <<>> /\ Head(task[t]).op \in SyncOps}
Idle == {t \in Tasks : task[t] = <<>>}

TypeOK ==
    /\ github \in [PRs -> [reviews: Seq(Reviews), life: Lives,
                           ready: BOOLEAN, failing: BOOLEAN, resolved: BOOLEAN]]
    /\ content \in [Messages -> (SUBSET PRs) \cup {None}]
    /\ reactions \in [Messages -> SUBSET Emoji]
    /\ posted \in 0..MaxMessages /\ byBot \subseteq 1..posted
    /\ old \subseteq Messages
    /\ row \in [PRs -> Row \cup {None}]
    /\ message \in [Messages -> [links: SUBSET PRs, done: BOOLEAN] \cup {None}]
    /\ Cardinality(Busy) <= 1
    /\ autoposting \subseteq PRs /\ autoposts \subseteq byBot
    /\ up \in BOOLEAN
    /\ ~up => webhooks = <<>> /\ gateway = <<>> /\ autoposting = {} /\ Idle = Tasks
    /\ trust \in {"whole", "healing", "broken"}
    /\ filled \subseteq PRs
    /\ owed \in [PRs -> Int]

Init ==
    /\ github \in [PRs -> [reviews: {<<>>}, life: {"open"}, ready: {FALSE},
                           failing: {FALSE}, resolved: {FALSE}]]
    /\ webhooks = <<>> /\ gateway = <<>>
    /\ content = [m \in Messages |-> None]
    /\ reactions = [m \in Messages |-> {}]
    /\ posted = 0 /\ byBot = {} /\ old = {}
    /\ row = [p \in PRs |-> None]
    /\ message = [m \in Messages |-> None]
    /\ task = [t \in Tasks |-> <<>>]
    /\ up = TRUE /\ autoposting = {} /\ autoposts = {}
    /\ trust = "whole" /\ filled = {} /\ owed = [p \in PRs |-> 0]
    /\ bounded = [changes |-> MaxChanges, users |-> MaxUserActions,
                  faults |-> MaxFaults, restarts |-> MaxRestarts, events |-> MaxEvents]
-----------------------------------------------------------------------------
(* The history variables.  trust is "whole" while the bot's tasks take     *)
(* turns and nothing fails, "broken" once anything does, and "healing"     *)
(* during the startup pass after a crash, which makes it whole again.      *)

Fill(ps) == filled' = IF trust' = "broken" THEN {}
                      ELSE {p \in filled \cup ps : \E m \in Messages :
                                message'[m] # None /\ p \in message'[m].links}
Owe(ps, n) == owed' = [p \in PRs |-> IF trust' # "whole" THEN 0
                                      ELSE IF p \in ps THEN owed[p] + n ELSE owed[p]]
Trusting(condition, ps) ==
    /\ trust' = IF condition THEN trust ELSE "broken"
    /\ Fill(ps) /\ Owe({}, 0)
Alone == Idle = Tasks
-----------------------------------------------------------------------------
(* What happens on GitHub.  Each change sends a webhook, which is lost if  *)
(* the bot is down: GitHub does not send it again.                         *)

Changed(kind, p, new, event, dms) ==
    /\ kind \in Kinds[p]
    /\ Once("changes")
    /\ github' = [github EXCEPT ![p] = new]
    /\ webhooks' = IF up /\ event # None THEN Append(webhooks, event) ELSE webhooks
    /\ trust' = IF trust = "whole" /\ (kind # "dismiss" \/ Derived(new.reviews) = "none")
                   /\ kind # "reopen"
                THEN trust ELSE "broken"
    /\ UNCHANGED <<content, reactions, posted, byBot, old, gateway, tables, task, memory, autoposts>>
    /\ Fill({}) /\ Owe({p}, dms)

SubmitReview(p, review, opensThread) ==
    /\ Len(github[p].reviews) < MaxReviews
    /\ opensThread => github[p].resolved
    /\ Changed("review", p,
               [github[p] EXCEPT !.reviews = Append(@, review), !.resolved = @ /\ ~opensThread],
               [kind |-> "review", pr |-> p, review |-> review],
               IF review = "self_comment" THEN 0 ELSE 1)

DismissReview(p, i) ==
    /\ github[p].reviews[i] \in {"approved", "changes_requested"}
    /\ Changed("dismiss", p, [github[p] EXCEPT !.reviews = [@ EXCEPT ![i] = "dismissed"]],
               [kind |-> "review", pr |-> p, review |-> "dismissed"], 0)

ClosePr(p, life) ==
    /\ github[p].life = "open" /\ life \in Terminal
    /\ Changed("close", p, [github[p] EXCEPT !.life = life],
               [kind |-> "close", pr |-> p, life |-> life], 1)

(* 'reopened' is one of the actions the parser of webhooks drops. *)
ReopenPr(p) ==
    /\ github[p].life = "closed"
    /\ Changed("reopen", p, [github[p] EXCEPT !.life = "open"], None, 0)

(* The PR is opened, or any of its labels comes or goes. *)
ChangeLabels(p, ready) ==
    Changed("label", p, [github[p] EXCEPT !.ready = ready],
            [kind |-> "label", pr |-> p, ready |-> ready], 0)

CompleteChecks(p) ==
    LET failing == ~github[p].failing IN
    Changed("check", p, [github[p] EXCEPT !.failing = failing],
            [kind |-> "check", pr |-> p, failing |-> failing], IF failing THEN 1 ELSE 0)

ResolveThreads(p) ==
    /\ github[p].reviews # <<>>
    /\ Changed("thread", p, [github[p] EXCEPT !.resolved = ~@], [kind |-> "thread", pr |-> p], 0)

GitHubChanges(p) ==
    \/ \E review \in Reviews \ {"dismissed"}, opens \in BOOLEAN : SubmitReview(p, review, opens)
    \/ \E i \in DOMAIN github[p].reviews : DismissReview(p, i)
    \/ \E life \in Terminal : ClosePr(p, life)
    \/ ReopenPr(p)
    \/ \E ready \in BOOLEAN : ChangeLabels(p, ready)
    \/ CompleteChecks(p)
    \/ ResolveThreads(p)
-----------------------------------------------------------------------------
(* What users do on Discord. *)

Notified(event) == gateway' = IF up THEN Append(gateway, event) ELSE gateway
UserActs ==
    /\ Once("users")
    /\ UNCHANGED <<github, byBot, webhooks, tables, task, memory, history>>

PostMessage(links) ==
    /\ posted < MaxMessages
    /\ UserActs
    /\ posted' = posted + 1
    /\ content' = [content EXCEPT ![posted + 1] = links]
    /\ Notified([kind |-> "post", message |-> posted + 1, links |-> links])
    /\ UNCHANGED <<reactions, old>>

EditMessage(m, links) ==
    /\ content[m] # None /\ content[m] # links /\ m \notin byBot
    /\ UserActs
    /\ content' = [content EXCEPT ![m] = links]
    /\ Notified([kind |-> "edit", message |-> m])
    /\ UNCHANGED <<reactions, posted, old>>

DeleteMessage(m) ==
    /\ content[m] # None
    /\ UserActs
    /\ content' = [content EXCEPT ![m] = None]
    /\ reactions' = [reactions EXCEPT ![m] = {}]
    /\ Notified([kind |-> "delete", message |-> m])
    /\ UNCHANGED <<posted, old>>

(* Not a user but time: the message leaves the retention window. *)
GrowOld(m) ==
    /\ content[m] # None /\ m \notin old
    /\ UserActs
    /\ old' = old \cup {m}
    /\ UNCHANGED <<content, reactions, posted, gateway>>
-----------------------------------------------------------------------------
(* The operations of a task. *)

Op(t) == Head(task[t])
At(t, op) == task[t] # <<>> /\ Op(t).op = op /\ up /\ Busy \subseteq {t}
Then(t, ops) == task' = [task EXCEPT ![t] = ops \o Tail(@)]

(* An await of GitHub keeps what the task knew before. *)
Await(op, p, known) == [op |-> op, pr |-> p, known |-> known, answer |-> None]
Ingest(m, ls)   == [op |-> "ingest", message |-> m, links |-> ls]
Reconcile(m)    == [op |-> "reconcile", message |-> m]
Pause           == [op |-> "sleep"]

InOrder(ms) ==
    CHOOSE s \in [1..Cardinality(ms) -> ms] : \A i, j \in 1..Cardinality(ms) : i < j => s[i] < s[j]
Reconciles(ms)  == [i \in 1..Cardinality(ms) |-> Reconcile(InOrder(ms)[i])]
(* The startup pass sleeps after each call, then goes on with its next part. *)
Paced(ops, next) ==
    [i \in 1..(2 * Len(ops)) |-> IF i % 2 = 1 THEN ops[(i + 1) \div 2] ELSE Pause] \o <<[op |-> next]>>
BugDms(p, transitions) ==
    [i \in 1..(Cardinality({tr \in transitions : ShouldDm(Pref, tr)}) * Cardinality(MessagesFor(p))) |->
        [op |-> "dm", pr |-> p]]
Dms(p, transitions) ==
    [i \in 1..Cardinality({tr \in transitions : ShouldDm(Pref, tr)}) |-> [op |-> "dm", pr |-> p]]

(* A GitHub answer: the PR, less what could not be read of it. *)
GitHubOps == {"fetch", "threads", "rethread", "recheck", "author", "poll"}
Answer(t, lost) ==
    /\ up /\ task[t] # <<>> /\ Op(t).op \in GitHubOps /\ Op(t).answer = None
    /\ Then(t, <<[Op(t) EXCEPT !.answer = [row |-> Truth(Op(t).pr), lost |-> lost]]>>)
    /\ IF lost = {} THEN UNCHANGED bounded ELSE Once("faults")
    /\ UNCHANGED <<env, queues, tables, memory, autoposts>>
    /\ Trusting(lost = {}, {})

Answered(t, op) == At(t, op) /\ Op(t).answer # None
Unread(t, column) == {"all", column} \cap Op(t).answer.lost # {}
(* Of an answer, the columns that could be read; of a row, the others. *)
Read(t, was) ==
    [Op(t).answer.row EXCEPT !.failing  = IF Unread(t, "failing") THEN was.failing ELSE @,
                             !.resolved = IF Unread(t, "resolved") THEN was.resolved ELSE @]

(* ingest_message up to its first await: the message and its links are     *)
(* stored; a PR without a row is then fetched, and the message reconciled. *)
States(links) == [i \in 1..Cardinality(links) |-> [op |-> "state", pr |-> SetToSeq(links)[i]]]
Stored(m, links) ==
    message' = [message EXCEPT ![m] = [links |-> links, done |-> @ # None /\ @.done]]
IngestOps(m, links) == States(links) \o <<Reconcile(m)>>

IngestMessage(t) ==
    /\ At(t, "ingest")
    /\ Stored(Op(t).message, Op(t).links)
    /\ Then(t, IngestOps(Op(t).message, Op(t).links))
    /\ UNCHANGED <<env, queues, row, memory, autoposts, bounded>>
    /\ Trusting(TRUE, {})

(* A known PR is not fetched; if its title is unknown, that is. *)
LookUpState(t) ==
    /\ At(t, "state")
    /\ LET p == Op(t).pr IN
       IF row[p] = None THEN Then(t, <<Await("fetch", p, None)>>)
       ELSE \E ops \in {<<>>, <<Pause>>} : Then(t, ops)
    /\ UNCHANGED <<env, queues, tables, memory, history, bounded>>

FetchAndStore(t) ==
    /\ Answered(t, "fetch")
    /\ LET p == Op(t).pr IN
       /\ row' = IF Unread(t, "review") THEN row ELSE [row EXCEPT ![p] = Read(t, RowOr(p))]
       /\ UNCHANGED message
       /\ Trusting(TRUE, {p})
    /\ Then(t, <<>>)
    /\ UNCHANGED <<env, queues, memory, autoposts, bounded>>
-----------------------------------------------------------------------------
(* reconcile_message: the rows are read, the message is fetched, its       *)
(* reactions are changed one by one, and done is set from what was read.   *)

Mark(rows, m) ==
    CASE rows = {} \/ AllTerminal(rows) = message[m].done -> "keep"
      [] OTHER -> IF AllTerminal(rows) THEN "done" ELSE "active"

ReadRows(t) ==
    /\ At(t, "reconcile")
    /\ LET m == Op(t).message
           links == IF m \in Tracked THEN message[m].links ELSE {}
           rows == {RowOr(p) : p \in links} IN
       /\ row' = [p \in PRs |-> IF p \in links THEN RowOr(p) ELSE row[p]]
       /\ Then(t, IF m \notin Tracked THEN <<>>
                  ELSE <<[op |-> "look", message |-> m, want |-> Desired(rows), mark |-> Mark(rows, m)]>>)
    /\ UNCHANGED <<env, queues, message, memory, history, bounded>>

(* Discord answers with the reactions, or that the message is gone. *)
FetchMessage(t) ==
    /\ At(t, "look")
    /\ LET m == Op(t).message
           want == Op(t).want IN
       Then(t, IF content[m] = None THEN <<>>
               ELSE <<[op |-> "react", message |-> m, mark |-> Op(t).mark,
                       add |-> want \ reactions[m], remove |-> reactions[m] \ want]>>)
    /\ UNCHANGED <<env, queues, tables, memory, history, bounded>>

(* One reaction is added, or removed once all are added. *)
React(t, emoji, fails) ==
    /\ At(t, "react")
    /\ LET m == Op(t).message
           adds == emoji \in Op(t).add IN
       /\ adds \/ (Op(t).add = {} /\ emoji \in Op(t).remove)
       /\ Then(t, <<[Op(t) EXCEPT !.add = @ \ {emoji}, !.remove = @ \ {emoji}]>>)
       /\ reactions' = IF fails \/ content[m] = None THEN reactions
                       ELSE [reactions EXCEPT ![m] = IF adds THEN @ \cup {emoji} ELSE @ \ {emoji}]
    /\ IF fails THEN Once("faults") ELSE UNCHANGED bounded
    /\ UNCHANGED <<github, content, posted, byBot, old, queues, tables, memory, autoposts>>
    /\ Trusting(~fails, {})

UpdateDone(t) ==
    /\ At(t, "react") /\ Op(t).add \cup Op(t).remove = {}
    /\ LET m == Op(t).message IN
       message' = IF m \in Tracked /\ Op(t).mark # "keep"
                  THEN [message EXCEPT ![m] = [links |-> message[m].links, done |-> Op(t).mark = "done"]]
                  ELSE message
    /\ Then(t, <<>>)
    /\ UNCHANGED <<env, queues, row, memory, history, bounded>>

(* A DM goes out. *)
DmUser(t) ==
    /\ At(t, "dm")
    /\ Then(t, <<>>)
    /\ UNCHANGED <<env, queues, tables, memory, autoposts, trust, filled, bounded>>
    /\ Owe({Op(t).pr}, -1)

Sleep(t) ==
    /\ At(t, "sleep")
    /\ Then(t, <<>>)
    /\ UNCHANGED <<env, queues, tables, memory, history, bounded>>

(* A call to Discord fails; what the task does about it is to skip it.     *)
(* That a failed post has landed is AutopostUnanswered.                    *)
DiscordFails(t) ==
    /\ task[t] # <<>> /\ At(t, Op(t).op) /\ Op(t).op \in {"look", "reread", "post", "dm", "history"}
    /\ Once("faults")
    /\ IF Op(t).op = "history" THEN task' = [task EXCEPT ![t] = <<>>] ELSE Then(t, <<>>)
    /\ UNCHANGED <<env, queues, tables, memory, autoposts>>
    /\ Trusting(FALSE, {})
-----------------------------------------------------------------------------
(* The webhook handlers.  A request that overtakes another is a fault. *)

Starts(t, ops) ==
    /\ up /\ Busy = {} /\ t \in Handlers /\ task[t] = <<>>
    /\ task' = [task EXCEPT ![t] = ops]
Delivers(t, i, kind) ==
    /\ i \in DOMAIN webhooks /\ webhooks[i].kind = kind
    /\ webhooks' = RemoveAt(webhooks, i)
    /\ IF i = 1 THEN UNCHANGED bounded ELSE Once("faults")
    /\ UNCHANGED <<env, gateway, message>>
    /\ Trusting(Alone /\ i = 1, {})

(* The two kinds of event that may end in a DM and touch done messages. *)
Notify(p, transitions) == [op |-> "notify", pr |-> p, transitions |-> transitions]

HandleReview(t, i) ==
    /\ Delivers(t, i, "review")
    /\ LET p == webhooks[i].pr
           review == webhooks[i].review
           status == Reviewed(RowOr(p).review, review)
           changed == status \notin {RowOr(p).review, "none"} IN
       /\ row' = [row EXCEPT ![p] = [RowOr(p) EXCEPT !.review = status]]
       /\ Starts(t, (IF review \in {"approved", "dismissed"} THEN <<>>
                     ELSE <<Await("threads", p, RowOr(p).resolved)>>)
                    \o <<Notify(p, IF changed THEN {status} ELSE {})>>)
    /\ UNCHANGED <<memory, autoposts>>

(* A new review may have opened threads: the answer is compared with what  *)
(* the row held before the await.                                          *)
ReadThreads(t) ==
    /\ Answered(t, "threads")
    /\ LET p == Op(t).pr
           resolved == Op(t).answer.row.resolved IN
       row' = IF Unread(t, "resolved") \/ resolved = Op(t).known THEN row
              ELSE [row EXCEPT ![p] = [RowOr(p) EXCEPT !.resolved = resolved]]
    /\ Then(t, <<>>)
    /\ UNCHANGED <<env, queues, message, memory, history, bounded>>

HandleClose(t, i) ==
    /\ Delivers(t, i, "close")
    /\ LET p == webhooks[i].pr
           life == webhooks[i].life
           changed == IF life = "merged" THEN RowOr(p).life # "merged" ELSE RowOr(p).life = "open" IN
       /\ row' = [row EXCEPT ![p] = [RowOr(p) EXCEPT !.life = life]]
       /\ Starts(t, <<Notify(p, IF changed THEN {life} ELSE {})>>)
    /\ UNCHANGED <<memory, autoposts>>

(* The messages are read after the await; done ones count only for an end. *)
NotifyMessages(t) ==
    /\ At(t, "notify")
    /\ LET p == Op(t).pr
           ms == MessagesFor(p)
           ends == Op(t).transitions \cap Terminal # {}
           concerned == IF ends THEN ms ELSE NotDone(ms) IN
       Then(t, Reconciles(concerned) \o (IF concerned = {} THEN <<>> ELSE Dms(p, Op(t).transitions)))
    /\ UNCHANGED <<env, queues, tables, memory, history, bounded>>

HandleThread(t, i) ==
    /\ Delivers(t, i, "thread")
    /\ LET p == webhooks[i].pr
           ms == MessagesFor(p) IN
       Starts(t, IF ms = {} THEN <<>> ELSE <<Await("rethread", p, NotDone(ms))>>)
    /\ UNCHANGED <<row, memory, autoposts>>

RecheckThreads(t) ==
    /\ Answered(t, "rethread")
    /\ LET p == Op(t).pr
           resolved == Op(t).answer.row.resolved IN
       IF Unread(t, "resolved") \/ (row[p] # None /\ row[p].resolved = resolved)
       THEN Then(t, <<>>) /\ UNCHANGED row
       ELSE /\ row' = [row EXCEPT ![p] = [RowOr(p) EXCEPT !.resolved = resolved]]
            /\ Then(t, Reconciles(Op(t).known))
    /\ UNCHANGED <<env, queues, message, memory, history, bounded>>

(* The code loops over the PRs a check event names; here an event names    *)
(* one, and several PRs are several events.                                *)
HandleCheck(t, i) ==
    /\ Delivers(t, i, "check")
    /\ LET p == webhooks[i].pr
           ms == MessagesFor(p) IN
       Starts(t, IF ms = {} THEN <<>>
                 ELSE <<Await("recheck", p, [messages |-> NotDone(ms), failing |-> webhooks[i].failing])>>)
    /\ UNCHANGED <<row, memory, autoposts>>

(* If only the check runs cannot be read, the webhook's conclusion counts. *)
RecheckChecks(t) ==
    /\ Answered(t, "recheck")
    /\ LET p == Op(t).pr
           ms == Op(t).known.messages
           failing == IF Unread(t, "failing") THEN Op(t).known.failing ELSE Op(t).answer.row.failing IN
       IF "all" \in Op(t).answer.lost \/ RowOr(p).failing = failing
       THEN Then(t, <<>>) /\ UNCHANGED row
       ELSE /\ row' = [row EXCEPT ![p] = [RowOr(p) EXCEPT !.failing = failing]]
            /\ Then(t, Reconciles(ms) \o (IF failing /\ ms # {} THEN Dms(p, {"checks_failed"}) ELSE <<>>))
    /\ UNCHANGED <<env, queues, message, memory, history, bounded>>

(* A ready PR no message tracks is posted by the bot, then its labels are  *)
(* stored.  Every PR's author has linked a Discord account.  A payload     *)
(* need not name the author: then GitHub is asked, after the check that no *)
(* message tracks the PR and before the guard is looked at.                *)
BugMayAutopost(p) == MessagesFor(p) = {}
MayAutopost(p) == MessagesFor(p) = {} /\ p \notin autoposting

Posts(p, tracked) ==
    <<[op |-> "post", pr |-> p, tracked |-> tracked], [op |-> "unguard", pr |-> p]>>

HandleLabel(t, i) ==
    /\ Delivers(t, i, "label")
    /\ LET p == webhooks[i].pr
           ready == webhooks[i].ready
           labels == <<[op |-> "labels", pr |-> p, ready |-> ready]>> IN
       \E named \in BOOLEAN :
         LET posts == named /\ ready /\ MayAutopost(p)
             asks == ~named /\ ready /\ MessagesFor(p) = {} IN
         /\ autoposting' = IF posts THEN autoposting \cup {p} ELSE autoposting
         /\ Starts(t, IF posts THEN Posts(p, FALSE) \o labels
                      ELSE IF asks THEN <<Await("author", p, None)>> \o labels
                      ELSE labels)
    /\ UNCHANGED <<row, up, autoposts>>

(* The guard is looked at only now; whether a message tracks the PR is not *)
(* asked again, but noted for autoposts.                                   *)
FetchAuthor(t) ==
    /\ Answered(t, "author")
    /\ LET p == Op(t).pr
           posts == ~Unread(t, "author") /\ p \notin autoposting IN
       /\ autoposting' = IF posts THEN autoposting \cup {p} ELSE autoposting
       /\ Then(t, IF posts THEN Posts(p, MessagesFor(p) # {}) ELSE <<>>)
    /\ UNCHANGED <<env, queues, tables, up, history, bounded>>

(* The message is in the channel.  Of these, autoposts keeps the messages  *)
(* the bot was told of and whose PR nothing tracked when it took the guard. *)
AutopostLands(t) ==
    /\ At(t, "post")
    /\ posted < MaxMessages
    /\ LET m == posted + 1 IN
       /\ posted' = m
       /\ content' = [content EXCEPT ![m] = {Op(t).pr}]
       /\ byBot' = byBot \cup {m}
    /\ UNCHANGED <<github, reactions, old, queues, tables, memory>>

Autopost(t) ==
    /\ AutopostLands(t)
    /\ autoposts' = IF Op(t).tracked THEN autoposts ELSE autoposts \cup {posted + 1}
    /\ Then(t, <<Ingest(posted + 1, {Op(t).pr})>>)
    /\ UNCHANGED <<trust, filled, owed, bounded>>

(* Discord has carried the post out but its answer raises: nothing tracks  *)
(* the message.                                                            *)
AutopostUnanswered(t) ==
    /\ AutopostLands(t)
    /\ Once("faults")
    /\ Then(t, <<>>)
    /\ UNCHANGED autoposts
    /\ Trusting(FALSE, {})

Unguard(t) ==
    /\ At(t, "unguard")
    /\ autoposting' = autoposting \ {Op(t).pr}
    /\ Then(t, <<>>)
    /\ UNCHANGED <<env, queues, tables, up, history, bounded>>

StoreLabels(t) ==
    /\ At(t, "labels")
    /\ LET p == Op(t).pr IN
       IF RowOr(p).ready = Op(t).ready THEN Then(t, <<>>) /\ UNCHANGED row
       ELSE /\ row' = [row EXCEPT ![p] = [RowOr(p) EXCEPT !.ready = Op(t).ready]]
            /\ Then(t, Reconciles(NotDone(MessagesFor(p))))
    /\ UNCHANGED <<env, queues, message, memory, history, bounded>>
-----------------------------------------------------------------------------
(* The Discord handlers take the gateway's events in order. *)

TakesEvent(kind) ==
    /\ gateway # <<>> /\ Head(gateway).kind = kind
    /\ gateway' = Tail(gateway)
    /\ UNCHANGED <<env, webhooks, bounded>>

OnMessage(t) ==
    /\ TakesEvent("post")
    /\ Stored(Head(gateway).message, Head(gateway).links)
    /\ Starts(t, IngestOps(Head(gateway).message, Head(gateway).links))
    /\ UNCHANGED <<row, memory, autoposts>>
    /\ Trusting(Alone, {})

Rereads(t, m) == Starts(t, <<[op |-> "reread", message |-> m]>>)

OnEdit(t) ==
    /\ TakesEvent("edit")
    /\ Rereads(t, Head(gateway).message)
    /\ UNCHANGED <<tables, memory, autoposts>>
    /\ Trusting(Alone, {})

(* /pr_resync: the message is read again, for anyone who asks. *)
Resync(t, m) ==
    /\ m <= posted
    /\ Rereads(t, m)
    /\ Once("users")
    /\ UNCHANGED <<env, queues, tables, memory, autoposts>>
    /\ Trusting(Alone, {})

RereadMessage(t) ==
    /\ At(t, "reread")
    /\ LET m == Op(t).message IN
       Then(t, IF content[m] = None THEN <<>> ELSE <<Ingest(m, content[m])>>)
    /\ UNCHANGED <<env, queues, tables, memory, history, bounded>>

OnDelete ==
    /\ up /\ Busy = {}
    /\ TakesEvent("delete")
    /\ message' = [message EXCEPT ![Head(gateway).message] = None]
    /\ UNCHANGED <<row, task, memory, autoposts>>
    /\ Trusting(Alone, {})
-----------------------------------------------------------------------------
(* Cleanup, crash, restart and the startup pass. *)

Cleaned ==
    LET kept == [m \in Messages |-> IF m \in old THEN None ELSE message[m]]
        linked(p) == \E m \in Messages : kept[m] # None /\ p \in kept[m].links IN
    /\ message' = kept
    /\ row' = [p \in PRs |-> IF linked(p) THEN row[p] ELSE None]

(* That checks fail may be told again of a PR whose row was forgotten. *)
Forgotten == {p \in PRs : row[p] # None /\ row'[p] = None /\ row[p].failing}

RunCleanup ==
    /\ up /\ Busy = {}
    /\ Cleaned /\ tables' # tables
    /\ UNCHANGED <<env, queues, task, memory, autoposts, bounded>>
    /\ trust' = IF Alone THEN trust ELSE "broken"
    /\ Fill({}) /\ Owe(Forgotten, 1)

Crash ==
    /\ up /\ Once("restarts")
    /\ up' = FALSE
    /\ webhooks' = <<>> /\ gateway' = <<>>
    /\ task' = [t \in Tasks |-> <<>>]
    /\ autoposting' = {} /\ autoposts' = {}
    /\ UNCHANGED <<env, tables>>
    /\ Trusting(FALSE, {})

(* The first cleanup runs before the bot is ready; then the pass starts. *)
Restart ==
    /\ ~up
    /\ up' = TRUE
    /\ Cleaned
    /\ LET settled == {m \in Messages : message'[m] # None /\ message'[m].links # {}} IN
       task' = [task EXCEPT !["startup"] = <<[op |-> "history", skip |-> settled]>>]
    /\ trust' = "healing"
    /\ UNCHANGED <<env, queues, autoposting, autoposts, filled, owed, bounded>>

(* Messages the tables miss, or hold without links, are ingested. *)
ScanHistory(t) ==
    /\ At(t, "history")
    /\ LET found == {m \in Messages : content[m] # None} \ (old \cup Op(t).skip)
           Found(i) == InOrder(found)[i] IN
       Then(t, Paced([i \in 1..Cardinality(found) |-> Ingest(Found(i), content[Found(i)])], "polls"))
    /\ UNCHANGED <<env, queues, tables, memory, history, bounded>>

ActivePRs == {p \in PRs : row[p] # None /\ ~IsTerminal(row[p]) /\ NotDone(MessagesFor(p)) # {}}

(* An open PR all of whose messages say done is not polled, so not healed. *)
ListActivePRs(t) ==
    /\ At(t, "polls")
    /\ LET Active(i) == SetToSeq(ActivePRs)[i] IN
       Then(t, Paced([i \in 1..Cardinality(ActivePRs) |-> Await("poll", Active(i), row[Active(i)])], "sweep"))
    /\ UNCHANGED <<env, queues, tables, memory, autoposts, bounded>>
    /\ Trusting(\A p \in PRs : row[p] # None /\ ~IsTerminal(row[p]) /\ MessagesFor(p) # {}
                                => p \in ActivePRs, {})

(* The answer is compared with the row as listed, not as it is by now. *)
BugMissed(was, new) == new.review # was.review \/ new.life # was.life
Missed(was, new) == new # was

PollPR(t) ==
    /\ Answered(t, "poll")
    /\ LET p == Op(t).pr
           was == Op(t).known
           new == Read(t, was)
           checks == IF Unread(t, "failing") THEN RowOr(p).failing ELSE new.failing
           ms == MessagesFor(p)
           transitions == ({new.life} \cap Terminal)
                          \cup (IF new.review # was.review THEN {new.review} \ {"none"} ELSE {})
                          \cup (IF new.failing /\ ~was.failing THEN {"checks_failed"} ELSE {}) IN
       /\ IF "all" \in Op(t).answer.lost \/ ~Missed(was, new)
          THEN Then(t, <<>>) /\ UNCHANGED row
          ELSE /\ row' = [row EXCEPT ![p] = [new EXCEPT !.failing = checks]]
               /\ Then(t, Reconciles(ms) \o (IF NotDone(ms) = {} THEN <<>> ELSE Dms(p, transitions)))
       /\ UNCHANGED message
       /\ Trusting(TRUE, {p})
    /\ UNCHANGED <<env, queues, memory, autoposts, bounded>>

(* The last step of the pass reconciles every message in the window. *)
BugToSweep == {m \in Tracked \ old : message[m].links \cap ActivePRs # {}}
ToSweep == Tracked \ old

SweepMessages(t) ==
    /\ At(t, "sweep")
    /\ Then(t, Paced(Reconciles(ToSweep), "complete"))
    /\ UNCHANGED <<env, queues, tables, memory, history, bounded>>

StartupComplete(t) ==
    /\ At(t, "complete")
    /\ Then(t, <<>>)
    /\ trust' = IF trust = "healing" THEN "whole" ELSE trust
    /\ UNCHANGED <<env, queues, tables, memory, autoposts, filled, owed, bounded>>
-----------------------------------------------------------------------------
(* What may be missing from an answer, by what was asked. *)
Lost(op) == {{}, {"all"}} \cup (CASE op \in {"fetch", "poll"} -> {{"failing"}, {"resolved"}}
                                  [] op = "recheck" -> {{"failing"}}
                                  [] OTHER -> {})

Step(t) ==
    \/ \E lost \in Lost(Op(t).op) : Answer(t, lost)
    \/ IngestMessage(t) \/ LookUpState(t) \/ FetchAndStore(t)
    \/ ReadRows(t) \/ FetchMessage(t) \/ UpdateDone(t)
    \/ \E emoji \in Emoji, fails \in BOOLEAN : React(t, emoji, fails)
    \/ DmUser(t) \/ Sleep(t) \/ DiscordFails(t)
    \/ ReadThreads(t) \/ NotifyMessages(t) \/ RecheckThreads(t) \/ RecheckChecks(t)
    \/ FetchAuthor(t) \/ Autopost(t) \/ AutopostUnanswered(t) \/ Unguard(t)
    \/ StoreLabels(t) \/ RereadMessage(t)
    \/ ScanHistory(t) \/ ListActivePRs(t) \/ PollPR(t) \/ SweepMessages(t) \/ StartupComplete(t)

Receive(t) ==
    \/ \E i \in DOMAIN webhooks :
         HandleReview(t, i) \/ HandleClose(t, i) \/ HandleThread(t, i) \/ HandleCheck(t, i) \/ HandleLabel(t, i)
    \/ OnMessage(t) \/ OnEdit(t)
    \/ \E m \in Messages : Resync(t, m)

Next ==
    \/ \E t \in Tasks \ Idle : Step(t)
    \/ \E t \in Handlers \cap Idle : Receive(t)
    \/ OnDelete \/ RunCleanup \/ Crash \/ Restart
    \/ \E p \in PRs : GitHubChanges(p)
    \/ \E links \in Links : PostMessage(links) \/ \E m \in Messages : EditMessage(m, links)
    \/ \E m \in Messages : DeleteMessage(m) \/ GrowOld(m)

Spec == Init /\ [][Next]_vars
-----------------------------------------------------------------------------
(* Properties. *)

Quiet == up /\ Alone /\ webhooks = <<>> /\ gateway = <<>>
Shown == {m \in Tracked \ old : content[m] # None}
RowsOf(m) == {RowOr(p) : p \in message[m].links}

(* Once every task has ended, a message that is not done carries exactly   *)
(* the emoji its rows call for, done says whether all its PRs have ended,  *)
(* and a done message carries the emoji of that end.  This holds as long   *)
(* as tasks take turns and nothing fails, and holds again after the first  *)
(* undisturbed startup pass, whatever overlapped, failed or crashed before.*)
ShowsRows ==
    Quiet /\ trust = "whole" =>
        \A m \in Shown :
            /\ ~message[m].done => reactions[m] = Desired(RowsOf(m))
            /\ RowsOf(m) # {} => message[m].done = AllTerminal(RowsOf(m))
            /\ message[m].done /\ RowsOf(m) # {} =>
                   reactions[m] \cap Terminal = Desired(RowsOf(m)) \cap Terminal

(* In the same circumstances the row of a PR that was fetched whole while  *)
(* some message tracked it calls for the emoji GitHub's state calls for:   *)
(* the webhooks have kept it up to date, or the startup poll has.          *)
RowsTrue ==
    Quiet /\ trust = "whole" =>
        \A p \in filled : row[p] # None /\ Desired({row[p]}) = Desired({Truth(p)})

(* In the same circumstances the poster gets at most one DM for each       *)
(* change on GitHub, however many of the poster's messages link the PR: a  *)
(* failing check whose row the cleanup forgot may be told once more.       *)
NoExtraDm == \A p \in PRs : owed[p] >= 0

(* However webhooks overlap, one process never has two auto-posts of one   *)
(* PR in the channel, both within the window, but for two kinds the code   *)
(* lets through: a post whose answer raised, which nothing tracks, and the *)
(* post of a payload without author whose PR came to be tracked while      *)
(* GitHub was asked for the author (see autoposts).                        *)
AutopostOnce ==
    \A p \in PRs : Cardinality({m \in autoposts \ old : content[m] = {p}}) <= 1

(* The README's promise, "Keeps each message's reactions matching the true *)
(* PR state", for tasks that take turns and calls that never fail.  It is  *)
(* false: a review of a PR that no message links creates the PR's row, the *)
(* check webhooks of such a PR are dropped, and a message that links the   *)
(* PR later finds the row there and does not fetch the PR.                 *)
ReactionsTrue ==
    Quiet /\ trust = "whole" =>
        \A m \in Shown : ~message[m].done =>
            reactions[m] = Desired({Truth(p) : p \in message[m].links})
=============================================================================
