------------------------ MODULE DiscordMirrorProofs ------------------------
(***************************************************************************)
(* TLAPS proofs about DiscordMirror, for any groups, tasks, changes,       *)
(* messages and restarts.                                                  *)
(***************************************************************************)
EXTENDS DiscordMirror, TLAPS

Stages  == {"start", "read", "done"}
TaskSet == [op: {"idle", "post", "edit", "delete"}, at: Stages, group: Groups \cup {None},
            message: Messages \cup {None}, copy: 0..MaxVersion]

(* Only posts and edits are about a group; an edit knows its message from  *)
(* the start, a post once Discord has assigned an id.                      *)
TaskOK(k) ==
    /\ k.op \in {"post", "edit"} <=> k.group # None
    /\ k.op \in {"idle", "delete"} => k.at = "start"
    /\ k.op = "edit" => k.message \in Messages
    /\ k.op = "post" => (k.message \in Messages <=> k.at = "done")

TasksFit == \A t \in Tasks : TaskOK(task[t])

(* A message belongs to one group: the group whose row tracks it, whose    *)
(* edit of it is queued or under way, or whose post has created it.        *)
Claims(g, m) ==
    \/ messageId[g] = m
    \/ <<g, m>> \in editQueue
    \/ \E t \in Tasks : task[t].group = g /\ task[t].message = m

OwnerInv ==
    /\ \A g \in Groups : g \notin live => messageId[g] = None
    /\ \A g \in Groups, m \in Messages : Claims(g, m) => m <= lastMessage
    /\ \A g, h \in Groups, m \in Messages : Claims(g, m) /\ Claims(h, m) => g = h

(* Until calls or changes of a group overlap, its calls take turns.        *)
Rested == Groups \ raced

TurnsInv ==
    \A t, u \in Tasks :
        /\ task[t].group = task[u].group /\ task[t].group \in Rested
        /\ task[t].at # "start" /\ task[u].at # "start"
        => t = u

(* Such a group is posted for once: by its ingest or by the backfill, and  *)
(* only while its row tracks nothing.                                      *)
PostsFor(t, g) == task[t].op = "post" /\ task[t].group = g
ToBackfill(g) == backfillQueue # None /\ g \in backfillQueue

PostInv ==
    /\ backfillQueue = None => \A g \in Rested, t \in Tasks : ~PostsFor(t, g)
    /\ \A g \in Rested, t, u \in Tasks : PostsFor(t, g) /\ PostsFor(u, g) => t = u
    /\ \A g \in Rested, t \in Tasks : PostsFor(t, g) => ~ToBackfill(g)
    /\ \A g \in live \cap Rested, t \in Tasks : PostsFor(t, g) => messageId[g] = None
    /\ \A g \in live \cap Rested : ToBackfill(g) => messageId[g] = None

(* An edit that waits is of the message its row tracks, or that message is *)
(* gone, or the row will track none before the server starts again.        *)
EditOK(g, m) ==
    /\ m \in channel \/ backfillQueue = None => messageId[g] \in {None, m}
    /\ m \in channel /\ backfillQueue = None => messageId[g] = m
    /\ m \in channel => ~ToBackfill(g) /\ \A t \in Tasks : ~PostsFor(t, g)

EditWaits(g, m) ==
    \/ <<g, m>> \in editQueue
    \/ \E t \in Tasks : /\ task[t].op = "edit" /\ task[t].at # "done"
                        /\ task[t].group = g /\ task[t].message = m

EditInv == \A g \in live \cap Rested, m \in Messages : EditWaits(g, m) => EditOK(g, m)

(* What a task in flight holds or has shown is the group as it is, unless  *)
(* a change has flagged the group since; an edit is never overtaken so.    *)
Excused(g) == hasActivity[g] \/ g \in gaveUp

FreshRow(g) == messageId[g] # None => shows[messageId[g]] = version[g] \/ Excused(g)

FreshCall(k, g) ==
    /\ k.op = "post" /\ k.at = "read" => k.copy = version[g] \/ Excused(g)
    /\ k.op = "post" /\ k.at = "done" => shows[k.message] = version[g] \/ Excused(g)
    /\ k.op = "edit" /\ k.at = "read" => k.copy = version[g]
    /\ k.op = "edit" /\ k.at = "done" => /\ messageId[g] \in {None, k.message}
                                        /\ shows[k.message] = version[g]

Fresh(g) == FreshRow(g) /\ \A t \in Tasks : task[t].group = g => FreshCall(task[t], g)

FreshInv == \A g \in live \cap Rested : Fresh(g)
-----------------------------------------------------------------------------
LEMMA TypedInit == Init => TypeOK /\ TasksFit
BY MirrorAssumption DEF Init, TypeOK, TasksFit, TaskOK, Messages, Idle, Call

(* Starting and finishing a call. *)
LEMMA CallsTyped ==
    /\ Idle \in TaskSet /\ TaskOK(Idle)
    /\ \A g \in Groups : Post(g) \in TaskSet /\ TaskOK(Post(g))
    /\ \A g \in Groups, m \in Messages : Edit(g, m) \in TaskSet /\ TaskOK(Edit(g, m))
    /\ \A m \in Messages : Delete(m) \in TaskSet /\ TaskOK(Delete(m))
BY MirrorAssumption DEF TaskSet, TaskOK, Stages, Messages, Idle, Post, Edit, Delete, Call

LEMMA TasksTyped ==
    ASSUME TypeOK, TasksFit, [Next]_vars
    PROVE  task' \in [Tasks -> TaskSet] /\ TasksFit'
<1>1. /\ task \in [Tasks -> TaskSet]
      /\ \A t \in Tasks : task[t] \in TaskSet /\ TaskOK(task[t])
      /\ Spawned \subseteq Tasks /\ "refresh" \in Tasks /\ "backfill" \in Tasks
  BY DEF TypeOK, TasksFit, TaskSet, Stages, Tasks
<1>2. ASSUME NEW t \in Tasks, NEW k \in TaskSet, TaskOK(k), task' = [task EXCEPT ![t] = k]
      PROVE  task' \in [Tasks -> TaskSet] /\ TasksFit'
  BY <1>1, <1>2 DEF TasksFit
<1>3. ASSUME UNCHANGED task
      PROVE  task' \in [Tasks -> TaskSet] /\ TasksFit'
  BY <1>1, <1>3 DEF TasksFit
<1>4. ASSUME NEW t \in Tasks, Finish(t)
      PROVE  task' \in [Tasks -> TaskSet] /\ TasksFit'
  BY <1>2, <1>4, CallsTyped DEF Finish
<1>5. ASSUME NEW g \in Groups, NEW t \in Spawned, IngestNew(g, t) \/ Mutate(g, t) \/ Remove(g, t)
      PROVE  task' \in [Tasks -> TaskSet] /\ TasksFit'
  <2>1. messageId[g] # None => messageId[g] \in Messages
    BY DEF TypeOK
  <2> QED
    BY <1>1, <1>2, <1>3, <1>5, <2>1, CallsTyped DEF IngestNew, Mutate, Remove, Start
<1>6. ASSUME NEW t \in Tasks, TaskStep(t)
      PROVE  task' \in [Tasks -> TaskSet] /\ TasksFit'
  <2>1. CASE Read(t) /\ task[t].group \in live
    <3>1. task[t].group \in Groups /\ version[task[t].group] \in 0..MaxVersion
      BY <2>1 DEF TypeOK
    <3> QED
      BY <1>1, <1>2, <2>1, <3>1, MirrorAssumption DEF Read, Goes, TaskSet, TaskOK, Stages
  <2>2. CASE Send(t)
    <3>1. lastMessage + 1 \in Messages /\ 0 \in 0..MaxVersion
      BY <2>2, MirrorAssumption DEF Send, TypeOK, Messages
    <3> QED
      BY <1>1, <1>2, <2>2, <3>1 DEF Send, Goes, TaskSet, TaskOK, Stages
  <2>3. CASE EditLands(t)
    <3>1. 0 \in 0..MaxVersion
      BY MirrorAssumption
    <3> QED
      BY <1>1, <1>2, <2>3, <3>1 DEF EditLands, Goes, TaskSet, TaskOK, Stages
  <2>4. CASE ~(Read(t) /\ task[t].group \in live) /\ ~Send(t) /\ ~EditLands(t)
    <3>1. Finish(t)
      BY <1>6, <2>4 DEF TaskStep, Read, NoChannel, PostResume, PostFails, EditResume,
         EditNotFound, EditFails, DeleteLands, DeleteFails, Raise
    <3> QED
      BY <1>4, <3>1
  <2> QED
    BY <2>1, <2>2, <2>3, <2>4
<1>7. ASSUME RefreshLoop
      PROVE  task' \in [Tasks -> TaskSet] /\ TasksFit'
  <2>1. \A pair \in editQueue : pair[1] \in Groups /\ pair[2] \in Messages
    BY DEF TypeOK
  <2>2. deleteQueue \subseteq Messages
    BY DEF TypeOK
  <2>3. CASE RefreshEdit
    BY <1>1, <1>2, <2>1, <2>3, CallsTyped DEF RefreshEdit
  <2>4. CASE RefreshDelete
    BY <1>1, <1>2, <2>2, <2>4, CallsTyped DEF RefreshDelete
  <2> QED
    BY <1>3, <1>7, <2>3, <2>4 DEF RefreshLoop, RefreshTick, RefreshPop, RefreshSleep
<1>8. ASSUME BackfillPost
      PROVE  task' \in [Tasks -> TaskSet] /\ TasksFit'
  <2>1. backfillQueue \subseteq Groups
    BY <1>8 DEF BackfillPost, TypeOK
  <2> QED
    BY <1>1, <1>2, <1>8, <2>1, CallsTyped DEF BackfillPost
<1>9. ASSUME Forget
      PROVE  task' \in [Tasks -> TaskSet] /\ TasksFit'
  BY <1>9, CallsTyped DEF Forget, TasksFit
<1>10. (\E g \in Groups : IngestRepeat(g)) \/ (\E m \in Messages : Moderate(m)) \/ BackfillStart
         \/ UNCHANGED vars => UNCHANGED task
  BY DEF IngestRepeat, Moderate, BackfillStart, vars
<1>11. Restart \/ (\E g, h \in Groups : RestartMerging(g, h)) => Forget
  BY DEF Restart, RestartMerging
<1> QED
  BY <1>3, <1>5, <1>6, <1>7, <1>8, <1>9, <1>10, <1>11 DEF Next

LEMMA TypedNext ==
    ASSUME TypeOK, TasksFit, [Next]_vars
    PROVE  TypeOK'
<1>1. task' \in [Tasks -> TaskSet]
  BY TasksTyped
<1> DEFINE Rest ==
      /\ live \in SUBSET Groups
      /\ messageId \in [Groups -> Messages \cup {None}]
      /\ hasActivity \in [Groups -> BOOLEAN]
      /\ version \in [Groups -> 0..MaxVersion]
      /\ pendingDeletes \in SUBSET Messages
      /\ editFailures \in [Groups -> 0..(MaxEditFailures - 1)]
      /\ gaveUp \in SUBSET Groups
      /\ raced \in SUBSET Groups
      /\ channel \in SUBSET Messages
      /\ shows \in [Messages -> 0..MaxVersion]
      /\ lastMessage \in 0..MaxMessages
      /\ loop \in {"asleep", "editing", "deleting", "dead"}
      /\ editQueue \in SUBSET (Groups \X Messages)
      /\ deleteQueue \in SUBSET Messages
      /\ backfillQueue \in {None} \cup SUBSET Groups
      /\ restarts \in 0..MaxRestarts
<1>2. Rest /\ task \in [Tasks -> TaskSet] /\ (Rest' => TypeOK')
  BY <1>1 DEF TypeOK, TaskSet, Stages
<1>3. ASSUME NEW g \in Groups, NEW t \in Spawned, IngestNew(g, t) \/ Mutate(g, t) \/ Remove(g, t)
      PROVE  Rest'
  <2>1. CASE IngestNew(g, t)
    BY <1>2, <2>1, MirrorAssumption DEF IngestNew, Changed, Races, discord, queues
  <2>2. CASE Mutate(g, t)
    BY <1>2, <2>2, MirrorAssumption DEF Mutate, Changed, Races, FlagSet, discord, queues
  <2>3. CASE Remove(g, t)
    BY <1>2, <2>3, MirrorAssumption DEF Remove, discord, queues
  <2> QED
    BY <1>3, <2>1, <2>2, <2>3
<1>4. ASSUME NEW g \in Groups, IngestRepeat(g)
      PROVE  Rest'
  BY <1>2, <1>4, MirrorAssumption DEF IngestRepeat, Changed, Races, FlagSet, discord, queues
<1>5. ASSUME NEW t \in Tasks, TaskStep(t)
      PROVE  Rest'
  <2>1. /\ task[t].message \in Messages \cup {None} /\ task[t].copy \in 0..MaxVersion
        /\ task[t].group \in Groups \cup {None}
        /\ 0 \in 0..(MaxEditFailures - 1)
    BY <1>2, MirrorAssumption DEF TaskSet
  <2>2. CASE Send(t)
    <3>1. lastMessage + 1 \in Messages
      BY <1>2, <2>2, MirrorAssumption DEF Send, Messages
    <3>2. channel' \in SUBSET Messages /\ shows' \in [Messages -> 0..MaxVersion]
      BY <1>2, <2>1, <2>2, <3>1 DEF Send
    <3>3. lastMessage' \in 0..MaxMessages
      BY <2>2, <3>1, MirrorAssumption DEF Send, Messages
    <3> QED
      BY <1>2, <2>2, <3>2, <3>3 DEF Send, database, memory, queues
  <2>3. CASE PostResume(t)
    BY <1>2, <2>1, <2>3 DEF PostResume, discord, memory, queues
  <2>9. CASE EditLands(t)
    BY <1>2, <2>1, <2>9 DEF EditLands, database, memory, queues
  <2>10. CASE EditNotFound(t)
    BY <1>2, <2>1, <2>10 DEF EditNotFound, Untracked, discord, queues
  <2>4. CASE EditResume(t)
    BY <1>2, <2>1, <2>4 DEF EditResume, discord, queues
  <2>5. CASE EditFails(t)
    <3>1. task[t].group \in Groups
      BY <2>1, <2>5 DEF EditFails, TasksFit, TaskOK
    <3>2. editFailures[task[t].group] + 1 \in Nat
      BY <1>2, <3>1, MirrorAssumption
    <3>3. editFailures' \in [Groups -> 0..(MaxEditFailures - 1)]
      BY <1>2, <2>5, <3>1, <3>2, MirrorAssumption DEF EditFails, LastFailure
    <3> QED
      BY <1>2, <2>5, <3>1, <3>3 DEF EditFails, discord, queues
  <2>6. CASE Raise(t)
    BY <1>2, <2>6 DEF Raise, database, discord, memory
  <2>7. CASE DeleteLands(t)
    BY <1>2, <2>7 DEF DeleteLands, database, memory, queues
  <2>8. CASE Read(t) \/ NoChannel(t) \/ PostFails(t) \/ DeleteFails(t)
    BY <1>2, <2>8 DEF Read, NoChannel, PostFails, DeleteFails, database, discord, memory, queues
  <2> QED
    BY <1>5, <2>2, <2>3, <2>4, <2>5, <2>6, <2>7, <2>8, <2>9, <2>10 DEF TaskStep
<1>6. ASSUME NEW m \in Messages, Moderate(m)
      PROVE  Rest'
  BY <1>2, <1>6 DEF Moderate, database, memory, queues
<1>7. ASSUME RefreshLoop
      PROVE  Rest'
  <2>1. ASSUME RefreshTick
        PROVE  editQueue' \in SUBSET (Groups \X Messages)
    BY <1>2, <2>1 DEF RefreshTick, Flagged
  <2> QED
    BY <1>2, <1>7, <2>1 DEF RefreshLoop, RefreshTick, RefreshEdit, RefreshPop, RefreshDelete,
       RefreshSleep, database, discord, memory
<1>8. ASSUME BackfillStart \/ BackfillPost
      PROVE  Rest'
  BY <1>2, <1>8 DEF BackfillStart, BackfillPost, database, discord, memory
<1>9. ASSUME Restart
      PROVE  Rest'
  BY <1>2, <1>9, MirrorAssumption DEF Restart, Forget, database, discord
<1>10. ASSUME NEW g \in Groups, NEW h \in Groups, RestartMerging(g, h)
       PROVE  Rest'
  <2>1. /\ editFailures' \in [Groups -> 0..(MaxEditFailures - 1)]
        /\ loop' = "asleep" /\ editQueue' = {} /\ deleteQueue' = {} /\ backfillQueue' = None
        /\ restarts' \in 0..MaxRestarts
    BY <1>2, <1>10, MirrorAssumption DEF RestartMerging, Forget
  <2>2. messageId' \in [Groups -> Messages \cup {None}]
    BY <1>2, <1>10 DEF RestartMerging
  <2>3. pendingDeletes' \in SUBSET Messages
    BY <1>2, <1>10 DEF RestartMerging
  <2>4. version' \in [Groups -> 0..MaxVersion]
    BY <1>2, <1>10, MirrorAssumption DEF RestartMerging
  <2>5. hasActivity' \in [Groups -> BOOLEAN]
    BY <1>2, <1>10, Zenon DEF RestartMerging
  <2> QED
    BY <1>2, <1>10, <2>1, <2>2, <2>3, <2>4, <2>5 DEF RestartMerging, discord
<1>11. ASSUME UNCHANGED vars
       PROVE  Rest'
  BY <1>2, <1>11 DEF vars, database, discord, memory, queues
<1> QED
  BY <1>2, <1>3, <1>4, <1>5, <1>6, <1>7, <1>8, <1>9, <1>10, <1>11 DEF Next

(* Every variable keeps its type: a task that goes on knows its group, an  *)
(* edit its message, and no counter of failures reaches its limit.         *)
THEOREM TypeCorrect == Spec => []TypeOK
<1>1. TypeOK /\ TasksFit /\ [Next]_vars => (TypeOK /\ TasksFit)'
  BY TypedNext, TasksTyped
<1> QED
  BY <1>1, TypedInit, PTL DEF Spec

LEMMA Shapes == Spec => []TasksFit
<1>1. TypeOK /\ TasksFit /\ [Next]_vars => TasksFit'
  BY TasksTyped
<1> QED
  BY <1>1, TypedInit, TypeCorrect, PTL DEF Spec
-----------------------------------------------------------------------------
(* A message never belongs to two groups.                                  *)

ClaimsShrink == \A g \in Groups, m \in Messages : Claims(g, m)' => Claims(g, m)

LEMMA TaskClaims ==
    ASSUME TypeOK, NEW t \in Tasks, NEW k, task' = [task EXCEPT ![t] = k],
           \A g \in Groups, m \in Messages : messageId'[g] = m => Claims(g, m),
           \A g \in Groups, m \in Messages : <<g, m>> \in editQueue' => Claims(g, m),
           k.group \in Groups /\ k.message \in Messages => Claims(k.group, k.message)
    PROVE  ClaimsShrink
<1> SUFFICES ASSUME NEW g \in Groups, NEW m \in Messages, Claims(g, m)'
             PROVE  Claims(g, m)
  BY DEF ClaimsShrink
<1>1. task \in [Tasks -> TaskSet]
  BY DEF TypeOK, TaskSet, Stages
<1>2. ASSUME NEW u \in Tasks, task'[u].group = g, task'[u].message = m
      PROVE  Claims(g, m)
  <2>1. CASE u = t
    BY <1>1, <1>2, <2>1
  <2>2. CASE u # t
    BY <1>1, <1>2, <2>2 DEF Claims
  <2> QED
    BY <2>1, <2>2
<1> QED
  BY <1>2 DEF Claims

LEMMA OwnersKept ==
    ASSUME TypeOK, OwnerInv, ClaimsShrink, lastMessage' = lastMessage,
           \A g \in Groups : g \notin live' => messageId'[g] = None
    PROVE  OwnerInv'
BY DEF OwnerInv, ClaimsShrink

LEMMA OwnerNext ==
    ASSUME TypeOK, TasksFit, OwnerInv, [Next]_vars
    PROVE  OwnerInv'
<1>1. /\ task \in [Tasks -> TaskSet] /\ messageId \in [Groups -> Messages \cup {None}]
      /\ \A t \in Tasks : task[t] \in TaskSet /\ TaskOK(task[t])
      /\ Spawned \subseteq Tasks /\ "refresh" \in Tasks /\ "backfill" \in Tasks
      /\ None \notin Groups /\ None \notin Messages
  BY MirrorAssumption DEF TypeOK, TasksFit, TaskSet, Stages, Tasks, Messages
<1>2. \A g \in Groups : g \notin live => messageId[g] = None
  BY DEF OwnerInv
<1>3. \A g \in Groups, m \in Messages : messageId[g] = m \/ <<g, m>> \in editQueue => Claims(g, m)
  BY DEF Claims
<1>4. \A t \in Tasks : task[t].group \in Groups /\ task[t].message \in Messages
                       => Claims(task[t].group, task[t].message)
  BY DEF Claims
<1>5. ASSUME NEW t \in Tasks, NEW k, task' = [task EXCEPT ![t] = k], UNCHANGED messageId,
             editQueue' \subseteq editQueue,
             k.group \in Groups /\ k.message \in Messages => Claims(k.group, k.message)
      PROVE  ClaimsShrink
  <2>1. \A g \in Groups, m \in Messages : messageId'[g] = m => Claims(g, m)
    BY <1>3, <1>5
  <2>2. \A g \in Groups, m \in Messages : <<g, m>> \in editQueue' => Claims(g, m)
    BY <1>3, <1>5
  <2> QED
    BY <1>5, <2>1, <2>2, TaskClaims
<1>6. ASSUME NEW g \in Groups, NEW t \in Spawned, IngestNew(g, t)
      PROVE  OwnerInv'
  <2>1. ClaimsShrink
    BY <1>1, <1>5, <1>6 DEF IngestNew, Start, Post, Call, queues
  <2> QED
    BY <1>2, <1>6, <2>1, OwnersKept DEF IngestNew, discord
<1>7. ASSUME NEW g \in Groups, NEW t \in Spawned, Mutate(g, t)
      PROVE  OwnerInv'
  <2>1. CASE messageId[g] = None
    <3>1. ClaimsShrink
      BY <1>7, <2>1 DEF Mutate, Claims, ClaimsShrink, queues
    <3> QED
      BY <1>2, <1>7, <3>1, OwnersKept DEF Mutate, discord
  <2>2. CASE messageId[g] # None
    <3>1. ClaimsShrink
      BY <1>1, <1>3, <1>5, <1>7, <2>2 DEF Mutate, Start, Edit, Call, queues
    <3> QED
      BY <1>2, <1>7, <3>1, OwnersKept DEF Mutate, discord
  <2> QED
    BY <2>1, <2>2
<1>8. ASSUME NEW g \in Groups, IngestRepeat(g)
      PROVE  OwnerInv'
  <2>1. ClaimsShrink
    BY <1>8 DEF IngestRepeat, Claims, ClaimsShrink, queues
  <2> QED
    BY <1>2, <1>8, <2>1, OwnersKept DEF IngestRepeat, discord
<1>9. ASSUME NEW g \in Groups, NEW t \in Spawned, Remove(g, t)
      PROVE  OwnerInv'
  <2>1. CASE messageId[g] = None
    <3>1. messageId' = messageId
      BY <1>1, <1>9, <2>1 DEF Remove
    <3>2. ClaimsShrink
      BY <1>9, <2>1, <3>1 DEF Remove, Claims, ClaimsShrink, queues
    <3> QED
      BY <1>1, <1>2, <1>9, <2>1, <3>1, <3>2, OwnersKept DEF Remove, discord
  <2>2. CASE messageId[g] # None
    <3>1. ClaimsShrink
      <4>1. \A k \in Groups, m \in Messages : messageId'[k] = m => Claims(k, m)
        BY <1>1, <1>3, <1>9 DEF Remove
      <4>2. \A k \in Groups, m \in Messages : <<k, m>> \in editQueue' => Claims(k, m)
        BY <1>3, <1>9 DEF Remove, queues
      <4>3. task' = [task EXCEPT ![t] = Delete(messageId[g])] /\ t \in Tasks
        BY <1>1, <1>9, <2>2 DEF Remove, Start
      <4>4. Delete(messageId[g]).group \notin Groups
        BY <1>1 DEF Delete, Call
      <4> QED
        BY <4>1, <4>2, <4>3, <4>4, TaskClaims
    <3> QED
      BY <1>1, <1>2, <1>9, <3>1, OwnersKept DEF Remove, discord
  <2> QED
    BY <2>1, <2>2
<1>10. ASSUME NEW t \in Tasks, TaskStep(t)
       PROVE  OwnerInv'
  <2>1. CASE Read(t) /\ task[t].group \in live
    <3>1. ClaimsShrink
      BY <1>1, <1>4, <1>5, <2>1 DEF Read, Goes, queues, database
    <3> QED
      BY <1>2, <2>1, <3>1, OwnersKept DEF Read, database, discord
  <2>2. CASE EditLands(t)
    <3>1. ClaimsShrink
      BY <1>1, <1>4, <1>5, <2>2 DEF EditLands, Goes, queues, database
    <3> QED
      BY <1>2, <2>2, <3>1, OwnersKept DEF EditLands, database
  <2>3. CASE Send(t)
    <3>1. lastMessage + 1 \in Messages /\ lastMessage \in Nat
      BY <2>3, MirrorAssumption DEF Send, TypeOK, Messages
    <3>2. \A g \in Groups, m \in Messages :
             Claims(g, m)' => Claims(g, m) \/ (m = lastMessage + 1 /\ g = task[t].group)
      BY <1>1, <2>3 DEF Send, Goes, Claims, queues, database
    <3>3. \A g \in Groups : ~Claims(g, lastMessage + 1)
      BY <3>1 DEF OwnerInv
    <3>4. \A g \in Groups, m \in Messages : Claims(g, m)' => m <= lastMessage + 1
      BY <3>1, <3>2 DEF OwnerInv, Messages
    <3>5. \A g, h \in Groups, m \in Messages : Claims(g, m)' /\ Claims(h, m)' => g = h
      BY <3>1, <3>2, <3>3 DEF OwnerInv
    <3>6. lastMessage' = lastMessage + 1 /\ UNCHANGED <<live, messageId>>
      BY <2>3 DEF Send, database
    <3> QED
      BY <1>2, <3>4, <3>5, <3>6 DEF OwnerInv
  <2>4. CASE PostResume(t)
    <3>1. \A g \in Groups, m \in Messages : messageId'[g] = m => Claims(g, m)
      BY <1>1, <1>3, <1>4, <2>4 DEF PostResume, TypeOK
    <3>2. ClaimsShrink
      <4>1. \A g \in Groups, m \in Messages : <<g, m>> \in editQueue' => Claims(g, m)
        BY <1>3, <2>4 DEF PostResume, queues
      <4> QED
        BY <1>1, <2>4, <3>1, <4>1, TaskClaims DEF PostResume, Finish, Idle, Call
    <3>3. \A g \in Groups : g \notin live' => messageId'[g] = None
      BY <1>1, <1>2, <2>4 DEF PostResume
    <3> QED
      BY <2>4, <3>2, <3>3, OwnersKept DEF PostResume, discord
  <2>5. CASE EditNotFound(t)
    <3>1. \A g \in Groups, m \in Messages : messageId'[g] = m => Claims(g, m)
      BY <1>1, <1>3, <2>5 DEF EditNotFound, Untracked
    <3>2. ClaimsShrink
      <4>1. \A g \in Groups, m \in Messages : <<g, m>> \in editQueue' => Claims(g, m)
        BY <1>3, <2>5 DEF EditNotFound, queues
      <4> QED
        BY <1>1, <2>5, <3>1, <4>1, TaskClaims DEF EditNotFound, Finish, Idle, Call
    <3>3. \A g \in Groups : g \notin live' => messageId'[g] = None
      BY <1>1, <1>2, <2>5 DEF EditNotFound, Untracked
    <3> QED
      BY <2>5, <3>2, <3>3, OwnersKept DEF EditNotFound, discord
  <2>6. CASE ~(Read(t) /\ task[t].group \in live) /\ ~EditLands(t) /\ ~Send(t) /\ ~PostResume(t)
             /\ ~EditNotFound(t)
    <3>1. Finish(t) /\ UNCHANGED <<live, messageId, lastMessage>> /\ editQueue' \subseteq editQueue
      BY <1>10, <2>6 DEF TaskStep, Read, NoChannel, PostFails, EditResume, EditFails,
         DeleteLands, DeleteFails, Raise, database, discord, queues
    <3> QED
      <4>1. ClaimsShrink
        BY <1>1, <1>5, <3>1 DEF Finish, Idle, Call
      <4> QED
        BY <1>2, <3>1, <4>1, OwnersKept
  <2> QED
    BY <2>1, <2>2, <2>3, <2>4, <2>5, <2>6
<1>11. ASSUME NEW m \in Messages, Moderate(m)
       PROVE  OwnerInv'
  <2>1. ClaimsShrink
    BY <1>11 DEF Moderate, Claims, ClaimsShrink, queues, database
  <2> QED
    BY <1>2, <1>11, <2>1, OwnersKept DEF Moderate, database
<1>12. ASSUME RefreshLoop
       PROVE  OwnerInv'
  <2>1. CASE RefreshTick
    <3>1. \A g \in Groups, m \in Messages : <<g, m>> \in editQueue' => messageId[g] = m
      BY <2>1 DEF RefreshTick
    <3>2. ClaimsShrink
      BY <2>1, <3>1 DEF RefreshTick, Claims, ClaimsShrink, database
    <3> QED
      BY <1>2, <2>1, <3>2, OwnersKept DEF RefreshTick, database, discord
  <2>2. CASE RefreshEdit
    <3>1. PICK pair \in editQueue : editQueue' = editQueue \ {pair}
                                    /\ task' = [task EXCEPT !["refresh"] = Edit(pair[1], pair[2])]
      BY <2>2 DEF RefreshEdit
    <3>2. pair = <<pair[1], pair[2]>> /\ pair[1] \in Groups /\ pair[2] \in Messages
      BY DEF TypeOK
    <3>3. ClaimsShrink
      <4>1. Claims(pair[1], pair[2])
        BY <1>3, <3>1, <3>2
      <4>2. Edit(pair[1], pair[2]).group = pair[1] /\ Edit(pair[1], pair[2]).message = pair[2]
        BY DEF Edit, Call
      <4>3. UNCHANGED messageId
        BY <2>2 DEF RefreshEdit, database
      <4> QED
        BY <1>1, <1>5, <3>1, <4>1, <4>2, <4>3
    <3> QED
      BY <1>2, <2>2, <3>3, OwnersKept DEF RefreshEdit, database, discord
  <2>3. CASE RefreshDelete
    <3>1. ClaimsShrink
      BY <1>1, <1>5, <2>3 DEF RefreshDelete, Delete, Call, database
    <3> QED
      BY <1>2, <2>3, <3>1, OwnersKept DEF RefreshDelete, database, discord
  <2>4. CASE RefreshPop \/ RefreshSleep
    <3>1. ClaimsShrink
      BY <2>4 DEF RefreshPop, RefreshSleep, Claims, ClaimsShrink, database
    <3> QED
      BY <1>2, <2>4, <3>1, OwnersKept DEF RefreshPop, RefreshSleep, database, discord
  <2> QED
    BY <1>12, <2>1, <2>2, <2>3, <2>4 DEF RefreshLoop
<1>13. ASSUME BackfillStart
       PROVE  OwnerInv'
  <2>1. ClaimsShrink
    BY <1>13 DEF BackfillStart, Claims, ClaimsShrink, database
  <2> QED
    BY <1>2, <1>13, <2>1, OwnersKept DEF BackfillStart, database, discord
<1>14. ASSUME BackfillPost
       PROVE  OwnerInv'
  <2>1. ClaimsShrink
    BY <1>1, <1>5, <1>14 DEF BackfillPost, Post, Call, database
  <2> QED
    BY <1>2, <1>14, <2>1, OwnersKept DEF BackfillPost, database, discord
<1>15. ASSUME Forget
       PROVE  \A g \in Groups, m \in Messages : Claims(g, m)' => messageId'[g] = m
  BY <1>1, <1>15 DEF Forget, Claims, Idle, Call
<1>16. ASSUME Restart
       PROVE  OwnerInv'
  <2>1. ClaimsShrink
    BY <1>3, <1>15, <1>16 DEF Restart, ClaimsShrink, database
  <2> QED
    BY <1>2, <1>16, <2>1, OwnersKept DEF Restart, database, discord
<1>17. ASSUME NEW g \in Groups, NEW h \in Groups, RestartMerging(g, h)
       PROVE  OwnerInv'
  <2>1. /\ g # h /\ live' = live \ {h} /\ g \in live /\ lastMessage' = lastMessage
        /\ messageId'[h] = None
        /\ messageId'[g] = IF messageId[g] = None THEN messageId[h] ELSE messageId[g]
        /\ \A k \in Groups \ {g, h} : messageId'[k] = messageId[k]
    BY <1>1, <1>17 DEF RestartMerging, discord
  <2>2. \A k \in Groups, m \in Messages : Claims(k, m)' => messageId'[k] = m
    BY <1>15, <1>17 DEF RestartMerging
  <2>3. \A k, l \in Groups, m \in Messages : messageId[k] = m /\ messageId[l] = m => k = l
    BY <1>3 DEF OwnerInv
  <2>4. \A k \in Groups, m \in Messages : messageId[k] = m => m <= lastMessage
    BY <1>3 DEF OwnerInv
  <2>5. \A k \in Groups, m \in Messages : Claims(k, m)' => m <= lastMessage'
    BY <1>1, <2>1, <2>2, <2>4
  <2>6. \A k, l \in Groups, m \in Messages : Claims(k, m)' /\ Claims(l, m)' => k = l
    BY <1>1, <2>1, <2>2, <2>3
  <2>7. \A k \in Groups : k \notin live' => messageId'[k] = None
    BY <1>2, <2>1
  <2> QED
    BY <2>5, <2>6, <2>7 DEF OwnerInv
<1>18. ASSUME UNCHANGED vars
       PROVE  OwnerInv'
  BY <1>18 DEF vars, OwnerInv, Claims, database, discord, queues
<1> QED
  BY <1>6, <1>7, <1>8, <1>9, <1>10, <1>11, <1>12, <1>13, <1>14, <1>16, <1>17, <1>18 DEF Next

LEMMA OwnerInit == Init => OwnerInv
BY MirrorAssumption DEF Init, OwnerInv, Claims, Messages, Idle, Call

(* However calls and changes overlap, a message belongs to one group: none *)
(* is tracked, edited or posted for two, and none is tracked by a group    *)
(* without a row; so a call never writes over the message of another group. *)
THEOREM OwnersStand == Spec => []OwnerInv
<1>1. TypeOK /\ TasksFit /\ OwnerInv /\ [Next]_vars => OwnerInv'
  BY OwnerNext
<1> QED
  BY <1>1, OwnerInit, TypeCorrect, Shapes, PTL DEF Spec
-----------------------------------------------------------------------------
(* From here on: groups whose calls and changes have not overlapped.  A     *)
(* step that restarts nothing adds only a group at rest to them.           *)
RestsKept == \A g \in Rested' : g \in Rested \/ ~Waiting(g)

LEMMA StepRaces ==
    ASSUME NEW t \in Tasks, TaskStep(t)
    PROVE  raced \subseteq raced'
<1>1. CASE Read(t)
  BY <1>1 DEF Read
<1>2. CASE ~Read(t)
  BY <1>2 DEF TaskStep, NoChannel, Send, PostResume, PostFails, EditLands, EditResume,
     EditNotFound, EditFails, DeleteLands, DeleteFails, Raise, memory
<1> QED
  BY <1>1, <1>2

LEMMA RestsNext ==
    ASSUME TypeOK, [Next]_vars
    PROVE  RestsKept \/ Forget
<1>1. ASSUME raced \subseteq raced'
      PROVE  RestsKept
  BY <1>1 DEF RestsKept, Rested
<1>2. ASSUME NEW g \in Groups, NEW collides \in BOOLEAN, Races(g, collides)
      PROVE  RestsKept
  BY <1>2 DEF RestsKept, Rested, Races
<1>3. ASSUME NEW g \in Groups, IngestRepeat(g) \/ \E t \in Spawned : IngestNew(g, t) \/ Mutate(g, t)
      PROVE  RestsKept
  <2>1. Races(g, Waiting(g)) \/ Races(g, InFlight(g, {"edit"}))
    BY <1>3 DEF IngestRepeat, IngestNew, Mutate
  <2>2. Waiting(g) \in BOOLEAN /\ InFlight(g, {"edit"}) \in BOOLEAN
    BY DEF Waiting, InFlight
  <2> QED
    BY <1>2, <2>1, <2>2
<1>4. ASSUME \/ \E g \in Groups, t \in Spawned : Remove(g, t)
             \/ \E t \in Tasks : TaskStep(t)
             \/ \E m \in Messages : Moderate(m)
             \/ RefreshLoop \/ BackfillStart \/ BackfillPost \/ UNCHANGED vars
      PROVE  raced \subseteq raced'
  <2>1. \A t \in Tasks : TaskStep(t) => raced \subseteq raced'
    BY StepRaces
  <2>2. ASSUME NEW g \in Groups, NEW t \in Spawned, Remove(g, t)
        PROVE  raced \subseteq raced'
    BY <2>2 DEF Remove
  <2> QED
    BY <1>4, <2>1, <2>2 DEF Moderate, RefreshLoop, RefreshTick, RefreshEdit, RefreshPop,
       RefreshDelete, RefreshSleep, BackfillStart, BackfillPost, vars, memory
<1>5. Restart \/ (\E g, h \in Groups : RestartMerging(g, h)) => Forget
  BY DEF Restart, RestartMerging
<1> QED
  BY <1>1, <1>3, <1>4, <1>5 DEF Next

LEMMA TurnsNext ==
    ASSUME TypeOK, TasksFit, TurnsInv, [Next]_vars
    PROVE  TurnsInv'
<1>1. /\ task \in [Tasks -> TaskSet]
      /\ \A t \in Tasks : task[t] \in TaskSet /\ TaskOK(task[t])
      /\ Spawned \subseteq Tasks /\ "refresh" \in Tasks /\ "backfill" \in Tasks
  BY DEF TypeOK, TasksFit, TaskSet, Stages, Tasks
<1>7. ASSUME Forget
      PROVE  TurnsInv'
  BY <1>7 DEF Forget, TurnsInv, Idle, Call
<1> SUFFICES ASSUME RestsKept
             PROVE  TurnsInv'
  BY <1>7, RestsNext
<1>2. ASSUME NEW t \in Tasks, NEW k, task' = [task EXCEPT ![t] = k],
             \/ k.at = "start"
             \/ k.group = task[t].group /\ task[t].at # "start"
             \/ /\ k.group \in Rested'
                => \A u \in Tasks : task[u].group = k.group => task[u].at = "start"
      PROVE  TurnsInv'
  <2> SUFFICES ASSUME NEW u \in Tasks, NEW v \in Tasks,
                      task'[u].group = task'[v].group, task'[u].group \in Rested',
                      task'[u].at # "start", task'[v].at # "start", u # v
               PROVE  FALSE
    BY DEF TurnsInv
  <2>1. /\ u # t => task'[u] = task[u]
        /\ v # t => task'[v] = task[v]
        /\ task'[t] = k
    BY <1>1, <1>2
  <2>2. task'[u].group \in Rested \/ ~Waiting(task'[u].group)
    BY DEF RestsKept
  <2>3. CASE ~Waiting(task'[u].group)
    BY <2>1, <2>3 DEF Waiting
  <2>4. CASE task'[u].group \in Rested
    BY <1>2, <2>1, <2>4 DEF TurnsInv
  <2> QED
    BY <2>2, <2>3, <2>4
<1>3. ASSUME UNCHANGED task
      PROVE  TurnsInv'
  BY <1>3 DEF TurnsInv, RestsKept, Waiting
<1>4. ASSUME NEW g \in Groups, NEW t \in Spawned, IngestNew(g, t) \/ Mutate(g, t) \/ Remove(g, t)
      PROVE  TurnsInv'
  BY <1>1, <1>2, <1>3, <1>4 DEF IngestNew, Mutate, Remove, Start, Post, Edit, Delete, Call
<1>5. ASSUME NEW t \in Tasks, TaskStep(t)
      PROVE  TurnsInv'
  <2>1. CASE Read(t) /\ task[t].group \in live
    <3>1. task[t].group \in Rested'
          => \A u \in Tasks : task[u].group = task[t].group => task[u].at = "start"
      BY <1>1, <2>1 DEF Read, Rested, InFlight, TaskOK, TaskSet
    <3> QED
      BY <1>2, <2>1, <3>1 DEF Read, Goes
  <2>2. CASE Send(t) \/ EditLands(t)
    BY <1>2, <2>2 DEF Send, EditLands, Goes
  <2>3. CASE ~(Read(t) /\ task[t].group \in live) /\ ~Send(t) /\ ~EditLands(t)
    <3>1. Finish(t)
      BY <1>5, <2>3 DEF TaskStep, Read, NoChannel, PostResume, PostFails, EditResume,
         EditNotFound, EditFails, DeleteLands, DeleteFails, Raise
    <3> QED
      BY <1>2, <3>1 DEF Finish, Idle, Call
  <2> QED
    BY <2>1, <2>2, <2>3
<1>6. ASSUME RefreshLoop \/ BackfillPost
      PROVE  TurnsInv'
  <2>1. CASE RefreshEdit \/ RefreshDelete \/ BackfillPost
    BY <1>1, <1>2, <2>1 DEF RefreshEdit, RefreshDelete, BackfillPost, Edit, Delete, Post, Call
  <2> QED
    BY <1>3, <1>6, <2>1 DEF RefreshLoop, RefreshTick, RefreshPop, RefreshSleep
<1>8. (\E g \in Groups : IngestRepeat(g)) \/ (\E m \in Messages : Moderate(m)) \/ BackfillStart
        \/ UNCHANGED vars => UNCHANGED task
  BY DEF IngestRepeat, Moderate, BackfillStart, vars
<1>9. Restart \/ (\E g, h \in Groups : RestartMerging(g, h)) => Forget
  BY DEF Restart, RestartMerging
<1> QED
  BY <1>3, <1>4, <1>5, <1>6, <1>7, <1>8, <1>9 DEF Next

(* Nothing new to post for. *)
PostsShrink ==
    /\ \A g \in Groups, t \in Tasks : PostsFor(t, g)' => PostsFor(t, g)
    /\ \A g \in Groups : ToBackfill(g)' => ToBackfill(g)

LEMMA TaskPosts ==
    ASSUME TypeOK, NEW t \in Tasks, NEW k, task' = [task EXCEPT ![t] = k],
           k.op = "post" => task[t].op = "post" /\ k.group = task[t].group,
           \A g \in Groups : ToBackfill(g)' => ToBackfill(g)
    PROVE  PostsShrink
<1>1. task \in [Tasks -> TaskSet]
  BY DEF TypeOK, TaskSet, Stages
<1>2. ASSUME NEW g \in Groups, NEW u \in Tasks, PostsFor(u, g)'
      PROVE  PostsFor(u, g)
  BY <1>1, <1>2 DEF PostsFor
<1> QED
  BY <1>2 DEF PostsShrink

LEMMA PostsKept ==
    ASSUME TypeOK, PostInv, PostsShrink, RestsKept, backfillQueue' = None => backfillQueue = None,
           \A g \in live' : /\ g \in live
                            /\ messageId'[g] = messageId[g] \/ messageId'[g] = None
    PROVE  PostInv'
<1>1. live \subseteq Groups /\ Rested' \subseteq Groups
  BY DEF TypeOK, Rested
<1>2. ASSUME NEW g \in Rested', g \notin Rested
      PROVE  ~ToBackfill(g)' /\ \A t \in Tasks : ~PostsFor(t, g)'
  <2>1. ~ToBackfill(g) /\ \A t \in Tasks : ~PostsFor(t, g)
    BY <1>2 DEF RestsKept, Waiting, PostsFor, ToBackfill
  <2> QED
    BY <1>1, <2>1 DEF PostsShrink
<1> QED
  BY <1>1, <1>2 DEF PostInv, PostsShrink

LEMMA PostNext ==
    ASSUME TypeOK, TasksFit, OwnerInv, PostInv, [Next]_vars
    PROVE  PostInv'
<1>1. /\ task \in [Tasks -> TaskSet] /\ messageId \in [Groups -> Messages \cup {None}]
      /\ live \subseteq Groups
      /\ \A t \in Tasks : task[t] \in TaskSet /\ TaskOK(task[t])
      /\ Spawned \subseteq Tasks /\ "refresh" \in Tasks /\ "backfill" \in Tasks
      /\ None \notin Groups /\ None \notin Messages
  BY MirrorAssumption DEF TypeOK, TasksFit, TaskSet, Stages, Tasks, Messages
<1>12. ASSUME Forget
       PROVE  PostInv'
  <2>1. /\ \A g \in Groups, t \in Tasks : ~PostsFor(t, g)'
        /\ \A g \in Groups : ~ToBackfill(g)'
    BY <1>12 DEF Forget, PostsFor, ToBackfill, Idle, Call
  <2>2. live' \subseteq Groups
    BY TypedNext DEF TypeOK
  <2> QED
    BY <2>1, <2>2 DEF PostInv, Rested
<1> SUFFICES ASSUME RestsKept
             PROVE  PostInv'
  BY <1>12, RestsNext
<1>2. ASSUME NEW t \in Tasks, NEW k, task' = [task EXCEPT ![t] = k],
             k.op = "post" => task[t].op = "post" /\ k.group = task[t].group,
             backfillQueue' = backfillQueue
      PROVE  PostsShrink
  <2>1. \A g \in Groups : ToBackfill(g)' => ToBackfill(g)
    BY <1>2 DEF ToBackfill
  <2> QED
    BY <1>2, <2>1, TaskPosts
<1>3. ASSUME UNCHANGED <<task, backfillQueue>>
      PROVE  PostsShrink
  BY <1>3 DEF PostsShrink, PostsFor, ToBackfill
<1>4. ASSUME NEW g \in Groups, NEW t \in Spawned, IngestNew(g, t)
      PROVE  PostInv'
  <2>1. /\ g \in Rested' => /\ backfillQueue # None /\ g \notin backfillQueue
                           /\ \A u \in Tasks : task[u].group # g
        /\ Rested' \ {g} \subseteq Rested
    BY <1>4 DEF IngestNew, Races, Rested, Waiting
  <2>2. messageId[g] = None
    BY <1>4 DEF IngestNew, OwnerInv
  <2>3. /\ task'[t].op = "post" /\ task'[t].group = g
        /\ \A u \in Tasks \ {t} : task'[u] = task[u]
        /\ live' = live \cup {g} /\ UNCHANGED <<messageId, backfillQueue>>
    BY <1>1, <1>4 DEF IngestNew, Start, Post, Call, queues
  <2>4. \A h \in Groups, u \in Tasks : PostsFor(u, h)' <=> PostsFor(u, h) \/ (u = t /\ h = g)
    BY <1>1, <1>4, <2>1, <2>3 DEF PostsFor, IngestNew, Start, Free, Idle, Call
  <2>5. \A h \in Groups : ToBackfill(h)' <=> ToBackfill(h)
    BY <2>3 DEF ToBackfill
  <2>6. g \in Rested' => ~ToBackfill(g) /\ \A u \in Tasks : ~PostsFor(u, g)
    BY <2>1 DEF ToBackfill, PostsFor
  <2> QED
    <3>1. \A h \in Rested' : h \in Groups /\ (h # g => h \in Rested)
      BY <2>1 DEF Rested
    <3> QED
      BY <1>1, <2>1, <2>2, <2>3, <2>4, <2>5, <2>6, <3>1 DEF PostInv
<1>5. ASSUME NEW g \in Groups, NEW t \in Spawned, Mutate(g, t) \/ Remove(g, t)
      PROVE  PostInv'
  <2>1. PostsShrink
    BY <1>1, <1>2, <1>3, <1>5 DEF Mutate, Remove, Start, Edit, Delete, Call, queues
  <2>2. \A h \in live' : h \in live /\ (messageId'[h] = messageId[h] \/ messageId'[h] = None)
    BY <1>1, <1>5 DEF Mutate, Remove
  <2>3. backfillQueue' = backfillQueue
    BY <1>5 DEF Mutate, Remove, queues
  <2> QED
    BY <2>1, <2>2, <2>3, PostsKept
<1>6. ASSUME NEW g \in Groups, IngestRepeat(g)
      PROVE  PostInv'
  BY <1>3, <1>6, PostsKept DEF IngestRepeat, queues
<1>7. ASSUME NEW t \in Tasks, TaskStep(t)
      PROVE  PostInv'
  <2>1. CASE (Read(t) /\ task[t].group \in live) \/ Send(t) \/ EditLands(t)
    <3>1. PostsShrink
      BY <1>2, <2>1 DEF Read, Send, EditLands, Goes, queues
    <3>2. UNCHANGED <<live, messageId, backfillQueue>>
      BY <2>1 DEF Read, Send, EditLands, database, queues
    <3> QED
      BY <3>1, <3>2, PostsKept
  <2>2. CASE PostResume(t)
    <3>1. PICK g \in Groups : g = task[t].group /\ PostsFor(t, g)
      BY <1>1, <2>2 DEF PostResume, PostsFor, TaskOK, TaskSet
    <3>2. PostsShrink /\ backfillQueue' = backfillQueue
      BY <1>2, <2>2 DEF PostResume, Finish, Idle, Call, queues
    <3>6. Rested' = Rested /\ Rested \subseteq Groups
      BY <2>2 DEF PostResume, Rested, memory
    <3>3. ASSUME g \in Rested
          PROVE  \A u \in Tasks : ~PostsFor(u, g)'
      <4>1. ~PostsFor(t, g)'
        BY <1>1, <2>2 DEF PostResume, PostsFor, Finish, Idle, Call
      <4>2. \A u \in Tasks : PostsFor(u, g) => u = t
        BY <3>1, <3>3 DEF PostInv
      <4> QED
        BY <3>1, <3>2, <4>1, <4>2 DEF PostsShrink
    <3>4. g \in Rested => ~ToBackfill(g)'
      BY <3>1, <3>2 DEF PostInv, PostsShrink
    <3>5. live' = live /\ \A h \in Groups \ {g} : messageId'[h] = messageId[h]
      BY <1>1, <2>2, <3>1 DEF PostResume
    <3> QED
      BY <1>1, <3>1, <3>2, <3>3, <3>4, <3>5, <3>6 DEF PostInv, PostsShrink
  <2>3. CASE EditNotFound(t)
    <3>1. PostsShrink
      BY <1>2, <2>3 DEF EditNotFound, Finish, Idle, Call, queues
    <3>2. \A h \in live' : h \in live /\ (messageId'[h] = messageId[h] \/ messageId'[h] = None)
      BY <1>1, <2>3 DEF EditNotFound, Untracked
    <3>3. backfillQueue' = backfillQueue
      BY <2>3 DEF EditNotFound, queues
    <3> QED
      BY <3>1, <3>2, <3>3, PostsKept
  <2>4. CASE Raise(t)
    <3>1. \A g \in Groups : ToBackfill(g)' => ToBackfill(g)
      BY <2>4 DEF Raise, ToBackfill
    <3>2. PostsShrink
      BY <2>4, <3>1, TaskPosts DEF Raise, Finish, Idle, Call
    <3>3. backfillQueue' = None => backfillQueue = None
      <4>1. {} \in SUBSET Groups
        OBVIOUS
      <4> QED
        BY <2>4, <4>1, MirrorAssumption DEF Raise
    <3> QED
      BY <2>4, <3>2, <3>3, PostsKept DEF Raise, database
  <2>5. CASE ~(Read(t) /\ task[t].group \in live) /\ ~EditLands(t) /\ ~Send(t) /\ ~PostResume(t)
             /\ ~EditNotFound(t) /\ ~Raise(t)
    <3>1. Finish(t) /\ UNCHANGED <<live, messageId, backfillQueue>>
      BY <1>7, <2>5 DEF TaskStep, Read, NoChannel, PostFails, EditResume, EditFails,
         DeleteLands, DeleteFails, database, queues
    <3>2. PostsShrink
      BY <1>2, <3>1 DEF Finish, Idle, Call
    <3> QED
      BY <3>1, <3>2, PostsKept
  <2> QED
    BY <2>1, <2>2, <2>3, <2>4, <2>5
<1>8. ASSUME NEW m \in Messages, Moderate(m)
      PROVE  PostInv'
  BY <1>3, <1>8, PostsKept DEF Moderate, database, queues
<1>9. ASSUME RefreshLoop
      PROVE  PostInv'
  <2>1. UNCHANGED <<live, messageId, backfillQueue>>
    BY <1>9 DEF RefreshLoop, RefreshTick, RefreshEdit, RefreshPop, RefreshDelete, RefreshSleep, database
  <2>2. CASE RefreshEdit \/ RefreshDelete
    <3>1. PostsShrink
      BY <1>1, <1>2, <2>1, <2>2 DEF RefreshEdit, RefreshDelete, Edit, Delete, Call
    <3> QED
      BY <2>1, <3>1, PostsKept
  <2>3. CASE ~RefreshEdit /\ ~RefreshDelete
    <3>1. UNCHANGED task
      BY <1>9, <2>3 DEF RefreshLoop, RefreshTick, RefreshPop, RefreshSleep
    <3> QED
      BY <1>3, <2>1, <3>1, PostsKept
  <2> QED
    BY <2>2, <2>3
<1>10. ASSUME BackfillStart
       PROVE  PostInv'
  <2>1. /\ \A g \in Rested, t \in Tasks : ~PostsFor(t, g)'
        /\ \A g \in live : ToBackfill(g)' => messageId[g] = None
        /\ backfillQueue' # None
    <3>1. \A g \in Rested, t \in Tasks : ~PostsFor(t, g)
      BY <1>10 DEF BackfillStart, PostInv
    <3>2. backfillQueue' = {g \in live : messageId[g] = None} /\ UNCHANGED task
      BY <1>10 DEF BackfillStart
    <3>3. backfillQueue' \in SUBSET Groups
      BY <1>1, <3>2
    <3> QED
      BY <3>1, <3>2, <3>3, MirrorAssumption DEF PostsFor, ToBackfill
  <2> QED
    <3>1. UNCHANGED <<live, messageId>> /\ Rested' = Rested
      BY <1>10 DEF BackfillStart, Rested, database, memory
    <3> QED
      BY <1>1, <2>1, <3>1 DEF PostInv
<1>11. ASSUME BackfillPost
       PROVE  PostInv'
  <2>1. PICK g \in backfillQueue : /\ backfillQueue' = backfillQueue \ {g}
                                   /\ task' = [task EXCEPT !["backfill"] = Post(g)]
    BY <1>11 DEF BackfillPost
  <2>2. /\ g \in Groups /\ ToBackfill(g) /\ ~ToBackfill(g)'
        /\ backfillQueue # None /\ backfillQueue' # None
        /\ UNCHANGED <<live, messageId>>
    <3>1. backfillQueue # None /\ backfillQueue \in SUBSET Groups /\ UNCHANGED <<live, messageId>>
      BY <1>11 DEF BackfillPost, TypeOK, database
    <3>2. backfillQueue' \in SUBSET Groups
      BY <2>1, <3>1
    <3> QED
      BY <2>1, <3>1, <3>2, MirrorAssumption DEF ToBackfill
  <2>3. \A h \in Groups : ToBackfill(h)' => ToBackfill(h)
    BY <2>1, <2>2 DEF ToBackfill
  <2>4. \A h \in Groups, u \in Tasks : PostsFor(u, h)' => PostsFor(u, h) \/ (u = "backfill" /\ h = g)
    BY <1>1, <2>1 DEF PostsFor, Post, Call
  <2>5. g \in Rested => \A u \in Tasks : ~PostsFor(u, g)
    BY <2>2 DEF PostInv
  <2> QED
    <3>1. Rested' = Rested /\ Rested \subseteq Groups
      BY <1>11 DEF BackfillPost, Rested, memory
    <3> QED
      BY <1>1, <2>2, <2>3, <2>4, <2>5, <3>1 DEF PostInv
<1>13. Restart \/ (\E g, h \in Groups : RestartMerging(g, h)) => Forget
  BY DEF Restart, RestartMerging
<1>14. ASSUME UNCHANGED vars
       PROVE  PostInv'
  BY <1>3, <1>14, PostsKept DEF vars, database, queues
<1> QED
  BY <1>4, <1>5, <1>6, <1>7, <1>8, <1>9, <1>10, <1>11, <1>12, <1>13, <1>14 DEF Next

(* Nothing new to edit. *)
EditsShrink == \A g \in Groups, m \in Messages : EditWaits(g, m)' => EditWaits(g, m)

LEMMA TaskEdits ==
    ASSUME TypeOK, NEW t \in Tasks, NEW k, task' = [task EXCEPT ![t] = k],
           editQueue' \subseteq editQueue,
           k.op = "edit" /\ k.at # "done" =>
               /\ task[t].op = "edit" /\ task[t].at # "done"
               /\ k.group = task[t].group /\ k.message = task[t].message
    PROVE  EditsShrink
<1>1. task \in [Tasks -> TaskSet]
  BY DEF TypeOK, TaskSet, Stages
<1>2. ASSUME NEW g \in Groups, NEW m \in Messages, NEW u \in Tasks,
             task'[u].op = "edit", task'[u].at # "done", task'[u].group = g, task'[u].message = m
      PROVE  EditWaits(g, m)
  <2>1. CASE u = t
    BY <1>1, <1>2, <2>1 DEF EditWaits
  <2>2. CASE u # t
    BY <1>1, <1>2, <2>2 DEF EditWaits
  <2> QED
    BY <2>1, <2>2
<1>3. ASSUME NEW g \in Groups, NEW m \in Messages, <<g, m>> \in editQueue'
      PROVE  EditWaits(g, m)
  BY <1>3 DEF EditWaits
<1>4. ASSUME NEW g \in Groups, NEW m \in Messages, EditWaits(g, m)'
      PROVE  EditWaits(g, m)
  BY <1>2, <1>3, <1>4 DEF EditWaits
<1> QED
  BY <1>4 DEF EditsShrink

LEMMA WaitingRests ==
    ASSUME RestsKept, NEW g \in Rested', NEW m \in Messages, EditWaits(g, m)
    PROVE  g \in Rested
BY DEF RestsKept, Waiting, EditWaits

LEMMA EditsKept ==
    ASSUME TypeOK, EditInv, EditsShrink, PostsShrink, RestsKept, channel' \subseteq channel,
           backfillQueue' = None => backfillQueue = None,
           \A g \in live' : g \in live /\ messageId'[g] = messageId[g]
    PROVE  EditInv'
<1>1. live \subseteq Groups
  BY DEF TypeOK
<1>2. ASSUME NEW g \in live' \cap Rested', NEW m \in Messages, EditWaits(g, m)'
      PROVE  EditOK(g, m)'
  <2>1. EditWaits(g, m) /\ g \in live
    BY <1>1, <1>2 DEF EditsShrink
  <2>2. EditOK(g, m)
    BY <2>1, WaitingRests DEF EditInv
  <2> QED
    BY <1>1, <1>2, <2>1, <2>2 DEF EditOK, PostsShrink
<1> QED
  BY <1>2 DEF EditInv

(* An edit of what the row tracks may wait. *)
LEMMA TrackedEdit ==
    ASSUME PostInv, TypeOK, NEW g \in live, g \in Rested \/ ~Waiting(g), messageId[g] # None
    PROVE  EditOK(g, messageId[g])
<1>1. g \in Groups /\ messageId[g] \in Messages
  BY DEF TypeOK
<1>2. CASE g \in Rested
  BY <1>1, <1>2 DEF PostInv, EditOK
<1>3. CASE ~Waiting(g)
  BY <1>1, <1>3 DEF Waiting, EditOK, PostsFor, ToBackfill
<1> QED
  BY <1>2, <1>3

LEMMA EditNext ==
    ASSUME TypeOK, TasksFit, OwnerInv, PostInv, EditInv, [Next]_vars
    PROVE  EditInv'
<1>1. /\ task \in [Tasks -> TaskSet] /\ messageId \in [Groups -> Messages \cup {None}]
      /\ live \subseteq Groups
      /\ \A t \in Tasks : task[t] \in TaskSet /\ TaskOK(task[t])
      /\ Spawned \subseteq Tasks /\ "refresh" \in Tasks /\ "backfill" \in Tasks
      /\ None \notin Groups /\ None \notin Messages
  BY MirrorAssumption DEF TypeOK, TasksFit, TaskSet, Stages, Tasks, Messages
<1>13. ASSUME Forget
       PROVE  EditInv'
  BY <1>13 DEF Forget, EditInv, EditWaits, Idle, Call
<1> SUFFICES ASSUME RestsKept
             PROVE  EditInv'
  BY <1>13, RestsNext
<1>2. ASSUME NEW t \in Tasks, NEW k, task' = [task EXCEPT ![t] = k], UNCHANGED backfillQueue,
             editQueue' \subseteq editQueue,
             k.op # "idle" => /\ k.op = task[t].op /\ k.group = task[t].group
                              /\ k.op = "edit" /\ k.at # "done" =>
                                     task[t].at # "done" /\ k.message = task[t].message
      PROVE  EditsShrink /\ PostsShrink
  <2>1. \A g \in Groups : ToBackfill(g)' => ToBackfill(g)
    BY <1>2 DEF ToBackfill
  <2> QED
    BY <1>2, <2>1, TaskEdits, TaskPosts
<1>3. ASSUME UNCHANGED <<task, editQueue, backfillQueue>>
      PROVE  EditsShrink /\ PostsShrink
  BY <1>3 DEF EditsShrink, EditWaits, PostsShrink, PostsFor, ToBackfill
<1>4. ASSUME NEW g \in Groups, NEW t \in Spawned, IngestNew(g, t)
      PROVE  EditInv'
  <2>1. /\ g \in Rested' => \A m \in Messages : ~EditWaits(g, m)
        /\ live' = live \cup {g} /\ UNCHANGED <<messageId, channel, backfillQueue>>
    BY <1>4 DEF IngestNew, Races, Rested, Waiting, EditWaits, discord, queues
  <2>2. EditsShrink
    BY <1>1, <1>4, TaskEdits DEF IngestNew, Start, Post, Call, queues
  <2>3. \A h \in Groups \ {g} : /\ ToBackfill(h)' => ToBackfill(h)
                                /\ \A u \in Tasks : PostsFor(u, h)' => PostsFor(u, h)
    BY <1>1, <1>4, <2>1 DEF IngestNew, Start, Post, Call, PostsFor, ToBackfill
  <2>4. ASSUME NEW h \in live' \cap Rested', NEW m \in Messages, EditWaits(h, m)'
        PROVE  EditOK(h, m)'
    <3>1. EditWaits(h, m) /\ h \in live /\ h # g
      BY <1>1, <2>1, <2>2, <2>4 DEF EditsShrink
    <3>2. EditOK(h, m)
      BY <2>4, <3>1, WaitingRests DEF EditInv
    <3> QED
      BY <1>1, <2>1, <2>3, <3>1, <3>2 DEF EditOK
  <2> QED
    BY <2>4 DEF EditInv
<1>5. ASSUME NEW g \in Groups, NEW t \in Spawned, Mutate(g, t)
      PROVE  EditInv'
  <2>1. /\ g \in live /\ UNCHANGED <<live, messageId, channel, editQueue, backfillQueue>>
    BY <1>5 DEF Mutate, discord, queues
  <2>2. CASE messageId[g] = None
    <3>1. UNCHANGED task
      BY <1>5, <2>2 DEF Mutate
    <3> QED
      BY <1>3, <2>1, <3>1, EditsKept
  <2>3. CASE messageId[g] # None
    <3>1. task' = [task EXCEPT ![t] = Edit(g, messageId[g])]
      BY <1>5, <2>3 DEF Mutate, Start
    <3>2. \A h \in Groups : ToBackfill(h)' => ToBackfill(h)
      BY <2>1 DEF ToBackfill
    <3>3. PostsShrink
      BY <1>1, <3>1, <3>2, TaskPosts DEF Edit, Call
    <3>4. ASSUME NEW h \in live \cap Rested', NEW m \in Messages, EditWaits(h, m)'
          PROVE  EditOK(h, m)
      <4>1. EditWaits(h, m) \/ (h = g /\ m = messageId[g])
        BY <1>1, <2>1, <3>1, <3>4 DEF EditWaits, Edit, Call
      <4>2. CASE EditWaits(h, m)
        BY <3>4, <4>2, WaitingRests DEF EditInv
      <4>3. CASE h = g /\ m = messageId[g]
        <5>1. g \in Rested \/ ~Waiting(g)
          BY <3>4, <4>3 DEF RestsKept
        <5> QED
          BY <2>1, <2>3, <4>3, <5>1, TrackedEdit
      <4> QED
        BY <4>1, <4>2, <4>3
    <3>5. ASSUME NEW h \in live, NEW m \in Messages, EditOK(h, m)
          PROVE  EditOK(h, m)'
      BY <1>1, <2>1, <3>3, <3>5 DEF EditOK, PostsShrink
    <3> QED
      BY <2>1, <3>4, <3>5 DEF EditInv
  <2> QED
    BY <2>2, <2>3
<1>6. ASSUME NEW g \in Groups, NEW t \in Spawned, Remove(g, t)
      PROVE  EditInv'
  <2>1. /\ \A h \in live' : h \in live /\ messageId'[h] = messageId[h]
        /\ UNCHANGED <<channel, editQueue, backfillQueue>>
    BY <1>1, <1>6 DEF Remove, discord, queues
  <2>2. EditsShrink /\ PostsShrink
    <3>1. CASE messageId[g] = None
      BY <1>3, <1>6, <2>1, <3>1 DEF Remove
    <3>2. CASE messageId[g] # None
      <4>1. task' = [task EXCEPT ![t] = Delete(messageId[g])]
        BY <1>6, <3>2 DEF Remove, Start
      <4>2. \A h \in Groups : ToBackfill(h)' => ToBackfill(h)
        BY <2>1 DEF ToBackfill
      <4>3. Delete(messageId[g]).op = "delete"
        BY DEF Delete, Call
      <4> QED
        BY <1>1, <2>1, <4>1, <4>2, <4>3, TaskEdits, TaskPosts
    <3> QED
      BY <3>1, <3>2
  <2> QED
    BY <2>1, <2>2, EditsKept
<1>7. ASSUME NEW g \in Groups, IngestRepeat(g)
      PROVE  EditInv'
  BY <1>3, <1>7, EditsKept DEF IngestRepeat, discord, queues
<1>8. ASSUME NEW t \in Tasks, TaskStep(t)
      PROVE  EditInv'
  <2>1. CASE (Read(t) /\ task[t].group \in live) \/ EditLands(t)
    <3>1. UNCHANGED <<live, messageId, channel, editQueue, backfillQueue>>
      BY <2>1 DEF Read, EditLands, database, discord, queues
    <3>2. EditsShrink /\ PostsShrink
      BY <1>2, <2>1, <3>1 DEF Read, EditLands, Goes
    <3> QED
      BY <3>1, <3>2, EditsKept
  <2>2. CASE Send(t)
    <3>1. /\ UNCHANGED <<live, messageId, editQueue, backfillQueue>>
          /\ channel' = channel \cup {lastMessage + 1} /\ lastMessage \in Nat
      BY <2>2, MirrorAssumption DEF Send, TypeOK, database, queues
    <3>2. EditsShrink /\ PostsShrink
      BY <1>2, <2>2, <3>1 DEF Send, Goes
    <3>3. ASSUME NEW g \in live \cap Rested', NEW m \in Messages, EditWaits(g, m)'
          PROVE  EditOK(g, m)'
      <4>1. EditWaits(g, m)
        BY <1>1, <3>2, <3>3 DEF EditsShrink
      <4>2. m # lastMessage + 1
        <5>1. Claims(g, m)
          BY <4>1 DEF EditWaits, Claims
        <5>2. m <= lastMessage
          BY <1>1, <5>1 DEF OwnerInv
        <5> QED
          BY <3>1, <5>2
      <4>3. EditOK(g, m)
        BY <3>3, <4>1, WaitingRests DEF EditInv
      <4> QED
        BY <1>1, <3>1, <3>2, <4>2, <4>3 DEF EditOK, PostsShrink
    <3> QED
      BY <3>1, <3>3 DEF EditInv
  <2>3. CASE PostResume(t)
    <3>1. PICK g \in Groups : g = task[t].group /\ PostsFor(t, g)
      BY <1>1, <2>3 DEF PostResume, PostsFor, TaskOK, TaskSet
    <3>2. /\ UNCHANGED <<live, channel, editQueue, backfillQueue>>
          /\ \A h \in Groups \ {g} : messageId'[h] = messageId[h]
      BY <1>1, <2>3, <3>1 DEF PostResume, discord, queues
    <3>3. EditsShrink /\ PostsShrink
      BY <1>2, <2>3, <3>2 DEF PostResume, Finish, Idle, Call
    <3>4. g \in Rested => backfillQueue # None
      BY <3>1 DEF PostInv
    <3>5. ASSUME NEW h \in live \cap Rested', NEW m \in Messages, EditWaits(h, m)'
          PROVE  EditOK(h, m)'
      <4>1. EditOK(h, m) /\ h \in Rested
        <5>1. EditWaits(h, m)
          BY <1>1, <3>3, <3>5 DEF EditsShrink
        <5> QED
          BY <3>5, <5>1, WaitingRests DEF EditInv
      <4>2. h = g => m \notin channel
        BY <3>1, <4>1 DEF EditOK
      <4> QED
        BY <1>1, <3>2, <3>3, <3>4, <4>1, <4>2 DEF EditOK, PostsShrink
    <3> QED
      BY <3>2, <3>5 DEF EditInv
  <2>4. CASE EditNotFound(t)
    <3>1. PICK g \in Groups : g = task[t].group
      BY <1>1, <2>4 DEF EditNotFound, TaskOK, TaskSet
    <3>2. PICK x \in Messages : x = task[t].message /\ x \notin channel /\ EditWaits(g, x)
      BY <1>1, <2>4, <3>1 DEF EditNotFound, TaskOK, EditWaits
    <3>3. /\ UNCHANGED <<live, channel, editQueue, backfillQueue>>
          /\ messageId' = [messageId EXCEPT ![g] = None]
      BY <2>4, <3>1 DEF EditNotFound, Untracked, discord, queues
    <3>4. EditsShrink /\ PostsShrink
      BY <1>2, <2>4, <3>3 DEF EditNotFound, Finish, Idle, Call
    <3>5. ASSUME NEW h \in live \cap Rested', NEW m \in Messages, EditWaits(h, m)'
          PROVE  EditOK(h, m)'
      <4>1. EditOK(h, m) /\ h \in Rested
        <5>1. EditWaits(h, m)
          BY <1>1, <3>4, <3>5 DEF EditsShrink
        <5> QED
          BY <3>5, <5>1, WaitingRests DEF EditInv
      <4>2. CASE h = g
        <5>1. EditOK(g, x)
          BY <3>2, <3>5, <4>1, <4>2 DEF EditInv
        <5>2. ~(m \in channel /\ backfillQueue = None)
          BY <1>1, <3>2, <4>1, <4>2, <5>1 DEF EditOK
        <5> QED
          BY <1>1, <3>3, <3>4, <4>1, <4>2, <5>2 DEF EditOK, PostsShrink
      <4>3. CASE h # g
        BY <1>1, <3>3, <3>4, <4>1, <4>3 DEF EditOK, PostsShrink
      <4> QED
        BY <4>2, <4>3
    <3> QED
      BY <3>3, <3>5 DEF EditInv
  <2>5. CASE Raise(t)
    <3>1. \A g \in Groups : ToBackfill(g)' => ToBackfill(g)
      BY <2>5 DEF Raise, ToBackfill
    <3>2. editQueue' \subseteq editQueue /\ task' = [task EXCEPT ![t] = Idle] /\ Idle.op = "idle"
      BY <2>5 DEF Raise, Finish, Idle, Call
    <3>3. EditsShrink /\ PostsShrink
      BY <3>1, <3>2, TaskEdits, TaskPosts
    <3>4. backfillQueue' = None => backfillQueue = None
      <4>1. {} \in SUBSET Groups
        OBVIOUS
      <4> QED
        BY <2>5, <4>1, MirrorAssumption DEF Raise
    <3> QED
      BY <2>5, <3>3, <3>4, EditsKept DEF Raise, database, discord
  <2>6. CASE ~(Read(t) /\ task[t].group \in live) /\ ~EditLands(t) /\ ~Send(t) /\ ~PostResume(t)
             /\ ~EditNotFound(t) /\ ~Raise(t)
    <3>1. Finish(t) /\ UNCHANGED <<live, messageId, editQueue, backfillQueue>>
          /\ channel' \subseteq channel
      BY <1>8, <2>6 DEF TaskStep, Read, NoChannel, PostFails, EditResume, EditFails,
         DeleteLands, DeleteFails, database, discord, queues
    <3>2. EditsShrink /\ PostsShrink
      BY <1>2, <3>1 DEF Finish, Idle, Call
    <3> QED
      BY <3>1, <3>2, EditsKept
  <2> QED
    BY <2>1, <2>2, <2>3, <2>4, <2>5, <2>6
<1>9. ASSUME NEW m \in Messages, Moderate(m)
      PROVE  EditInv'
  BY <1>3, <1>9, EditsKept DEF Moderate, database, queues
<1>10. ASSUME RefreshLoop
       PROVE  EditInv'
  <2>1. UNCHANGED <<live, messageId, channel, backfillQueue>>
    BY <1>10 DEF RefreshLoop, RefreshTick, RefreshEdit, RefreshPop, RefreshDelete, RefreshSleep,
       database, discord
  <2>2. \A g \in Groups : ToBackfill(g)' => ToBackfill(g)
    BY <2>1 DEF ToBackfill
  <2>3. CASE RefreshTick
    <3>1. ASSUME NEW g \in live \cap Rested', NEW m \in Messages, EditWaits(g, m)'
          PROVE  EditOK(g, m)
      <4>1. EditWaits(g, m) \/ m = messageId[g]
        BY <2>3, <3>1 DEF RefreshTick, EditWaits
      <4>2. g \in Rested
        BY <2>3, <3>1 DEF RefreshTick, Rested, memory
      <4> QED
        BY <1>1, <4>1, <4>2, TrackedEdit DEF EditInv
    <3>2. ASSUME NEW g \in live, NEW m \in Messages, EditOK(g, m)
          PROVE  EditOK(g, m)'
      BY <1>1, <2>1, <2>2, <2>3, <3>2 DEF EditOK, RefreshTick, PostsFor
    <3> QED
      BY <2>1, <3>1, <3>2 DEF EditInv
  <2>4. CASE RefreshEdit
    <3>1. PICK pair \in editQueue : editQueue' = editQueue \ {pair}
                                    /\ task' = [task EXCEPT !["refresh"] = Edit(pair[1], pair[2])]
      BY <2>4 DEF RefreshEdit
    <3>2. pair = <<pair[1], pair[2]>> /\ pair[1] \in Groups /\ pair[2] \in Messages
      BY DEF TypeOK
    <3>3. EditWaits(pair[1], pair[2])
      BY <3>1, <3>2 DEF EditWaits
    <3>4. EditsShrink
      <4>1. ASSUME NEW g \in Groups, NEW m \in Messages, EditWaits(g, m)'
            PROVE  EditWaits(g, m)
        <5>1. EditWaits(g, m) \/ (g = pair[1] /\ m = pair[2])
          BY <1>1, <3>1, <4>1 DEF EditWaits, Edit, Call
        <5> QED
          BY <3>3, <5>1
      <4> QED
        BY <4>1 DEF EditsShrink
    <3>5. PostsShrink
      BY <1>1, <2>2, <3>1, TaskPosts DEF Edit, Call
    <3> QED
      BY <2>1, <3>4, <3>5, EditsKept
  <2>5. CASE RefreshDelete
    <3>1. PICK x : task' = [task EXCEPT !["refresh"] = Delete(x)]
      BY <2>5 DEF RefreshDelete
    <3>2. Delete(x).op = "delete" /\ UNCHANGED editQueue
      BY <2>5 DEF RefreshDelete, Delete, Call
    <3>3. EditsShrink /\ PostsShrink
      BY <1>1, <2>2, <3>1, <3>2, TaskEdits, TaskPosts
    <3> QED
      BY <2>1, <3>3, EditsKept
  <2>6. CASE RefreshPop \/ RefreshSleep
    <3>1. UNCHANGED <<task, editQueue>>
      BY <2>6 DEF RefreshPop, RefreshSleep
    <3> QED
      BY <1>3, <2>1, <3>1, EditsKept
  <2> QED
    BY <1>10, <2>3, <2>4, <2>5, <2>6 DEF RefreshLoop
<1>11. ASSUME BackfillStart
       PROVE  EditInv'
  <2>1. /\ UNCHANGED <<live, messageId, channel, editQueue, task>>
        /\ backfillQueue = None /\ backfillQueue' = {g \in live : messageId[g] = None}
    BY <1>11 DEF BackfillStart, database, discord
  <2>2. backfillQueue' # None
    <3>1. backfillQueue' \in SUBSET Groups
      BY <1>1, <2>1
    <3> QED
      BY <3>1, MirrorAssumption
  <2>3. ASSUME NEW g \in live \cap Rested', NEW m \in Messages, EditWaits(g, m)'
        PROVE  EditOK(g, m)'
    <3>1. EditOK(g, m)
      <4>1. EditWaits(g, m)
        BY <2>1, <2>3 DEF EditWaits
      <4> QED
        BY <2>3, <4>1, WaitingRests DEF EditInv
    <3>2. m \in channel => ~ToBackfill(g)'
      BY <1>1, <2>1, <3>1 DEF EditOK, ToBackfill
    <3> QED
      BY <2>1, <2>2, <3>1, <3>2 DEF EditOK, PostsFor
  <2> QED
    BY <2>1, <2>3 DEF EditInv
<1>12. ASSUME BackfillPost
       PROVE  EditInv'
  <2>1. PICK g \in backfillQueue : /\ backfillQueue' = backfillQueue \ {g}
                                   /\ task' = [task EXCEPT !["backfill"] = Post(g)]
    BY <1>12 DEF BackfillPost
  <2>2. /\ g \in Groups /\ ToBackfill(g)
        /\ backfillQueue # None /\ backfillQueue' # None
        /\ UNCHANGED <<live, messageId, channel, editQueue>>
    <3>1. /\ backfillQueue # None /\ backfillQueue \in SUBSET Groups
          /\ UNCHANGED <<live, messageId, channel, editQueue>>
      BY <1>12 DEF BackfillPost, TypeOK, database, discord
    <3>2. backfillQueue' \in SUBSET Groups
      BY <2>1, <3>1
    <3> QED
      BY <2>1, <3>1, <3>2, MirrorAssumption DEF ToBackfill
  <2>3. \A h \in Groups : ToBackfill(h)' => ToBackfill(h)
    BY <2>1, <2>2 DEF ToBackfill
  <2>4. \A h \in Groups, u \in Tasks : PostsFor(u, h)' => PostsFor(u, h) \/ h = g
    BY <1>1, <2>1 DEF PostsFor, Post, Call
  <2>5. EditsShrink
    BY <1>1, <2>1, <2>2, TaskEdits DEF Post, Call
  <2>6. ASSUME NEW h \in live \cap Rested', NEW m \in Messages, EditWaits(h, m)'
        PROVE  EditOK(h, m)'
    <3>1. EditOK(h, m)
      <4>1. EditWaits(h, m)
        BY <1>1, <2>5, <2>6 DEF EditsShrink
      <4> QED
        BY <2>6, <4>1, WaitingRests DEF EditInv
    <3> QED
      BY <1>1, <2>2, <2>3, <2>4, <3>1 DEF EditOK
  <2> QED
    BY <2>2, <2>6 DEF EditInv
<1>14. Restart \/ (\E g, h \in Groups : RestartMerging(g, h)) => Forget
  BY DEF Restart, RestartMerging
<1>15. ASSUME UNCHANGED vars
       PROVE  EditInv'
  BY <1>3, <1>15, EditsKept DEF vars, database, discord, queues
<1> QED
  BY <1>4, <1>5, <1>6, <1>7, <1>8, <1>9, <1>10, <1>11, <1>12, <1>13, <1>14, <1>15 DEF Next
-----------------------------------------------------------------------------
(* What a group and its calls hold stays true.                             *)

(* A group that does not change, nor lose its flag, nor have its messages  *)
(* overwritten, while its calls in flight stand still or end.              *)
LEMMA FreshKept ==
    ASSUME TypeOK, TasksFit, NEW g \in live, Fresh(g),
           version'[g] = version[g], Excused(g) => Excused(g)',
           messageId'[g] \in {None, messageId[g]},
           \A m \in Messages : Claims(g, m) => shows'[m] = shows[m],
           \A t \in Tasks : task'[t].group = g => task'[t].at = "start" \/ task'[t] = task[t]
    PROVE  Fresh(g)'
<1>1. /\ \A t \in Tasks : task[t] \in TaskSet /\ TaskOK(task[t])
      /\ g \in Groups /\ messageId[g] \in Messages \cup {None}
  BY DEF TypeOK, TasksFit, TaskSet, Stages
<1>2. FreshRow(g)'
  <2>1. messageId'[g] # None =>
          /\ messageId'[g] = messageId[g]
          /\ shows'[messageId[g]] = shows[messageId[g]]
    BY <1>1 DEF Claims
  <2> QED
    BY <2>1 DEF FreshRow, Fresh
<1>3. ASSUME NEW t \in Tasks, task'[t].group = g
      PROVE  FreshCall(task[t], g)'
  <2>1. CASE task'[t].at = "start"
    BY <2>1 DEF FreshCall
  <2>2. CASE task'[t] = task[t]
    <3>1. FreshCall(task[t], g) /\ task[t].group = g
      BY <1>3, <2>2 DEF Fresh
    <3>2. task[t].at = "done" => shows'[task[t].message] = shows[task[t].message]
      <4>1. task[t].at = "done" => task[t].message \in Messages
        BY <1>1 DEF TaskSet, TaskOK
      <4> QED
        BY <3>1, <4>1 DEF Claims
    <3> QED
      BY <2>2, <3>1, <3>2 DEF FreshCall
  <2> QED
    BY <1>3, <2>1, <2>2
<1> QED
  BY <1>2, <1>3 DEF Fresh

LEMMA FreshChanged ==
    ASSUME TypeOK, NEW g \in Groups, hasActivity'[g] = TRUE,
           \A t \in Tasks : task'[t].group = g /\ task'[t].op = "edit" => task'[t].at = "start"
    PROVE  Fresh(g)'
BY DEF Fresh, FreshRow, FreshCall, Excused

(* The calls in flight stand still or end. *)
Still == \A t \in Tasks : task'[t].at = "start" \/ task'[t] = task[t]

LEMMA StillCalls ==
    ASSUME TypeOK, NEW t \in Tasks, NEW k, task' = [task EXCEPT ![t] = k], k.at = "start"
    PROVE  Still
BY DEF TypeOK, Still

LEMMA FreshNext ==
    ASSUME TypeOK, TasksFit, OwnerInv, TurnsInv, EditInv, FreshInv, [Next]_vars
    PROVE  FreshInv'
<1>1. /\ task \in [Tasks -> TaskSet] /\ messageId \in [Groups -> Messages \cup {None}]
      /\ live \subseteq Groups
      /\ \A t \in Tasks : task[t] \in TaskSet /\ TaskOK(task[t])
      /\ Spawned \subseteq Tasks /\ "refresh" \in Tasks /\ "backfill" \in Tasks
      /\ None \notin Groups /\ None \notin Messages /\ hasActivity \in [Groups -> BOOLEAN]
      /\ version \in [Groups -> 0..MaxVersion] /\ shows \in [Messages -> 0..MaxVersion]
  BY MirrorAssumption DEF TypeOK, TasksFit, TaskSet, Stages, Tasks, Messages
<1>2. ASSUME NEW g \in live \cap Rested, UNCHANGED shows, Still, version'[g] = version[g],
             Excused(g) => Excused(g)', messageId'[g] \in {None, messageId[g]}
      PROVE  Fresh(g)'
  <2>1. Fresh(g) /\ \A m \in Messages : Claims(g, m) => shows'[m] = shows[m]
    BY <1>2 DEF FreshInv
  <2>2. \A t \in Tasks : task'[t].group = g => task'[t].at = "start" \/ task'[t] = task[t]
    BY <1>2 DEF Still
  <2> QED
    BY <1>2, <2>1, <2>2, FreshKept
<1>3. ASSUME UNCHANGED <<version, shows>>, Still, hasActivity' = hasActivity, gaveUp' = gaveUp,
             Rested' \subseteq Rested,
             \A g \in live' : g \in live /\ messageId'[g] \in {None, messageId[g]}
      PROVE  FreshInv'
  BY <1>2, <1>3 DEF FreshInv, Excused
<1>4. UNCHANGED task => Still
  BY DEF Still
<1>5. \A t \in Tasks : Finish(t) => Still
  BY StillCalls DEF Finish, Idle, Call
<1>6. \A g \in Groups, m \in Messages \cup {None} :
          Post(g).at = "start" /\ Edit(g, m).at = "start" /\ Delete(m).at = "start"
  BY DEF Post, Edit, Delete, Call
<1>7. ASSUME NEW g \in Groups, NEW t \in Spawned, IngestNew(g, t)
      PROVE  FreshInv'
  <2>1. /\ g \notin live /\ live' = live \cup {g} /\ UNCHANGED <<messageId, hasActivity, shows>>
        /\ gaveUp' = gaveUp \ {g} /\ version' = [version EXCEPT ![g] = @ + 1]
        /\ g \in Rested' => ~Waiting(g)
        /\ Rested' \ {g} \subseteq Rested
        /\ task' = [task EXCEPT ![t] = Post(g)]
    BY <1>7 DEF IngestNew, Changed, Races, Rested, Start, discord
  <2>2. Still
    BY <1>1, <1>6, <2>1, StillCalls
  <2>3. ASSUME NEW h \in live \cap Rested
        PROVE  Fresh(h)'
    <3>1. version'[h] = version[h] /\ (Excused(h) => Excused(h)')
      BY <1>1, <2>1, <2>3 DEF Excused
    <3> QED
      BY <1>2, <2>1, <2>2, <3>1
  <2>4. ASSUME g \in Rested'
        PROVE  Fresh(g)'
    <3>1. FreshRow(g)'
      BY <2>1 DEF OwnerInv, FreshRow
    <3>2. ASSUME NEW u \in Tasks, task'[u].group = g
          PROVE  FreshCall(task[u], g)'
      <4>1. task[u].group # g
        BY <2>1, <2>4 DEF Waiting
      <4>2. task'[u] = Post(g)
        BY <1>1, <2>1, <3>2, <4>1
      <4> QED
        BY <1>1, <1>6, <4>2 DEF FreshCall
    <3> QED
      BY <3>1, <3>2 DEF Fresh
  <2> QED
    BY <2>1, <2>3, <2>4 DEF FreshInv
<1>8. ASSUME NEW g \in Groups, IngestRepeat(g) \/ \E t \in Spawned : Mutate(g, t)
      PROVE  FreshInv'
  <2>1. /\ g \in live /\ UNCHANGED <<live, messageId, shows>>
        /\ g \in Rested' => ~InFlight(g, {"edit"})
        /\ Rested' \ {g} \subseteq Rested
        /\ gaveUp' = gaveUp \ {g} /\ version' = [version EXCEPT ![g] = @ + 1]
        /\ hasActivity' = [hasActivity EXCEPT ![g] = TRUE]
    BY <1>8 DEF IngestRepeat, Mutate, Changed, Races, Rested, FlagSet, discord
  <2>2. Still
    <3>1. ASSUME NEW t \in Spawned, Mutate(g, t)
          PROVE  Still
      <4>1. CASE messageId[g] = None
        BY <1>4, <3>1, <4>1 DEF Mutate
      <4>2. CASE messageId[g] # None
        <5>1. task' = [task EXCEPT ![t] = Edit(g, messageId[g])]
          BY <3>1, <4>2 DEF Mutate, Start
        <5>2. Edit(g, messageId[g]).at = "start" /\ t \in Tasks
          BY <1>1, <1>6
        <5> QED
          BY <5>1, <5>2, StillCalls
      <4> QED
        BY <4>1, <4>2
    <3> QED
      BY <1>4, <1>8, <3>1 DEF IngestRepeat
  <2>3. ASSUME NEW h \in (live \cap Rested) \ {g}
        PROVE  Fresh(h)'
    <3>1. version'[h] = version[h] /\ (Excused(h) => Excused(h)')
      BY <1>1, <2>1, <2>3 DEF Excused
    <3> QED
      BY <1>2, <2>1, <2>2, <3>1
  <2>4. ASSUME g \in Rested'
        PROVE  Fresh(g)'
    <3>1. \A t \in Tasks : task'[t].group = g /\ task'[t].op = "edit" => task'[t].at = "start"
      BY <2>1, <2>2, <2>4 DEF Still, InFlight
    <3>2. hasActivity'[g] = TRUE
      BY <1>1, <2>1
    <3> QED
      BY <3>1, <3>2, FreshChanged
  <2> QED
    BY <2>1, <2>3, <2>4 DEF FreshInv
<1>9. ASSUME NEW g \in Groups, NEW t \in Spawned, Remove(g, t)
      PROVE  FreshInv'
  <2>1. /\ live' = live \ {g} /\ UNCHANGED <<version, shows>>
        /\ gaveUp' = gaveUp \ {g} /\ hasActivity' = [hasActivity EXCEPT ![g] = FALSE]
        /\ messageId' = [messageId EXCEPT ![g] = None] /\ Rested' = Rested
    BY <1>9 DEF Remove, Rested, discord
  <2>2. Still
    <3>1. CASE messageId[g] = None
      BY <1>4, <1>9, <3>1 DEF Remove
    <3>2. CASE messageId[g] # None
      <4>1. task' = [task EXCEPT ![t] = Delete(messageId[g])]
        BY <1>9, <3>2 DEF Remove, Start
      <4>2. Delete(messageId[g]).at = "start" /\ t \in Tasks
        BY <1>1, <1>6
      <4> QED
        BY <4>1, <4>2, StillCalls
    <3> QED
      BY <3>1, <3>2
  <2>3. ASSUME NEW h \in live' \cap Rested'
        PROVE  Fresh(h)'
    <3>1. /\ h \in live \cap Rested /\ version'[h] = version[h] /\ messageId'[h] = messageId[h]
          /\ Excused(h) => Excused(h)'
      BY <1>1, <2>1, <2>3 DEF Excused
    <3> QED
      BY <1>2, <2>1, <2>2, <3>1
  <2> QED
    BY <2>3 DEF FreshInv
<1>10. ASSUME NEW t \in Tasks, NEW g \in Groups, task[t].group = g,
              NEW k, task' = [task EXCEPT ![t] = k], k.group \in {g, None},
              UNCHANGED <<live, version>>, Rested' \subseteq Rested,
              \A h \in Groups \ {g} : /\ Excused(h) => Excused(h)'
                                      /\ messageId'[h] = messageId[h],
              \A h \in Groups \ {g}, m \in Messages : Claims(h, m) => shows'[m] = shows[m],
              g \in live \cap Rested' => Fresh(g)'
       PROVE  FreshInv'
  <2>1. ASSUME NEW h \in live \cap Rested, h # g
        PROVE  Fresh(h)'
    <3>1. \A u \in Tasks : task'[u].group = h => task'[u] = task[u]
      BY <1>1, <1>10, <2>1
    <3>2. /\ Fresh(h) /\ version'[h] = version[h] /\ (Excused(h) => Excused(h)')
          /\ messageId'[h] \in {None, messageId[h]}
          /\ \A m \in Messages : Claims(h, m) => shows'[m] = shows[m]
      BY <1>1, <1>10, <2>1 DEF FreshInv
    <3> QED
      BY <3>1, <3>2, FreshKept
  <2> QED
    BY <1>10, <2>1 DEF FreshInv
<1>11. ASSUME NEW t \in Tasks, TaskStep(t)
       PROVE  FreshInv'
  <2>0. Rested' \subseteq Rested
    BY <1>11, StepRaces DEF Rested
  <2>1. CASE Read(t) /\ task[t].group \in live
    <3>1. PICK g \in Groups : g = task[t].group /\ g \in live
      BY <1>1, <2>1
    <3> DEFINE k == [op |-> task[t].op, at |-> "read", group |-> g, message |-> task[t].message,
                     copy |-> version[g]]
    <3>2. /\ task' = [task EXCEPT ![t] = k]
          /\ UNCHANGED <<live, version, messageId, shows, hasActivity, gaveUp>>
      BY <1>1, <2>1, <3>1 DEF Read, Goes, database, discord, memory
    <3>3. ASSUME g \in Rested'
          PROVE  Fresh(g)'
      <4>1. Fresh(g) /\ FreshRow(g)'
        BY <2>0, <3>1, <3>2, <3>3 DEF FreshInv, Fresh, FreshRow, Excused
      <4>2. ASSUME NEW u \in Tasks, task'[u].group = g
            PROVE  FreshCall(task[u], g)'
        <5>1. CASE u = t
          BY <1>1, <3>1, <3>2, <5>1 DEF FreshCall
        <5>2. CASE u # t
          <6>1. task'[u] = task[u] /\ FreshCall(task[u], g)
            BY <1>1, <3>2, <4>1, <4>2, <5>2 DEF Fresh
          <6> QED
            BY <3>1, <3>2, <6>1 DEF FreshCall, Excused
        <5> QED
          BY <5>1, <5>2
      <4> QED
        BY <4>1, <4>2 DEF Fresh
    <3>4. \A h \in Groups : Excused(h) => Excused(h)'
      BY <3>2 DEF Excused
    <3>5. k.group = g
      OBVIOUS
    <3> HIDE DEF k
    <3> QED
      BY <1>10, <2>0, <3>1, <3>2, <3>3, <3>4, <3>5
  <2>2. CASE Send(t)
    <3>1. PICK g \in Groups : g = task[t].group
      BY <1>1, <2>2 DEF Send, TaskOK, TaskSet
    <3> DEFINE x == lastMessage + 1
               k == [op |-> "post", at |-> "done", group |-> g, message |-> x, copy |-> 0]
    <3>2. /\ task' = [task EXCEPT ![t] = k] /\ task[t].op = "post" /\ task[t].at = "read"
          /\ UNCHANGED <<live, version, messageId, hasActivity, gaveUp>>
          /\ x \in Messages /\ shows' = [shows EXCEPT ![x] = task[t].copy]
      BY <1>1, <2>2, <3>1, MirrorAssumption DEF Send, Goes, database, memory, TypeOK, Messages
    <3>3. \A h \in Groups, m \in Messages : Claims(h, m) => m # x
      BY MirrorAssumption DEF OwnerInv, TypeOK, Messages
    <3>4. /\ k.group = g /\ k.op = "post" /\ k.at = "done" /\ k.message = x
      OBVIOUS
    <3> HIDE DEF k, x
    <3>5. \A h \in Groups, m \in Messages : Claims(h, m) => shows'[m] = shows[m]
      BY <1>1, <3>2, <3>3
    <3>6. \A h \in Groups : (Excused(h) => Excused(h)') /\ messageId'[h] = messageId[h]
      BY <3>2 DEF Excused
    <3>7. ASSUME g \in live, g \in Rested'
          PROVE  Fresh(g)'
      <4>1. Fresh(g)
        BY <2>0, <3>7 DEF FreshInv
      <4>2. FreshRow(g)'
        <5>1. messageId[g] # None => shows'[messageId[g]] = shows[messageId[g]]
          BY <1>1, <3>5 DEF Claims
        <5> QED
          BY <3>2, <3>6, <4>1, <5>1 DEF Fresh, FreshRow
      <4>3. ASSUME NEW u \in Tasks, task'[u].group = g
            PROVE  FreshCall(task[u], g)'
        <5>1. CASE u = t
          <6>1. task[t].copy = version[g] \/ Excused(g)
            BY <3>1, <3>2, <4>1 DEF Fresh, FreshCall
          <6>2. task'[t] = k /\ shows'[x] = task[t].copy
            BY <1>1, <3>2
          <6> QED
            BY <3>2, <3>4, <3>6, <5>1, <6>1, <6>2 DEF FreshCall
        <5>2. CASE u # t
          <6>1. task'[u] = task[u] /\ FreshCall(task[u], g)
            BY <1>1, <3>2, <4>1, <4>3, <5>2 DEF Fresh
          <6>2. task[u].at = "done" => shows'[task[u].message] = shows[task[u].message]
            <7>1. task[u].at = "done" => task[u].message \in Messages
              BY <1>1 DEF TaskSet, TaskOK
            <7> QED
              BY <3>5, <4>3, <6>1, <7>1 DEF Claims
          <6> QED
            BY <3>2, <3>6, <6>1, <6>2 DEF FreshCall
        <5> QED
          BY <5>1, <5>2
      <4> QED
        BY <4>2, <4>3 DEF Fresh
    <3>8. UNCHANGED <<live, version>> /\ task[t].group = g
      BY <3>1, <3>2
    <3> QED
      BY <1>10, <2>0, <3>2, <3>4, <3>5, <3>6, <3>7, <3>8
  <2>3. CASE PostResume(t)
    <3>1. PICK g \in Groups : g = task[t].group
      BY <1>1, <2>3 DEF PostResume, TaskOK, TaskSet
    <3>2. /\ task' = [task EXCEPT ![t] = Idle] /\ task[t].op = "post" /\ task[t].at = "done"
          /\ UNCHANGED <<live, version, shows, hasActivity, gaveUp>>
          /\ Idle.group = None /\ Idle.at = "start"
          /\ task[t].message \in Messages
      BY <1>1, <2>3 DEF PostResume, Finish, Idle, Call, discord, memory, TaskOK
    <3>3. /\ g \in live => messageId' = [messageId EXCEPT ![g] = task[t].message]
          /\ g \notin live => messageId' = messageId
      BY <2>3, <3>1 DEF PostResume
    <3>4. \A h \in Groups : (Excused(h) => Excused(h)') /\ (h # g => messageId'[h] = messageId[h])
      BY <1>1, <3>2, <3>3 DEF Excused
    <3>5. ASSUME g \in live, g \in Rested'
          PROVE  Fresh(g)'
      <4>1. Fresh(g) /\ messageId'[g] = task[t].message
        BY <1>1, <2>0, <3>3, <3>5 DEF FreshInv
      <4>2. shows[task[t].message] = version[g] \/ Excused(g)
        BY <3>1, <3>2, <4>1 DEF Fresh, FreshCall
      <4>3. FreshRow(g)'
        BY <3>2, <3>4, <4>1, <4>2 DEF FreshRow
      <4>4. ASSUME NEW u \in Tasks, task'[u].group = g
            PROVE  FreshCall(task[u], g)'
        <5>1. u # t /\ task'[u] = task[u]
          BY <1>1, <3>2, <4>4
        <5>2. task[u].at = "start"
          BY <1>1, <2>0, <3>1, <3>2, <3>5, <4>4, <5>1 DEF TurnsInv
        <5> QED
          BY <5>1, <5>2 DEF FreshCall
      <4> QED
        BY <4>3, <4>4 DEF Fresh
    <3>6. UNCHANGED <<live, version>> /\ task[t].group = g
      BY <3>1, <3>2
    <3>7. \A h \in Groups, m \in Messages : Claims(h, m) => shows'[m] = shows[m]
      BY <3>2
    <3> QED
      BY <1>10, <2>0, <3>2, <3>4, <3>5, <3>6, <3>7
  <2>4. CASE EditLands(t)
    <3>1. PICK g \in Groups : g = task[t].group
      BY <1>1, <2>4 DEF EditLands, TaskOK, TaskSet
    <3> DEFINE x == task[t].message
               k == [op |-> "edit", at |-> "done", group |-> g, message |-> x, copy |-> 0]
    <3>2. /\ task' = [task EXCEPT ![t] = k] /\ task[t].op = "edit" /\ task[t].at = "read"
          /\ UNCHANGED <<live, version, messageId, hasActivity, gaveUp>>
          /\ x \in Messages /\ x \in channel /\ shows' = [shows EXCEPT ![x] = task[t].copy]
      BY <1>1, <2>4, <3>1 DEF EditLands, Goes, database, memory, TaskOK
    <3>3. \A h \in Groups \ {g} : ~Claims(h, x)
      BY <3>1, <3>2 DEF Claims, OwnerInv
    <3>4. k.group = g /\ k.op = "edit" /\ k.at = "done" /\ k.message = x
      OBVIOUS
    <3>5. \A h \in Groups \ {g}, m \in Messages : Claims(h, m) => shows'[m] = shows[m]
      BY <1>1, <3>2, <3>3
    <3>6. \A h \in Groups : (Excused(h) => Excused(h)') /\ messageId'[h] = messageId[h]
      BY <3>2 DEF Excused
    <3>7. ASSUME g \in live, g \in Rested'
          PROVE  Fresh(g)'
      <4>1. Fresh(g) /\ EditWaits(g, x)
        BY <2>0, <3>1, <3>2, <3>7 DEF FreshInv, EditWaits
      <4>2. messageId[g] \in {None, x}
        BY <2>0, <3>2, <3>7, <4>1 DEF EditInv, EditOK
      <4>3. task'[t] = k /\ shows'[x] = version[g]
        BY <1>1, <3>1, <3>2, <4>1 DEF Fresh, FreshCall
      <4>4. FreshRow(g)'
        BY <3>2, <4>2, <4>3 DEF FreshRow
      <4>5. ASSUME NEW u \in Tasks, task'[u].group = g
            PROVE  FreshCall(task[u], g)'
        <5>1. CASE u = t
          BY <3>2, <3>4, <4>2, <4>3, <5>1 DEF FreshCall
        <5>2. CASE u # t
          <6>1. task'[u] = task[u] /\ task[u].at = "start"
            BY <1>1, <2>0, <3>1, <3>2, <3>7, <4>5, <5>2 DEF TurnsInv
          <6> QED
            BY <6>1 DEF FreshCall
        <5> QED
          BY <5>1, <5>2
      <4> QED
        BY <4>4, <4>5 DEF Fresh
    <3>8. UNCHANGED <<live, version>> /\ task[t].group = g
      BY <3>1, <3>2
    <3> HIDE DEF k, x
    <3> QED
      BY <1>10, <2>0, <3>2, <3>4, <3>5, <3>6, <3>7, <3>8
  <2>5. CASE EditResume(t)
    <3>1. PICK g \in Groups : g = task[t].group
      BY <1>1, <2>5 DEF EditResume, TaskOK, TaskSet
    <3>2. /\ task' = [task EXCEPT ![t] = Idle] /\ task[t].op = "edit" /\ task[t].at = "done"
          /\ UNCHANGED <<live, version, shows, messageId, gaveUp>>
          /\ hasActivity' = [hasActivity EXCEPT ![g] = FALSE]
          /\ Idle.group = None /\ Idle.at = "start"
      BY <2>5, <3>1 DEF EditResume, Finish, Idle, Call, discord
    <3>3. \A h \in Groups \ {g} : (Excused(h) => Excused(h)') /\ messageId'[h] = messageId[h]
      BY <1>1, <3>2 DEF Excused
    <3>4. ASSUME g \in live, g \in Rested'
          PROVE  Fresh(g)'
      <4>1. messageId[g] \in {None, task[t].message} /\ shows[task[t].message] = version[g]
        BY <2>0, <3>1, <3>2, <3>4 DEF FreshInv, Fresh, FreshCall
      <4>2. FreshRow(g)'
        BY <3>2, <4>1 DEF FreshRow
      <4>3. ASSUME NEW u \in Tasks, task'[u].group = g
            PROVE  FreshCall(task[u], g)'
        <5>1. u # t /\ task'[u] = task[u]
          BY <1>1, <3>2, <4>3
        <5>2. task[u].at = "start"
          BY <1>1, <2>0, <3>1, <3>2, <3>4, <4>3, <5>1 DEF TurnsInv
        <5> QED
          BY <5>1, <5>2 DEF FreshCall
      <4> QED
        BY <4>2, <4>3 DEF Fresh
    <3>5. /\ UNCHANGED <<live, version>> /\ task[t].group = g
          /\ \A h \in Groups, m \in Messages : Claims(h, m) => shows'[m] = shows[m]
      BY <3>1, <3>2
    <3> QED
      BY <1>10, <2>0, <3>2, <3>3, <3>4, <3>5
  <2>6. CASE EditNotFound(t)
    <3>1. PICK g \in Groups : g = task[t].group
      BY <1>1, <2>6 DEF EditNotFound, TaskOK, TaskSet
    <3>2. Still /\ UNCHANGED <<live, version, shows, hasActivity, gaveUp>>
      BY <1>5, <2>6 DEF EditNotFound, discord
    <3>3. \A h \in live : messageId'[h] \in {None, messageId[h]}
      BY <1>1, <2>6, <3>1 DEF EditNotFound, Untracked
    <3> QED
      BY <1>3, <2>0, <3>2, <3>3
  <2>7. CASE EditFails(t)
    <3>1. PICK g \in Groups : g = task[t].group
      BY <1>1, <2>7 DEF EditFails, TaskOK, TaskSet
    <3>2. Still /\ UNCHANGED <<live, version, shows, messageId>>
      BY <1>5, <2>7 DEF EditFails, discord
    <3>3. \A h \in live : Excused(h) => Excused(h)'
      BY <1>1, <2>7, <3>1 DEF EditFails, Excused
    <3>4. \A h \in live \cap Rested : Fresh(h)'
      BY <1>2, <3>2, <3>3
    <3> QED
      BY <2>0, <3>2, <3>4 DEF FreshInv
  <2>8. CASE \/ Read(t) /\ task[t].group \notin live
             \/ NoChannel(t) \/ PostFails(t) \/ DeleteLands(t) \/ DeleteFails(t) \/ Raise(t)
    <3>1. Finish(t) /\ UNCHANGED <<live, version, shows, messageId, hasActivity, gaveUp>>
      BY <2>8 DEF Read, NoChannel, PostFails, DeleteLands, DeleteFails, Raise, database, discord, memory
    <3> QED
      BY <1>3, <1>5, <2>0, <3>1
  <2> QED
    BY <1>11, <2>1, <2>2, <2>3, <2>4, <2>5, <2>6, <2>7, <2>8 DEF TaskStep
<1>12. ASSUME RefreshLoop \/ BackfillStart \/ BackfillPost \/ (\E m \in Messages : Moderate(m))
              \/ UNCHANGED vars
       PROVE  FreshInv'
  <2>1. UNCHANGED <<live, version, shows, messageId, hasActivity, gaveUp>> /\ Rested' = Rested
    BY <1>12 DEF Rested, RefreshLoop, RefreshTick, RefreshEdit, RefreshPop, RefreshDelete, RefreshSleep,
       BackfillStart, BackfillPost, Moderate, vars, database, discord, memory
  <2>2. Still
    <3>1. CASE RefreshEdit
      <4>1. PICK pair \in editQueue : task' = [task EXCEPT !["refresh"] = Edit(pair[1], pair[2])]
        BY <3>1 DEF RefreshEdit
      <4>2. Edit(pair[1], pair[2]).at = "start"
        BY DEF Edit, Call
      <4> QED
        BY <1>1, <4>1, <4>2, StillCalls
    <3>2. CASE RefreshDelete
      <4>1. PICK m \in deleteQueue : task' = [task EXCEPT !["refresh"] = Delete(m)]
        BY <3>2 DEF RefreshDelete
      <4>2. Delete(m).at = "start"
        BY DEF Delete, Call
      <4> QED
        BY <1>1, <4>1, <4>2, StillCalls
    <3>3. CASE BackfillPost
      <4>1. PICK g \in backfillQueue : task' = [task EXCEPT !["backfill"] = Post(g)]
        BY <3>3 DEF BackfillPost
      <4>2. Post(g).at = "start"
        BY DEF Post, Call
      <4> QED
        BY <1>1, <4>1, <4>2, StillCalls
    <3>4. CASE RefreshTick \/ RefreshPop \/ RefreshSleep \/ BackfillStart \/ UNCHANGED vars
               \/ (\E m \in Messages : Moderate(m))
      BY <1>4, <3>4 DEF RefreshTick, RefreshPop, RefreshSleep, BackfillStart, Moderate, vars
    <3> QED
      BY <1>12, <3>1, <3>2, <3>3, <3>4 DEF RefreshLoop
  <2> QED
    BY <1>3, <2>1, <2>2
<1>13. Forget => Still /\ \A t \in Tasks : task'[t].op = "idle"
  BY DEF Forget, Still, Idle, Call
<1>14. ASSUME Restart
       PROVE  FreshInv'
  BY <1>3, <1>13, <1>14 DEF Restart, Rested, database, discord
<1>15. ASSUME NEW g \in Groups, NEW h \in Groups, RestartMerging(g, h)
       PROVE  FreshInv'
  <2>1. /\ live' = live \ {h} /\ UNCHANGED shows /\ g # h /\ Rested' \subseteq Rested \cup {g, h}
        /\ \A i \in Groups \ {g, h} : /\ version'[i] = version[i]
                                      /\ Excused(i) => Excused(i)'
                                      /\ messageId'[i] = messageId[i]
    BY <1>1, <1>15 DEF RestartMerging, Rested, discord, Excused
  <2>2. Still /\ \A t \in Tasks : task'[t].op # "edit"
    BY <1>13, <1>15 DEF RestartMerging
  <2>3. hasActivity'[g] = TRUE
    BY <1>1, <1>15, Zenon DEF RestartMerging
  <2>4. Fresh(g)'
    BY <2>2, <2>3, FreshChanged
  <2>5. \A i \in (live \cap Rested) \ {g, h} : Fresh(i)'
    BY <1>1, <1>2, <2>1, <2>2
  <2> QED
    BY <2>1, <2>4, <2>5 DEF FreshInv
<1> QED
  BY <1>7, <1>8, <1>9, <1>11, <1>12, <1>14, <1>15 DEF Next
-----------------------------------------------------------------------------
MirrorInv == TypeOK /\ TasksFit /\ OwnerInv /\ TurnsInv /\ PostInv /\ EditInv /\ FreshInv

LEMMA MirrorInit == Init => MirrorInv
<1> SUFFICES ASSUME Init PROVE MirrorInv
  OBVIOUS
<1>1. TypeOK /\ TasksFit
  BY TypedInit
<1>2. OwnerInv
  BY OwnerInit
<1>3. /\ live = {} /\ \A t \in Tasks : task[t].op = "idle" /\ task[t].at = "start"
  BY DEF Init, Idle, Call
<1>4. TurnsInv /\ EditInv /\ FreshInv
  BY <1>3 DEF TurnsInv, EditInv, FreshInv
<1>5. PostInv
  BY <1>3 DEF PostInv, PostsFor
<1> QED
  BY <1>1, <1>2, <1>4, <1>5 DEF MirrorInv

LEMMA MirrorNext ==
    ASSUME MirrorInv, [Next]_vars
    PROVE  MirrorInv'
<1>1. TypeOK /\ TasksFit /\ OwnerInv /\ TurnsInv /\ PostInv /\ EditInv /\ FreshInv
  BY DEF MirrorInv
<1> QED
  BY <1>1, TasksTyped, TypedNext, OwnerNext, TurnsNext, PostNext, EditNext, FreshNext DEF MirrorInv

(* However the tasks, the loop and the changes of all groups interleave, a *)
(* message whose group has neither pending activity nor given-up edits     *)
(* shows the group as it is, unless calls or changes of that same group    *)
(* overlapped since a change last found it at rest.  Failed calls,         *)
(* moderators, removals, the backfill, restarts, merges and overlaps       *)
(* within other groups never clear the flag for content not shown.         *)
THEOREM RestedStaleIsFlaggedCorrect == Spec => []RestedStaleIsFlagged
<1>1. MirrorInv /\ [Next]_vars => MirrorInv'
  BY MirrorNext
<1>2. MirrorInv => RestedStaleIsFlagged
  <2> SUFFICES ASSUME MirrorInv, NEW g \in Rested, Stale(g)
               PROVE  Excused(g)
    BY DEF RestedStaleIsFlagged, Rested, Excused
  <2>1. messageId[g] # None
    <3>1. None \notin Messages
      BY MirrorAssumption DEF Messages
    <3> QED
      BY <3>1 DEF MirrorInv, TypeOK, Stale
  <2> QED
    BY <2>1 DEF MirrorInv, FreshInv, Fresh, FreshRow, Stale, Rested
<1> QED
  BY <1>1, <1>2, MirrorInit, PTL DEF Spec
=============================================================================
