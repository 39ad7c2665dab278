------------------------ MODULE PrBotTrustProofs ------------------------
(***************************************************************************)
(* TLAPS proofs about the state PrBot trusts: while tasks take turns and   *)
(* nothing fails, and after the first startup pass that nothing disturbs.  *)
(***************************************************************************)
EXTENDS PrBotProofs

Stages == {"history", "polls", "sweep", "complete"}

(* Whole means one task at a time; healing, the startup pass alone.        *)
TrustInv ==
    /\ ~up => trust = "broken"
    /\ trust = "healing" => /\ task["startup"] # <<>> /\ webhooks = <<>>
                            /\ \A t \in Handlers : task[t] = <<>>
    /\ trust = "whole" =>
         /\ task["startup"] = <<>>
         /\ \A t, u \in Handlers : task[t] # <<>> /\ task[u] # <<>> => t = u
    /\ trust # "whole" => \A p \in PRs : owed[p] = 0
    /\ trust = "broken" => filled = {}

(* The startup pass ends with its next part, a handler with its DM, and a  *)
(* handler awaits GitHub in its first operation only.                      *)
ShapeInv ==
    \A t \in Tasks : \A i \in DOMAIN task[t] :
        /\ task[t][i].op \in Stages => t = "startup" /\ i = Len(task[t])
        /\ t = "startup" /\ i = Len(task[t]) => task[t][i].op \in Stages
        /\ t \in Handlers /\ task[t][i].op \in {"dm", "notify", "rethread", "recheck"} => i = Len(task[t])
        /\ task[t][i].op = "notify" => \A x, y \in task[t][i].transitions : x = y
        /\ t \in Handlers /\ task[t][i].op \in GitHubOps => i = 1 /\ task[t][i].op # "poll"
-----------------------------------------------------------------------------
(* What a step may put in its place: mostly operations of no consequence   *)
(* for the trust, sometimes a DM at the end, a question to GitHub at the   *)
(* start, an auto-post in place of the question about the author, or the   *)
(* next part of the startup pass.                                          *)

Plain == {"sleep", "state", "reconcile", "ingest", "look", "react", "reread"}
OnLabel == {"labels", "post", "unguard"}

Adds(o, ops) ==
    /\ \A i \in DOMAIN ops :
        /\ ops[i].op \in Stages => o.op \in Stages /\ i = Len(ops)
        /\ ops[i].op \notin {"notify", "labels"}
        /\ ops[i].op \in OnLabel => o.op = "author"
        /\ ops[i].op = "dm" =>
             \/ o.op = "poll"
             \/ /\ o.op \in {"notify", "recheck"} /\ i = Len(ops) /\ ops[i].pr = o.pr
                /\ o.op = "notify" => o.transitions # {}
        /\ ops[i].op \in GitHubOps =>
             \/ o.op = "polls"
             \/ /\ i = 1 /\ Len(ops) = 1
                /\ ops[i].op = o.op \/ (o.op = "state" /\ ops[i].op = "fetch")
    /\ o.op \in {"history", "polls", "sweep"} => ops # <<>> /\ ops[Len(ops)].op \in Stages
    /\ o.op = "complete" => ops = <<>>

GivesUp(t) == DiscordFails(t) /\ Op(t).op = "history" /\ task' = [task EXCEPT ![t] = <<>>]
StepAdds(t) == GivesUp(t) \/ \E ops \in Seq(OpSet) : Then(t, ops) /\ Adds(Op(t), ops)

LEMMA AutopostsAre ==
    ASSUME NEW p \in PRs, NEW tracked \in BOOLEAN
    PROVE  /\ Posts(p, tracked) \in Seq(OpSet) /\ DOMAIN Posts(p, tracked) = 1..2
           /\ \A i \in DOMAIN Posts(p, tracked) : Posts(p, tracked)[i].op \in {"post", "unguard"}
  BY PostsTyped DEF Posts

LEMMA PlainAdds ==
    ASSUME NEW o, NEW ops \in Seq(OpSet), Only(ops, Plain), o.op \notin {"history", "polls", "sweep", "complete"}
    PROVE  Adds(o, ops)
  BY DEF Only, Plain, OnLabel, Adds, Stages, GitHubOps

LEMMA OneOp ==
    ASSUME NEW x \in OpSet
    PROVE  /\ <<x>> \in Seq(OpSet) /\ Len(<<x>>) = 1 /\ DOMAIN <<x>> = {1} /\ <<x>>[1] = x
           /\ \A kinds : x.op \in kinds => Only(<<x>>, kinds)
           /\ <<>> \in Seq(OpSet) /\ \A kinds : Only(<<>>, kinds)
<1>1. <<x>> \in Seq(OpSet) /\ Len(<<x>>) = 1 /\ DOMAIN <<x>> = {1} /\ <<x>>[1] = x
  OBVIOUS
<1>2. <<>> \in Seq(OpSet) /\ DOMAIN <<>> = {}
  OBVIOUS
<1> QED
  BY <1>1, <1>2 DEF Only

LEMMA NoOps ==
    <<>> \in Seq(OpSet) /\ Len(<<>>) = 0 /\ DOMAIN <<>> = {} /\ \A kinds : Only(<<>>, kinds)
<1>1. <<>> \in Seq(OpSet) /\ Len(<<>>) = 0 /\ DOMAIN <<>> = {}
  OBVIOUS
<1> QED
  BY <1>1 DEF Only

(* Reconciliations and, after them, at most one DM. *)
LEMMA TellAdds ==
    ASSUME NEW o, o.op \in {"notify", "recheck"}, NEW ms \in SUBSET Messages, NEW ds \in Seq(OpSet),
           Only(ds, {"dm"}), \A i \in DOMAIN ds : ds[i].pr = o.pr,
           Len(ds) \in {0, 1}, o.op = "notify" /\ Len(ds) = 1 => o.transitions # {}
    PROVE  Reconciles(ms) \o ds \in Seq(OpSet) /\ Adds(o, Reconciles(ms) \o ds)
<1> DEFINE rs == Reconciles(ms)
<1>1. rs \in Seq(OpSet) /\ \A i \in DOMAIN rs : rs[i].op = "reconcile"
  BY ReconcilesAre
<1> HIDE DEF rs
<1>2. /\ rs \o ds \in Seq(OpSet) /\ Len(rs) \in Nat
      /\ DOMAIN rs = 1..Len(rs) /\ DOMAIN ds = 1..Len(ds)
      /\ Len(rs \o ds) = Len(rs) + Len(ds)
      /\ DOMAIN (rs \o ds) = 1..(Len(rs) + Len(ds))
      /\ \A i \in 1..(Len(rs) + Len(ds)) :
           (rs \o ds)[i] = IF i <= Len(rs) THEN rs[i] ELSE ds[i - Len(rs)]
  BY <1>1, BothAre
<1>3. ASSUME NEW i \in DOMAIN (rs \o ds)
      PROVE  \/ (rs \o ds)[i].op = "reconcile"
             \/ /\ (rs \o ds)[i].op = "dm" /\ (rs \o ds)[i].pr = o.pr
                /\ i = Len(rs \o ds) /\ Len(ds) = 1
  <2>0. i \in 1..(Len(rs) + Len(ds))
    BY <1>2
  <2>1. CASE i <= Len(rs)
    <3>1. (rs \o ds)[i] = rs[i] /\ i \in DOMAIN rs
      BY <1>2, <2>0, <2>1
    <3> QED
      BY <1>1, <3>1
  <2>2. CASE ~(i <= Len(rs))
    <3>1. Len(ds) = 1 /\ i = Len(rs) + 1
      BY <1>2, <2>0, <2>2
    <3>2. (rs \o ds)[i] = ds[1] /\ 1 \in DOMAIN ds
      BY <1>2, <2>0, <2>2, <3>1
    <3>3. ds[1].op = "dm" /\ ds[1].pr = o.pr
      BY <3>2 DEF Only
    <3> QED
      BY <1>2, <3>1, <3>2, <3>3
  <2> QED
    BY <2>1, <2>2
<1>4. Adds(o, rs \o ds)
  BY <1>3 DEF Adds, Stages, OnLabel, GitHubOps
<1> QED
  BY <1>2, <1>4 DEF rs

LEMMA PacedAdds ==
    ASSUME NEW o, NEW ops \in Seq(OpSet), NEW next \in {"polls", "sweep", "complete"},
           o.op \in Stages \ {"complete"},
           \A i \in DOMAIN ops : ops[i].op \in Plain \/ (o.op = "polls" /\ ops[i].op = "poll")
    PROVE  Paced(ops, next) \in Seq(OpSet) /\ Adds(o, Paced(ops, next))
<1> DEFINE n == Len(ops)
           k == 2 * n
           s == Paced(ops, next)
<1>1. /\ s \in Seq(OpSet) /\ Len(s) = k + 1 /\ n \in Nat /\ s[k + 1] = [op |-> next]
      /\ \A i \in 1..k : s[i] = IF i % 2 = 1 THEN ops[(i + 1) \div 2] ELSE Pause
      /\ DOMAIN ops = 1..n
  BY PacedAre, LenProperties
<1> HIDE DEF s
<1>2. ASSUME NEW i \in 1..k
      PROVE  s[i].op \in Plain \/ (o.op = "polls" /\ s[i].op = "poll")
  <2>1. i % 2 = 1 => (i + 1) \div 2 \in 1..n
    BY <1>1
  <2> QED
    BY <1>1, <2>1 DEF Pause, Plain
<1>3. k \in Nat /\ DOMAIN s = 1..(k + 1)
  <2>1. k \in Nat
    BY <1>1
  <2> HIDE DEF k
  <2> QED
    BY <1>1, <2>1, LenProperties
<1> HIDE DEF k, n
<1>4. \A i \in DOMAIN s : i \in 1..k \/ i = k + 1
  BY <1>3
<1>5. s[k + 1].op = next /\ next \in Stages /\ k + 1 = Len(s) /\ s # <<>>
  BY <1>1, <1>3, EmptySeq DEF Stages
<1>6. ASSUME NEW i \in DOMAIN s
      PROVE  /\ s[i].op \in Stages => o.op \in Stages /\ i = Len(s)
             /\ s[i].op \notin {"notify", "dm"} /\ s[i].op \notin OnLabel
             /\ s[i].op \in GitHubOps => o.op = "polls"
  <2>1. CASE i \in 1..k
    BY <1>2, <2>1 DEF Stages, Plain, OnLabel, GitHubOps
  <2>2. CASE i = k + 1
    BY <1>5, <2>2 DEF Stages, OnLabel, GitHubOps
  <2> QED
    BY <1>4, <2>1, <2>2
<1>7. Adds(o, s)
  BY <1>5, <1>6 DEF Adds, OnLabel
<1> QED
  BY <1>1, <1>7 DEF s

LEMMA StepsAdd ==
    ASSUME Typed, ShapeInv, NEW t \in Tasks, task[t] # <<>>, Step(t)
    PROVE  StepAdds(t)
<1> DEFINE o == Op(t)
<1>0. /\ o \in OpSet /\ GitHubOK /\ ChannelOK /\ ReactionsOK /\ TablesOK /\ TasksOK
      /\ o.op = "notify" => \A x, y \in o.transitions : x = y
  <2>1. GitHubOK /\ ChannelOK /\ ReactionsOK /\ TablesOK /\ TasksOK
    BY DEF Typed
  <2>2. o = task[t][1] /\ 1 \in DOMAIN task[t]
    BY <2>1, TaskFields
  <2> QED
    BY <2>1, <2>2, OpTyped DEF ShapeInv
<1>1. ASSUME NEW ops \in Seq(OpSet), Then(t, ops), Only(ops, Plain), o.op \notin {"history", "polls", "sweep", "complete"}
      PROVE  StepAdds(t)
  BY <1>1, PlainAdds DEF StepAdds
<1>2. ASSUME NEW x \in OpSet, Then(t, <<x>>), x.op \in Plain, o.op \notin {"history", "polls", "sweep", "complete"}
      PROVE  StepAdds(t)
  BY <1>1, <1>2, OneOp
<1>3. ASSUME Then(t, <<>>), o.op \notin {"history", "polls", "sweep", "complete"}
      PROVE  StepAdds(t)
  BY <1>1, <1>3, NoOps
<1>4. ASSUME NEW x \in OpSet, Then(t, <<x>>), x.op \in GitHubOps,
             x.op = o.op \/ (o.op = "state" /\ x.op = "fetch")
      PROVE  StepAdds(t)
  <2>1. Adds(o, <<x>>)
    BY <1>4, OneOp DEF Adds, Stages, OnLabel, GitHubOps
  <2> QED
    BY <1>4, <2>1, OneOp DEF StepAdds
<1>5. ASSUME NEW lost \in Lost(Op(t).op), Answer(t, lost) PROVE StepAdds(t)
  <2> DEFINE x == [o EXCEPT !.answer = [row |-> Truth(o.pr), lost |-> lost]]
  <2>1. o.op \in GitHubOps
    BY <1>5 DEF Answer
  <2>2. lost \in SUBSET {"all", "failing", "resolved"}
    BY DEF Lost
  <2>3. [row |-> Truth(o.pr), lost |-> lost] \in Answers
    BY <1>0, <2>1, <2>2, AwaitFields, TruthTyped DEF Answers
  <2>4. x \in OpSet
    BY <1>0, <2>1, <2>3, AnswerGiven DEF Given
  <2>5. x.op = o.op
    <3>1. o \in Fetches \/ o \in Threads \/ o \in Rethreads \/ o \in Rechecks \/ o \in Polls
      BY <1>0, <2>1, OpFields DEF GitHubOps
    <3> QED
      BY <3>1 DEF Fetches, Threads, Rethreads, Rechecks, Polls
  <2>6. Then(t, <<x>>)
    BY <1>5 DEF Answer
  <2> HIDE DEF x
  <2> QED
    BY <1>4, <2>1, <2>4, <2>5, <2>6
<1>6. ASSUME IngestMessage(t) PROVE StepAdds(t)
  <2>1. o \in Ingestions /\ o.op = "ingest"
    BY <1>0, <1>6, OpFields DEF IngestMessage, At
  <2>2. o.message \in Messages /\ o.links \in SUBSET PRs
    BY <2>1 DEF Ingestions
  <2>3. Reconcile(o.message) \in OpSet /\ Reconcile(o.message).op = "reconcile"
    BY <2>2, GivenOps DEF Reconcile, Given
  <2>4. <<Reconcile(o.message)>> \in Seq(OpSet) /\ Only(<<Reconcile(o.message)>>, Plain)
    BY <2>3, OneOp DEF Plain
  <2>5. States(o.links) \in Seq(OpSet) /\ Only(States(o.links), Plain)
    BY <2>2, StatesAre DEF Plain, Only
  <2>6. IngestOps(o.message, o.links) \in Seq(OpSet) /\ Only(IngestOps(o.message, o.links), Plain)
    BY <2>4, <2>5, BothAre, OnlyBoth DEF IngestOps
  <2>7. Then(t, IngestOps(o.message, o.links))
    BY <1>6 DEF IngestMessage
  <2> QED
    BY <1>1, <2>1, <2>6, <2>7
<1>7. ASSUME LookUpState(t) PROVE StepAdds(t)
  <2>1. o \in PrOps /\ o.op = "state"
    BY <1>0, <1>7, OpFields DEF LookUpState, At
  <2>2. o.pr \in PRs
    BY <2>1 DEF PrOps
  <2>3. /\ Await("fetch", o.pr, None) \in OpSet /\ Await("fetch", o.pr, None).op = "fetch"
        /\ Pause \in OpSet /\ Pause.op = "sleep"
    BY <2>2, AwaitGiven, GivenOps DEF Given, Await, Pause
  <2>4. Then(t, <<Await("fetch", o.pr, None)>>) \/ Then(t, <<>>) \/ Then(t, <<Pause>>)
    BY <1>7 DEF LookUpState
  <2>5. "fetch" \in GitHubOps /\ "sleep" \in Plain
    BY DEF GitHubOps, Plain
  <2> QED
    BY <1>2, <1>3, <1>4, <2>1, <2>3, <2>4, <2>5
<1>8. ASSUME FetchAndStore(t) \/ UpdateDone(t) \/ DmUser(t) \/ Sleep(t) \/ ReadThreads(t)
             \/ AutopostUnanswered(t) \/ Unguard(t) \/ StartupComplete(t)
      PROVE  StepAdds(t)
  <2>1. Then(t, <<>>) /\ o.op \in {"fetch", "react", "dm", "sleep", "threads", "post", "unguard", "complete"}
    BY <1>8 DEF FetchAndStore, UpdateDone, DmUser, Sleep, ReadThreads, AutopostUnanswered, AutopostLands,
       Unguard, StartupComplete, Answered, At
  <2>2. CASE o.op = "complete"
    <3>1. Adds(o, <<>>)
      BY <2>2, NoOps DEF Adds
    <3> QED
      BY <2>1, <3>1, NoOps DEF StepAdds
  <2>3. CASE o.op # "complete"
    BY <1>3, <2>1, <2>3
  <2> QED
    BY <2>2, <2>3
<1>9. ASSUME ReadRows(t) PROVE StepAdds(t)
  <2>1. o \in MessageOps /\ o.op = "reconcile"
    BY <1>0, <1>9, OpFields DEF ReadRows, At
  <2>2. o.message \in Messages
    BY <2>1 DEF MessageOps
  <2>3. ASSUME NEW rows,
               Then(t, <<[op |-> "look", message |-> o.message, want |-> Desired(rows),
                          mark |-> Mark(rows, o.message)]>>)
        PROVE  StepAdds(t)
    <3>1. Desired(rows) \in SUBSET Emoji /\ Mark(rows, o.message) \in Marks
      BY DEF Desired, Mark, Marks
    <3>2. [op |-> "look", message |-> o.message, want |-> Desired(rows), mark |-> Mark(rows, o.message)]
            \in Looks
      BY <2>2, <3>1 DEF Looks
    <3>3. \A x \in Looks : x \in OpSet /\ x.op \in Plain
      BY DEF OpSet, Looks, Plain
    <3> QED
      BY <1>2, <2>1, <2>3, <3>2, <3>3
  <2>4. Then(t, <<>>) \/ \E rows : Then(t, <<[op |-> "look", message |-> o.message, want |-> Desired(rows),
                                              mark |-> Mark(rows, o.message)]>>)
    BY <1>9 DEF ReadRows
  <2> QED
    BY <1>3, <2>1, <2>3, <2>4
<1>10. ASSUME FetchMessage(t) PROVE StepAdds(t)
  <2> DEFINE x == [op |-> "react", message |-> o.message, mark |-> o.mark,
                   add |-> o.want \ reactions[o.message], remove |-> reactions[o.message] \ o.want]
  <2>1. o \in Looks /\ o.op = "look"
    BY <1>0, <1>10, OpFields DEF FetchMessage, At
  <2>2. o.message \in Messages /\ o.want \in SUBSET Emoji /\ o.mark \in Marks
    BY <2>1 DEF Looks
  <2>3. reactions[o.message] \in SUBSET Emoji
    BY <1>0, <2>2 DEF ReactionsOK
  <2>4. x \in Reactions
    BY <2>2, <2>3 DEF Reactions
  <2>5. x \in OpSet /\ x.op \in Plain
    BY <2>4 DEF OpSet, Plain
  <2>6. Then(t, <<>>) \/ Then(t, <<x>>)
    BY <1>10 DEF FetchMessage
  <2> HIDE DEF x
  <2> QED
    BY <1>2, <1>3, <2>1, <2>5, <2>6
<1>11. ASSUME NEW emoji, NEW fails, React(t, emoji, fails) PROVE StepAdds(t)
  <2> DEFINE x == [o EXCEPT !.add = @ \ {emoji}, !.remove = @ \ {emoji}]
  <2>1. o \in Reactions /\ o.op = "react"
    BY <1>0, <1>11, OpFields DEF React, At
  <2>2. x \in Reactions
    BY <2>1 DEF Reactions
  <2>3. x \in OpSet /\ x.op \in Plain
    BY <2>2 DEF OpSet, Plain, Reactions
  <2>4. Then(t, <<x>>)
    BY <1>11 DEF React
  <2> HIDE DEF x
  <2> QED
    BY <1>2, <2>1, <2>3, <2>4
<1>12. ASSUME DiscordFails(t) PROVE StepAdds(t)
  BY <1>3, <1>12 DEF DiscordFails, StepAdds, GivesUp
<1>13. ASSUME NotifyMessages(t) PROVE StepAdds(t)
  <2> DEFINE ends == o.transitions \cap Terminal # {}
             ms == IF ends THEN MessagesFor(o.pr) ELSE NotDone(MessagesFor(o.pr))
  <2>1. o \in Notices /\ o.op = "notify"
    BY <1>0, <1>13, OpFields DEF NotifyMessages, At
  <2>2. o.pr \in PRs /\ o.transitions \in SUBSET Transitions /\ ms \in SUBSET Messages
    BY <2>1, MessagesOfPR DEF Notices
  <2>3. PICK ds \in {<<>>, Dms(o.pr, o.transitions)} : Then(t, Reconciles(ms) \o ds)
    BY <1>13 DEF NotifyMessages
  <2>4. /\ ds \in Seq(OpSet) /\ Only(ds, {"dm"}) /\ (\A i \in DOMAIN ds : ds[i].pr = o.pr)
        /\ Len(ds) \in {0, 1} /\ (Len(ds) = 1 => o.transitions # {})
    <3>1. CASE ds = <<>>
      BY <3>1, NoOps
    <3>2. CASE ds = Dms(o.pr, o.transitions)
      <4>1. \A x, y \in o.transitions : x = y
        BY <1>0, <2>1
      <4> QED
        BY <2>2, <3>2, <4>1, DmsAre
    <3> QED
      BY <3>1, <3>2
  <2> HIDE DEF ms
  <2>5. Reconciles(ms) \o ds \in Seq(OpSet) /\ Adds(o, Reconciles(ms) \o ds)
    BY <2>1, <2>2, <2>4, TellAdds
  <2> QED
    BY <2>3, <2>5 DEF StepAdds
<1>14. ASSUME RecheckThreads(t) PROVE StepAdds(t)
  <2>1. o.known \in SUBSET Messages /\ o.op = "rethread"
    BY <1>0, <1>14, AnswerTyped DEF RecheckThreads, GitHubOps, Answered, At
  <2>2. Reconciles(o.known) \in Seq(OpSet) /\ Only(Reconciles(o.known), Plain)
    BY <2>1, ReconcilesAre DEF Plain, Only
  <2>3. Then(t, <<>>) \/ Then(t, Reconciles(o.known))
    BY <1>14 DEF RecheckThreads
  <2> QED
    BY <1>1, <1>3, <2>1, <2>2, <2>3
<1>15. ASSUME RecheckChecks(t) PROVE StepAdds(t)
  <2>1. o.known.messages \in SUBSET Messages /\ o.pr \in PRs /\ o.op = "recheck"
    BY <1>0, <1>15, AnswerTyped DEF RecheckChecks, GitHubOps, Answered, At
  <2>2. \E ds \in {<<>>, Dms(o.pr, {"checks_failed"})} :
           Then(t, <<>>) \/ Then(t, Reconciles(o.known.messages) \o ds)
    BY <1>15 DEF RecheckChecks
  <2>3. PICK ds \in {<<>>, Dms(o.pr, {"checks_failed"})} :
           Then(t, <<>>) \/ Then(t, Reconciles(o.known.messages) \o ds)
    BY <2>2
  <2>4. {"checks_failed"} \in SUBSET Transitions /\ \A x, y \in {"checks_failed"} : x = y
    BY DEF Transitions
  <2>5. /\ ds \in Seq(OpSet) /\ Only(ds, {"dm"}) /\ (\A i \in DOMAIN ds : ds[i].pr = o.pr)
        /\ Len(ds) \in {0, 1}
    <3>1. CASE ds = <<>>
      BY <3>1, NoOps
    <3>2. CASE ds = Dms(o.pr, {"checks_failed"})
      BY <2>1, <2>4, <3>2, DmsAre
    <3> QED
      BY <3>1, <3>2
  <2>6. /\ Reconciles(o.known.messages) \o ds \in Seq(OpSet)
        /\ Adds(o, Reconciles(o.known.messages) \o ds)
    <3>1. ~(o.op = "notify") /\ o.op \in {"notify", "recheck"}
      BY <2>1
    <3> QED
      BY <2>1, <2>5, <3>1, TellAdds
  <2> QED
    BY <1>3, <2>1, <2>3, <2>6 DEF StepAdds
<1>16. ASSUME Autopost(t) PROVE StepAdds(t)
  <2>1. o \in PostOps /\ o.op = "post"
    BY <1>0, <1>16, OpFields DEF Autopost, AutopostLands, At
  <2>2. o.pr \in PRs /\ posted + 1 \in Messages
    BY <1>0, <1>16, <2>1, PrBotAssumption DEF PostOps, Autopost, AutopostLands, ChannelOK, Messages
  <2>3. Ingest(posted + 1, {o.pr}) \in OpSet /\ Ingest(posted + 1, {o.pr}).op \in Plain
    <3>1. Ingest(posted + 1, {o.pr}) \in Ingestions
      BY <2>2 DEF Ingest, Ingestions
    <3> QED
      BY <3>1 DEF OpSet, Ingest, Plain
  <2>4. Then(t, <<Ingest(posted + 1, {o.pr})>>)
    BY <1>16 DEF Autopost
  <2> QED
    BY <1>2, <2>1, <2>3, <2>4
<1>17. ASSUME StoreLabels(t) PROVE StepAdds(t)
  <2> DEFINE rs == Reconciles(NotDone(MessagesFor(o.pr)))
  <2>1. rs \in Seq(OpSet) /\ Only(rs, Plain)
    BY MessagesOfPR, ReconcilesAre DEF Plain, Only
  <2>2. o.op = "labels" /\ (Then(t, <<>>) \/ Then(t, rs))
    BY <1>17 DEF StoreLabels, At
  <2> HIDE DEF rs
  <2> QED
    BY <1>1, <1>3, <2>1, <2>2
<1>18. ASSUME RereadMessage(t) PROVE StepAdds(t)
  <2>1. o \in MessageOps /\ o.op = "reread"
    BY <1>0, <1>18, OpFields DEF RereadMessage, At
  <2>2. o.message \in Messages
    BY <2>1 DEF MessageOps
  <2>3. content[o.message] # None =>
          Ingest(o.message, content[o.message]) \in OpSet /\ Ingest(o.message, content[o.message]).op \in Plain
    <3>1. content[o.message] # None => Ingest(o.message, content[o.message]) \in Ingestions
      BY <1>0, <2>2 DEF Ingest, Ingestions, ChannelOK
    <3> QED
      BY <3>1 DEF OpSet, Ingest, Plain
  <2>4. Then(t, <<>>) \/ (content[o.message] # None /\ Then(t, <<Ingest(o.message, content[o.message])>>))
    BY <1>18 DEF RereadMessage
  <2> QED
    BY <1>2, <1>3, <2>1, <2>3, <2>4
<1>19. ASSUME ScanHistory(t) PROVE StepAdds(t)
  <2> DEFINE found == {m \in Messages : content[m] # None} \ (old \cup o.skip)
             n == Cardinality(found)
             f == InOrder(found)
             is == [i \in 1..n |-> Ingest(f[i], content[f[i]])]
  <2>1. n \in Nat /\ f \in [1..n -> found]
    BY MessagesFinite, InOrderInto
  <2>2. \A m \in found : m \in Messages /\ content[m] \in SUBSET PRs
    BY <1>0 DEF ChannelOK
  <2>3. Then(t, Paced(is, "polls")) /\ o.op = "history"
    BY <1>19 DEF ScanHistory, At
  <2> HIDE DEF found, n, f
  <2>4. \A i \in 1..n : Ingest(f[i], content[f[i]]) \in OpSet /\ Ingest(f[i], content[f[i]]).op = "ingest"
    <3>1. \A m \in found : Ingest(m, content[m]) \in Ingestions
      BY <2>2 DEF Ingest, Ingestions
    <3> QED
      BY <2>1, <3>1 DEF OpSet, Ingest
  <2>5. is \in [1..n -> OpSet] /\ \A i \in 1..n : is[i].op = "ingest"
    BY <2>4
  <2>6. is \in Seq(OpSet) /\ DOMAIN is = 1..n
    BY <2>1, <2>5, FunctionIsSeq
  <2> HIDE DEF is
  <2>7. Paced(is, "polls") \in Seq(OpSet) /\ Adds(o, Paced(is, "polls"))
    <3>1. o.op \in Stages \ {"complete"} /\ \A i \in DOMAIN is : is[i].op \in Plain \/ (o.op = "polls" /\ is[i].op = "poll")
      BY <2>3, <2>5, <2>6 DEF Stages, Plain
    <3> QED
      BY <2>6, <3>1, PacedAdds
  <2> QED
    BY <2>3, <2>7 DEF StepAdds
<1>20. ASSUME ListActivePRs(t) PROVE StepAdds(t)
  <2> DEFINE n == Cardinality(ActivePRs)
             f == SetToSeq(ActivePRs)
             ps == [i \in 1..n |-> Await("poll", f[i], row[f[i]])]
  <2>1. n \in Nat /\ f \in [1..n -> ActivePRs]
    <3>1. ActivePRs \in SUBSET PRs
      BY DEF ActivePRs
    <3>2. IsFiniteSet(ActivePRs)
      BY <3>1, PrBotAssumption, FS_Subset
    <3> QED
      BY <3>2, SetToSeqInto
  <2>2. \A p \in ActivePRs : p \in PRs /\ row[p] \in Row
    BY <1>0 DEF ActivePRs, TablesOK
  <2>3. Then(t, Paced(ps, "sweep")) /\ o.op = "polls"
    BY <1>20 DEF ListActivePRs, At
  <2> HIDE DEF n, f
  <2>4. \A i \in 1..n : Await("poll", f[i], row[f[i]]) \in OpSet /\ Await("poll", f[i], row[f[i]]).op = "poll"
    <3>1. \A p \in ActivePRs : Await("poll", p, row[p]) \in OpSet
      BY <2>2, AwaitGiven DEF Given
    <3> QED
      BY <2>1, <3>1 DEF Await
  <2>5. ps \in [1..n -> OpSet] /\ \A i \in 1..n : ps[i].op = "poll"
    BY <2>4
  <2>6. ps \in Seq(OpSet) /\ DOMAIN ps = 1..n
    BY <2>1, <2>5, FunctionIsSeq
  <2> HIDE DEF ps
  <2>7. Paced(ps, "sweep") \in Seq(OpSet) /\ Adds(o, Paced(ps, "sweep"))
    <3>1. o.op \in Stages \ {"complete"} /\ \A i \in DOMAIN ps : ps[i].op \in Plain \/ (o.op = "polls" /\ ps[i].op = "poll")
      BY <2>3, <2>5, <2>6 DEF Stages
    <3> QED
      BY <2>6, <3>1, PacedAdds
  <2> QED
    BY <2>3, <2>7 DEF StepAdds
<1>21. ASSUME PollPR(t) PROVE StepAdds(t)
  <2> DEFINE was == o.known
             new == Read(t, was)
             transitions == ({new.life} \cap Terminal)
                            \cup (IF new.review # was.review THEN {new.review} \ {"none"} ELSE {})
                            \cup (IF new.failing /\ ~was.failing THEN {"checks_failed"} ELSE {})
             rs == Reconciles(MessagesFor(o.pr))
             ds == IF NotDone(MessagesFor(o.pr)) = {} THEN <<>> ELSE Dms(o.pr, transitions)
  <2>1. o.pr \in PRs /\ was \in Row /\ o.op = "poll"
    BY <1>0, <1>21, AnswerTyped DEF PollPR, GitHubOps, Answered, At
  <2>2. new \in Row
    BY <1>0, <1>21, <2>1, ReadTyped DEF PollPR, GitHubOps
  <2>3. transitions \in SUBSET Transitions
    <3>1. new.review \in Statuses
      BY <2>2 DEF Row
    <3> HIDE DEF new, was
    <3> QED
      BY <3>1 DEF Transitions, ReviewTransitions
  <2>4. Then(t, <<>>) \/ Then(t, rs \o ds)
    BY <1>21 DEF PollPR
  <2>5. rs \in Seq(OpSet) /\ Only(rs, {"reconcile", "dm"})
    BY MessagesOfPR, ReconcilesAre DEF Only
  <2> HIDE DEF transitions
  <2>6. ds \in Seq(OpSet) /\ Only(ds, {"reconcile", "dm"})
    <3>1. CASE ds = <<>>
      BY <3>1, NoOps
    <3>2. CASE ds = Dms(o.pr, transitions)
      BY <2>1, <2>3, <3>2, DmsAre DEF Only
    <3> QED
      BY <3>1, <3>2
  <2> HIDE DEF rs, ds
  <2>7. rs \o ds \in Seq(OpSet) /\ Only(rs \o ds, {"reconcile", "dm"})
    BY <2>5, <2>6, BothAre, OnlyBoth
  <2>8. Adds(o, rs \o ds)
    BY <2>1, <2>7 DEF Only, Adds, Stages, OnLabel, GitHubOps
  <2> QED
    BY <1>3, <2>1, <2>4, <2>7, <2>8 DEF StepAdds
<1>22. ASSUME SweepMessages(t) PROVE StepAdds(t)
  <2> DEFINE rs == Reconciles(ToSweep)
  <2>1. rs \in Seq(OpSet) /\ Only(rs, Plain)
    BY MessagesOfPR, ReconcilesAre DEF Plain, Only
  <2>2. Then(t, Paced(rs, "complete")) /\ o.op = "sweep"
    BY <1>22 DEF SweepMessages, At
  <2> HIDE DEF rs
  <2>3. Paced(rs, "complete") \in Seq(OpSet) /\ Adds(o, Paced(rs, "complete"))
    <3>1. o.op \in Stages \ {"complete"} /\ \A i \in DOMAIN rs : rs[i].op \in Plain \/ (o.op = "polls" /\ rs[i].op = "poll")
      BY <2>1, <2>2 DEF Stages, Only
    <3> QED
      BY <2>1, <3>1, PacedAdds
  <2> QED
    BY <2>2, <2>3 DEF StepAdds
<1>23. ASSUME FetchAuthor(t) PROVE StepAdds(t)
  <2>1. o.pr \in PRs /\ o.op = "author"
    BY <1>0, <1>23, AnswerTyped DEF FetchAuthor, GitHubOps, Answered, At
  <2>2. PICK tracked \in BOOLEAN : Then(t, <<>>) \/ Then(t, Posts(o.pr, tracked))
    BY <1>23 DEF FetchAuthor
  <2>3. PICK ops : ops = Posts(o.pr, tracked)
    OBVIOUS
  <2>4. /\ ops \in Seq(OpSet) /\ DOMAIN ops = 1..2
        /\ \A i \in DOMAIN ops : ops[i].op \in {"post", "unguard"}
    BY <2>1, <2>3, AutopostsAre
  <2>5. Adds(o, ops)
    BY <2>1, <2>4 DEF Adds, Stages, OnLabel, GitHubOps
  <2> QED
    BY <1>3, <2>1, <2>2, <2>3, <2>4, <2>5 DEF StepAdds
<1> HIDE DEF o
<1> QED
  BY <1>5, <1>6, <1>7, <1>8, <1>9, <1>10, <1>11, <1>12, <1>13, <1>14, <1>15, <1>16, <1>17, <1>18,
     <1>19, <1>20, <1>21, <1>22, <1>23 DEF Step
-----------------------------------------------------------------------------
(* The shape of the tasks. *)

LEMMA StepShape ==
    ASSUME TasksOK, ShapeInv, NEW t \in Tasks, task[t] # <<>>, StepAdds(t)
    PROVE  ShapeInv'
<1> DEFINE Shaped(u, i) ==
             /\ task[u][i].op \in Stages => u = "startup" /\ i = Len(task[u])
             /\ u = "startup" /\ i = Len(task[u]) => task[u][i].op \in Stages
             /\ u \in Handlers /\ task[u][i].op \in {"dm", "notify", "rethread", "recheck"} => i = Len(task[u])
             /\ task[u][i].op = "notify" => \A x, y \in task[u][i].transitions : x = y
             /\ u \in Handlers /\ task[u][i].op \in GitHubOps => i = 1 /\ task[u][i].op # "poll"
<1>1. \A u \in Tasks : \A i \in DOMAIN task[u] : Shaped(u, i)
  BY DEF ShapeInv
<1>2. Handlers \subseteq Tasks /\ "startup" \notin Handlers
  BY PrBotAssumption DEF Tasks
<1>3. CASE GivesUp(t)
  <2>1. task'[t] = <<>> /\ \A u \in Tasks : u # t => task'[u] = task[u]
    BY <1>3 DEF GivesUp, TasksOK
  <2>2. DOMAIN task'[t] = {}
    BY <2>1, NoOps
  <2>3. \A u \in Tasks : \A i \in DOMAIN task'[u] : u # t
    BY <2>2
  <2> QED
    BY <1>1, <2>1, <2>3 DEF ShapeInv
<1>4. ASSUME NEW ops \in Seq(OpSet), Then(t, ops), Adds(Op(t), ops)
      PROVE  ShapeInv'
  <2>1. /\ Len(ops) \in Nat /\ Len(task[t]) \in Nat \ {0} /\ DOMAIN ops = 1..Len(ops)
        /\ DOMAIN task[t] = 1..Len(task[t])
        /\ Len(task'[t]) = Len(ops) + Len(task[t]) - 1
        /\ DOMAIN task'[t] = 1..(Len(ops) + Len(task[t]) - 1)
        /\ \A i \in DOMAIN task'[t] :
             task'[t][i] = IF i <= Len(ops) THEN ops[i] ELSE task[t][i - Len(ops) + 1]
        /\ \A u \in Tasks : u # t => task'[u] = task[u]
    BY <1>4, TaskAfter
  <2>2. Op(t) = task[t][1] /\ 1 \in DOMAIN task[t] /\ Shaped(t, 1)
    BY <1>1, TaskFields
  <2>3. ASSUME NEW i \in DOMAIN task'[t], i > Len(ops)
        PROVE  Shaped(t, i)'
    <3> DEFINE j == i - Len(ops) + 1
    <3>1. j \in DOMAIN task[t] /\ j >= 2 /\ (i = Len(task'[t]) <=> j = Len(task[t]))
      BY <2>1, <2>3
    <3>2. task'[t][i] = task[t][j] /\ Shaped(t, j) /\ j # 1
      BY <1>1, <2>1, <2>3, <3>1
    <3> HIDE DEF j
    <3> QED
      BY <3>1, <3>2
  <2>4. ASSUME NEW i \in DOMAIN task'[t], ~(i > Len(ops))
        PROVE  Shaped(t, i)'
    <3>1. i \in DOMAIN ops /\ task'[t][i] = ops[i]
      BY <2>1, <2>4
    <3>2. /\ ops[i].op \in Stages => Op(t).op \in Stages /\ i = Len(ops)
          /\ ops[i].op # "notify"
          /\ ops[i].op = "dm" => Op(t).op = "poll" \/ (Op(t).op \in {"notify", "recheck"} /\ i = Len(ops))
          /\ ops[i].op \in GitHubOps =>
               \/ Op(t).op = "polls"
               \/ /\ i = 1 /\ Len(ops) = 1
                  /\ ops[i].op = Op(t).op \/ (Op(t).op = "state" /\ ops[i].op = "fetch")
      BY <1>4, <3>1 DEF Adds
    <3>3. Op(t).op \in Stages => t = "startup" /\ Len(task[t]) = 1
      BY <2>2
    <3>4. t \in Handlers /\ Op(t).op \in {"notify", "rethread", "recheck"} => Len(task[t]) = 1
      BY <2>2
    <3>5. t \in Handlers => Op(t).op # "poll" /\ Op(t).op \notin Stages
      BY <1>2, <2>2 DEF GitHubOps
    <3>6. Len(task[t]) = 1 => Len(task'[t]) = Len(ops)
      BY <2>1
    <3>7. ASSUME t = "startup", i = Len(task'[t])
          PROVE  ops[i].op \in Stages
      <4>1. Len(task[t]) = 1 /\ i = Len(ops)
        <5>1. Len(ops) \in Nat /\ Len(task[t]) \in Nat \ {0} /\ i \in 1..Len(ops)
          BY <2>1, <3>1
        <5>2. i = Len(ops) + Len(task[t]) - 1
          BY <2>1, <3>7
        <5>3. \A a \in Nat, b \in Nat \ {0} : \A k \in 1..a : k = a + b - 1 => b = 1 /\ k = a
          OBVIOUS
        <5> QED
          BY <5>1, <5>2, <5>3
      <4>2. Op(t).op \in Stages
        BY <2>2, <3>7, <4>1
      <4>3. CASE Op(t).op \in {"history", "polls", "sweep"}
        BY <1>4, <4>1, <4>3 DEF Adds
      <4>4. CASE Op(t).op = "complete"
        <5>1. ops = <<>>
          BY <1>4, <4>4 DEF Adds
        <5> QED
          BY <3>1, <5>1
      <4> QED
        BY <4>2, <4>3, <4>4 DEF Stages
    <3>8. task'[t][i].op \in Stages => t = "startup" /\ i = Len(task'[t])
      BY <3>1, <3>2, <3>3, <3>6
    <3>9. t \in Handlers /\ task'[t][i].op \in {"dm", "notify", "rethread", "recheck"} => i = Len(task'[t])
      <4>1. CASE ops[i].op = "dm"
        BY <3>1, <3>2, <3>4, <3>5, <3>6, <4>1
      <4>2. CASE ops[i].op \in {"rethread", "recheck"}
        <5>1. t \in Handlers => i = 1 /\ ops[i].op = Op(t).op
          BY <3>2, <3>5, <4>2 DEF GitHubOps, Stages
        <5>2. t \in Handlers => Len(task[t]) = 1
          BY <3>4, <4>2, <5>1
        <5>3. ASSUME t \in Handlers PROVE i = Len(task'[t])
          <6>1. Len(ops) = 1
            BY <3>2, <3>5, <4>2, <5>3 DEF GitHubOps, Stages
          <6> QED
            BY <3>6, <5>1, <5>2, <5>3, <6>1
        <5> QED
          BY <5>3
      <4> QED
        BY <3>1, <3>2, <4>1, <4>2
    <3>10. t \in Handlers /\ task'[t][i].op \in GitHubOps => i = 1 /\ task'[t][i].op # "poll"
      BY <3>1, <3>2, <3>5 DEF Stages
    <3> QED
      BY <3>1, <3>2, <3>7, <3>8, <3>9, <3>10
  <2>5. \A i \in DOMAIN task'[t] : Shaped(t, i)'
    BY <2>3, <2>4
  <2>6. \A u \in Tasks : u # t => \A i \in DOMAIN task'[u] : Shaped(u, i)'
    BY <1>1, <2>1
  <2> QED
    BY <2>5, <2>6 DEF ShapeInv
<1> QED
  BY <1>3, <1>4 DEF StepAdds
-----------------------------------------------------------------------------
(* What a handler starts with: it asks GitHub once, at the start, and ends *)
(* with a notification only of what the webhook tells, or with a question  *)
(* about checks only if the webhook is about them.                         *)

Worth(e, p) ==
    /\ e.pr = p
    /\ \/ e.kind = "close"
       \/ e.kind = "review" /\ e.review \notin {"self_comment", "dismissed"}
SameFailing == \A p \in PRs : RowOr(p)'.failing = RowOr(p).failing

Begins(ops) ==
    \A i \in DOMAIN ops :
        /\ ops[i].op \in Plain \cup OnLabel \cup {"author", "threads", "rethread", "recheck", "notify"}
        /\ ops[i].op \in GitHubOps => i = 1 /\ ops[i].answer = None
        /\ ops[i].op \in {"notify", "rethread", "recheck"} => i = Len(ops)
        /\ ops[i].op = "notify" => \A x, y \in ops[i].transitions : x = y
OpensThreads(e) == e.kind = "review" /\ e.review \notin {"approved", "dismissed"}
Causes(e, ops) ==
    \A i \in DOMAIN ops :
        /\ ops[i].op = "notify" => ops[i].transitions = {} \/ Worth(e, ops[i].pr)
        /\ ops[i].op = "recheck" => e.kind = "check" /\ e.pr = ops[i].pr
        /\ ops[i].op = "rethread" => e.kind = "thread" /\ e.pr = ops[i].pr
        /\ ops[i].op = "threads" =>
             OpensThreads(e) /\ e.pr = ops[i].pr /\ ops[i].known = RowOr(e.pr).resolved
        /\ ops[i].op = "labels" => e.kind = "label" /\ e.pr = ops[i].pr /\ e.ready = ops[i].ready
Heeds(e, ops) ==
    /\ e.kind = "check" /\ MessagesFor(e.pr) # {} => 1 \in DOMAIN ops /\ ops[1].op = "recheck"
    /\ e.kind = "thread" /\ MessagesFor(e.pr) # {} => 1 \in DOMAIN ops /\ ops[1].op = "rethread"
    /\ OpensThreads(e) => 1 \in DOMAIN ops /\ ops[1].op = "threads"
    /\ e.kind = "label" => \E i \in DOMAIN ops : ops[i].op = "labels"
(* The row r of p after the event, as far as the handler writes at once.   *)
After(e, p, r) ==
    [review |-> IF e.kind = "review" /\ e.pr = p THEN Reviewed(r.review, e.review) ELSE r.review,
     life |-> IF e.kind = "close" /\ e.pr = p THEN e.life ELSE r.life,
     ready |-> r.ready, failing |-> r.failing, resolved |-> r.resolved]
Writes(e) ==
    \A p \in PRs : RowOr(p)' = After(e, p, RowOr(p)) /\ (row[p] # None => row'[p] # None)
Begun(t) ==
    \E ops \in Seq(OpSet) :
        /\ Starts(t, ops) /\ Begins(ops) /\ UNCHANGED github
        /\ \/ \E i \in DOMAIN webhooks : \E kind :
                /\ Delivers(t, i, kind) /\ Writes(webhooks[i])
                /\ Causes(webhooks[i], ops) /\ Heeds(webhooks[i], ops)
           \/ Only(ops, Plain) /\ Trusting(Alone, {}) /\ UNCHANGED <<webhooks, row>>

LEMMA PlainBegins ==
    ASSUME NEW ops \in Seq(OpSet), Only(ops, Plain \cup OnLabel)
    PROVE  Begins(ops) /\ (Only(ops, Plain) => \A e : Causes(e, ops))
  BY DEF Only, Plain, OnLabel, Begins, Causes, GitHubOps

LEMMA OneBegins ==
    ASSUME NEW x \in OpSet, x.op \in Plain \cup {"threads", "rethread", "recheck", "notify"},
           x.op \in GitHubOps => x.answer = None,
           x.op = "notify" => \A a, b \in x.transitions : a = b
    PROVE  <<x>> \in Seq(OpSet) /\ Begins(<<x>>)
  BY OneOp DEF Begins

(* The handler of an event writes at most the row of its PR.               *)
LEMMA WritesOne ==
    ASSUME TablesOK, NEW e, NEW p \in PRs, p = e.pr, NEW r, r # None, r = After(e, p, RowOr(p)),
           row' = [row EXCEPT ![p] = r]
    PROVE  Writes(e)
<1>1. ASSUME NEW q \in PRs PROVE RowOr(q)' = After(e, q, RowOr(q)) /\ (row[q] # None => row'[q] # None)
  <2>1. CASE q = p
    BY <2>1 DEF RowOr, TablesOK
  <2>2. CASE q # p
    <3>1. RowOr(q)' = RowOr(q) /\ row'[q] = row[q] /\ RowOr(q) \in Row
      BY <2>2, RowOrTyped DEF RowOr, TablesOK
    <3>2. \A x \in Row : After(e, q, x) = x
      BY <2>2 DEF After, Row
    <3> QED
      BY <3>1, <3>2
  <2> QED
    BY <2>1, <2>2
<1> QED
  BY <1>1 DEF Writes

LEMMA WritesNothing ==
    ASSUME TablesOK, NEW e, e.kind \notin {"review", "close"}, UNCHANGED row
    PROVE  Writes(e)
<1>1. \A q \in PRs : RowOr(q)' = RowOr(q) /\ RowOr(q) \in Row
  BY RowOrTyped DEF RowOr
<1>2. \A q, x : x \in Row => After(e, q, x) = x
  BY DEF After, Row
<1> QED
  BY <1>1, <1>2 DEF Writes

LEMMA WritesFailing ==
    ASSUME NEW e, Writes(e)
    PROVE  SameFailing
  BY DEF Writes, After, SameFailing

LEMMA RowIsSome ==
    ASSUME NEW r \in Row
    PROVE  r # None
  BY PrBotAssumption

LEMMA ReceiveBegins ==
    ASSUME Typed, NEW t, Receive(t)
    PROVE  Begun(t)
<1>0. QueuesOK /\ HistoryOK /\ TablesOK /\ (\A p \in PRs : RowOr(p) \in Row)
  BY RowOrTyped DEF Typed
<1>1. ASSUME NEW i \in DOMAIN webhooks, HandleReview(t, i) PROVE Begun(t)
  <2> DEFINE p == webhooks[i].pr
             review == webhooks[i].review
             status == Reviewed(RowOr(p).review, review)
             ts == IF status \notin {RowOr(p).review, "none"} THEN {status} ELSE {}
             wait == IF review \in {"approved", "dismissed"} THEN <<>>
                     ELSE <<Await("threads", p, RowOr(p).resolved)>>
             x == Await("threads", p, RowOr(p).resolved)
             n == Notify(p, ts)
             r == [RowOr(p) EXCEPT !.review = status]
  <2>1. Delivers(t, i, "review") /\ webhooks[i].kind = "review" /\ UNCHANGED github
    BY <1>0, <1>1, DeliversTyped DEF HandleReview
  <2>2. p \in PRs /\ review \in Reviews
    BY <1>0, <2>1, DeliversTyped, EventFields
  <2>3. RowOr(p).review \in Statuses /\ RowOr(p).resolved \in BOOLEAN
    BY <1>0, <2>2 DEF Row
  <2>4. status \in Statuses
    BY <2>2, <2>3, ReviewedTyped
  <2>5. r \in Row /\ r = After(webhooks[i], p, RowOr(p))
    <3>1. RowOr(p) \in Row
      BY <1>0, <2>2
    <3> QED
      BY <2>1, <2>4, <3>1 DEF Row, After
  <2>6. ts \in SUBSET Transitions /\ (\A a, b \in ts : a = b)
    BY <2>4 DEF Transitions, ReviewTransitions
  <2>7. ts # {} => Worth(webhooks[i], p)
    <3>1. review \in {"self_comment", "dismissed"} => status \in {RowOr(p).review, "none"}
      BY DEF Reviewed
    <3> HIDE DEF status
    <3> QED
      BY <2>1, <3>1 DEF Worth
  <2>8. Starts(t, wait \o <<n>>) /\ row' = [row EXCEPT ![p] = r]
    BY <1>1 DEF HandleReview
  <2>9. Writes(webhooks[i])
    <3>1. PICK q : q = p
      OBVIOUS
    <3>2. PICK new : new = r
      OBVIOUS
    <3>3. new # None
      BY <2>5, <3>2, RowIsSome
    <3>4. new = After(webhooks[i], q, RowOr(q)) /\ q \in PRs /\ q = webhooks[i].pr /\ row' = [row EXCEPT ![q] = new]
      BY <2>2, <2>5, <2>8, <3>1, <3>2
    <3> QED
      BY <1>0, <3>3, <3>4, WritesOne
  <2>10. x \in OpSet /\ x.op = "threads" /\ x.answer = None /\ x.pr = p /\ x.known = RowOr(p).resolved
    BY <2>2, <2>3, AwaitGiven DEF Given, Await
  <2>11. n \in OpSet /\ n.op = "notify" /\ n.pr = p /\ n.transitions = ts
    <3> HIDE DEF ts, p
    <3>1. n \in Notices /\ n.op = "notify" /\ n.pr = p /\ n.transitions = ts
      BY <2>2, <2>6 DEF Notices, Notify
    <3> HIDE DEF n
    <3> QED
      BY <3>1 DEF OpSet
  <2>12. wait = IF review \in {"approved", "dismissed"} THEN <<>> ELSE <<x>>
    OBVIOUS
  <2> HIDE DEF x, n, ts, status, r
  <2>13. /\ wait \in Seq(OpSet) /\ Len(wait) \in {0, 1} /\ DOMAIN wait = 1..Len(wait)
         /\ \A j \in DOMAIN wait : j = 1 /\ wait[j] = x /\ review \notin {"approved", "dismissed"}
         /\ review \notin {"approved", "dismissed"} => Len(wait) = 1
    <3>1. CASE wait = <<>> /\ review \in {"approved", "dismissed"}
      BY <3>1, NoOps
    <3>2. CASE wait = <<x>> /\ review \notin {"approved", "dismissed"}
      <4>1. <<x>> \in Seq(OpSet) /\ Len(<<x>>) = 1 /\ DOMAIN <<x>> = {1} /\ <<x>>[1] = x
        BY <2>10, OneOp
      <4>2. 1..1 = {1}
        OBVIOUS
      <4> QED
        BY <3>2, <4>1, <4>2
    <3> QED
      BY <2>12, <3>1, <3>2
  <2> HIDE DEF wait, p, review
  <2> DEFINE ops == wait \o <<n>>
  <2>14. /\ ops \in Seq(OpSet) /\ Len(ops) = Len(wait) + 1 /\ DOMAIN ops = 1..(Len(wait) + 1)
         /\ \A j \in 1..(Len(wait) + 1) : ops[j] = IF j <= Len(wait) THEN wait[j] ELSE <<n>>[j - Len(wait)]
    <3>1. <<n>> \in Seq(OpSet) /\ Len(<<n>>) = 1
      BY <2>11, OneOp
    <3> QED
      BY <2>13, <3>1, BothAre
  <2> HIDE DEF ops
  <2>15. ASSUME NEW j \in DOMAIN ops
         PROVE  \/ j = 1 /\ ops[j] = x /\ review \notin {"approved", "dismissed"}
                \/ j = Len(ops) /\ ops[j] = n
    <3>0. j \in 1..(Len(wait) + 1) /\ Len(wait) \in {0, 1} /\ DOMAIN wait = 1..Len(wait)
      BY <2>13, <2>14
    <3>1. CASE j <= Len(wait)
      <4>1. j \in DOMAIN wait
        BY <3>0, <3>1
      <4> QED
        BY <2>13, <2>14, <3>0, <3>1, <4>1
    <3>2. CASE ~(j <= Len(wait))
      <4>1. j = Len(wait) + 1 /\ j - Len(wait) = 1
        BY <3>0, <3>2
      <4>2. ops[j] = <<n>>[1]
        BY <2>14, <3>0, <3>2, <4>1
      <4> QED
        BY <2>14, <4>1, <4>2
    <3> QED
      BY <3>1, <3>2
  <2>16. webhooks[i].pr = p /\ (OpensThreads(webhooks[i]) <=> review \notin {"approved", "dismissed"})
    BY <2>1 DEF OpensThreads, p, review
  <2>17. Begins(ops) /\ Causes(webhooks[i], ops)
    BY <2>6, <2>7, <2>10, <2>11, <2>15, <2>16 DEF Begins, Causes, GitHubOps
  <2>18. Heeds(webhooks[i], ops)
    <3>1. ASSUME review \notin {"approved", "dismissed"} PROVE 1 \in DOMAIN ops /\ ops[1] = x
      <4>1. Len(wait) = 1 /\ 1 \in DOMAIN wait
        BY <2>13, <3>1
      <4>2. 1 \in 1..(Len(wait) + 1)
        BY <4>1
      <4> QED
        BY <2>13, <2>14, <4>1, <4>2
    <3> QED
      BY <2>1, <2>10, <2>16, <3>1 DEF Heeds
  <2> QED
    BY <2>1, <2>8, <2>9, <2>14, <2>17, <2>18 DEF Begun, ops
<1>2. ASSUME NEW i \in DOMAIN webhooks, HandleClose(t, i) PROVE Begun(t)
  <2> DEFINE p == webhooks[i].pr
             life == webhooks[i].life
             changed == IF life = "merged" THEN RowOr(p).life # "merged" ELSE RowOr(p).life = "open"
             ts == IF changed THEN {life} ELSE {}
             n == Notify(p, ts)
             r == [RowOr(p) EXCEPT !.life = life]
  <2>1. Delivers(t, i, "close") /\ webhooks[i].kind = "close" /\ UNCHANGED github
    BY <1>0, <1>2, DeliversTyped DEF HandleClose
  <2>2. p \in PRs /\ life \in Terminal
    BY <1>0, <2>1, DeliversTyped, EventFields
  <2>3. r \in Row /\ r = After(webhooks[i], p, RowOr(p))
    <3>1. RowOr(p) \in Row
      BY <1>0, <2>2
    <3> QED
      BY <2>1, <2>2, <3>1 DEF Row, Terminal, Lives, After
  <2>4. ts \in SUBSET Transitions /\ (\A a, b \in ts : a = b)
    BY <2>2 DEF Transitions
  <2>5. Worth(webhooks[i], p)
    BY <2>1 DEF Worth
  <2>6. Starts(t, <<n>>) /\ row' = [row EXCEPT ![p] = r]
    BY <1>2 DEF HandleClose
  <2>7. Writes(webhooks[i])
    <3>1. PICK q : q = p
      OBVIOUS
    <3>2. PICK new : new = r
      OBVIOUS
    <3>3. new # None
      BY <2>3, <3>2, RowIsSome
    <3>4. new = After(webhooks[i], q, RowOr(q)) /\ q \in PRs /\ q = webhooks[i].pr /\ row' = [row EXCEPT ![q] = new]
      BY <2>2, <2>3, <2>6, <3>1, <3>2
    <3> QED
      BY <1>0, <3>3, <3>4, WritesOne
  <2> HIDE DEF ts, life, p, r
  <2>8. n \in OpSet /\ n.op = "notify" /\ n.pr = p /\ n.transitions = ts
    <3>1. n \in Notices /\ n.op = "notify" /\ n.pr = p /\ n.transitions = ts
      BY <2>2, <2>4 DEF Notices, Notify
    <3> HIDE DEF n
    <3> QED
      BY <3>1 DEF OpSet
  <2> HIDE DEF n
  <2>9. <<n>> \in Seq(OpSet) /\ Begins(<<n>>)
    BY <2>4, <2>8, OneBegins DEF GitHubOps
  <2>10. Causes(webhooks[i], <<n>>)
    BY <2>5, <2>8, OneOp DEF Causes
  <2>11. Heeds(webhooks[i], <<n>>)
    BY <2>1 DEF Heeds, OpensThreads
  <2> QED
    BY <2>1, <2>6, <2>7, <2>9, <2>10, <2>11 DEF Begun
<1>3. ASSUME NEW i \in DOMAIN webhooks, HandleThread(t, i) PROVE Begun(t)
  <2> DEFINE p == webhooks[i].pr
             x == Await("rethread", p, NotDone(MessagesFor(p)))
  <2>1. Delivers(t, i, "thread") /\ webhooks[i].kind = "thread" /\ UNCHANGED <<github, row>>
    BY <1>0, <1>3, DeliversTyped DEF HandleThread
  <2>2. p \in PRs
    BY <1>0, <2>1, DeliversTyped, EventFields
  <2>3. x \in OpSet /\ x.op = "rethread" /\ x.answer = None /\ x.pr = p
    BY <2>2, AwaitGiven, MessagesOfPR DEF Given, Await
  <2>4. (Starts(t, <<>>) /\ MessagesFor(p) = {}) \/ Starts(t, <<x>>)
    BY <1>3 DEF HandleThread
  <2> HIDE DEF x
  <2>5. <<x>> \in Seq(OpSet) /\ Begins(<<x>>)
    BY <2>3, OneBegins DEF GitHubOps
  <2>6. Causes(webhooks[i], <<x>>) /\ Heeds(webhooks[i], <<x>>)
    BY <2>1, <2>3, OneOp DEF Causes, Heeds, OpensThreads
  <2>7. <<>> \in Seq(OpSet) /\ Begins(<<>>) /\ Causes(webhooks[i], <<>>)
    BY NoOps, PlainBegins
  <2>8. MessagesFor(p) = {} => Heeds(webhooks[i], <<>>)
    BY <2>1 DEF Heeds, OpensThreads
  <2>9. Writes(webhooks[i])
    BY <1>0, <2>1, WritesNothing
  <2> QED
    BY <2>1, <2>4, <2>5, <2>6, <2>7, <2>8, <2>9 DEF Begun
<1>4. ASSUME NEW i \in DOMAIN webhooks, HandleCheck(t, i) PROVE Begun(t)
  <2> DEFINE p == webhooks[i].pr
             failing == webhooks[i].failing
             x == Await("recheck", p, [messages |-> NotDone(MessagesFor(p)), failing |-> failing])
  <2>1. Delivers(t, i, "check") /\ webhooks[i].kind = "check" /\ UNCHANGED <<github, row>>
    BY <1>0, <1>4, DeliversTyped DEF HandleCheck
  <2>2. p \in PRs /\ failing \in BOOLEAN
    BY <1>0, <2>1, DeliversTyped, EventFields
  <2>3. x \in OpSet /\ x.op = "recheck" /\ x.answer = None /\ x.pr = p
    BY <2>2, AwaitGiven, MessagesOfPR DEF Given, Await
  <2>4. (Starts(t, <<>>) /\ MessagesFor(p) = {}) \/ Starts(t, <<x>>)
    BY <1>4 DEF HandleCheck
  <2> HIDE DEF x
  <2>5. <<x>> \in Seq(OpSet) /\ Begins(<<x>>)
    BY <2>3, OneBegins DEF GitHubOps
  <2>6. Causes(webhooks[i], <<x>>) /\ Heeds(webhooks[i], <<x>>)
    BY <2>1, <2>3, OneOp DEF Causes, Heeds, OpensThreads
  <2>7. <<>> \in Seq(OpSet) /\ Begins(<<>>) /\ Causes(webhooks[i], <<>>)
    BY NoOps, PlainBegins
  <2>8. MessagesFor(p) = {} => Heeds(webhooks[i], <<>>)
    BY <2>1 DEF Heeds, OpensThreads
  <2>9. Writes(webhooks[i])
    BY <1>0, <2>1, WritesNothing
  <2> QED
    BY <2>1, <2>4, <2>5, <2>6, <2>7, <2>8, <2>9 DEF Begun
<1>5. ASSUME NEW i \in DOMAIN webhooks, HandleLabel(t, i) PROVE Begun(t)
  <2> DEFINE p == webhooks[i].pr
             ready == webhooks[i].ready
             labels == [op |-> "labels", pr |-> p, ready |-> ready]
             post == [op |-> "post", pr |-> p, tracked |-> FALSE]
             free == [op |-> "unguard", pr |-> p]
             ask == Await("author", p, None)
             kinds == {post, free, ask, labels}
  <2>1. Delivers(t, i, "label") /\ webhooks[i].kind = "label" /\ UNCHANGED <<github, row>>
    BY <1>0, <1>5, DeliversTyped DEF HandleLabel
  <2>2. p \in PRs /\ ready \in BOOLEAN
    BY <1>0, <2>1, DeliversTyped, EventFields
  <2>3. /\ labels \in OpSet /\ post \in OpSet /\ free \in OpSet /\ ask \in OpSet
        /\ labels.op = "labels" /\ post.op = "post" /\ free.op = "unguard"
        /\ ask.op = "author" /\ ask.answer = None
        /\ labels.pr = webhooks[i].pr /\ labels.ready = webhooks[i].ready
    <3>1. labels \in LabelOps /\ post \in PostOps /\ free \in PrOps /\ ask \in Fetches
      BY <2>2 DEF LabelOps, PostOps, PrOps, Fetches, Await, Answers
    <3>2. ask.op = "author" /\ ask.answer = None
      BY DEF Await
    <3> HIDE DEF ask
    <3> QED
      BY <3>1, <3>2 DEF OpSet
  <2>4. Starts(t, <<labels>>) \/ Starts(t, <<post, free>> \o <<labels>>) \/ Starts(t, <<ask>> \o <<labels>>)
    BY <1>5 DEF HandleLabel, Posts
  <2> HIDE DEF labels, post, free, ask
  <2>5. <<labels>> \in Seq(OpSet) /\ DOMAIN <<labels>> = {1} /\ <<labels>>[1] = labels
    BY <2>3, OneOp
  <2>6. /\ <<post, free, labels>> \in Seq(OpSet) /\ DOMAIN <<post, free, labels>> = 1..3 /\ 3 \in 1..3
        /\ <<post, free, labels>>[3] = labels
        /\ \A j \in 1..3 : <<post, free, labels>>[j] \in {post, free, labels}
    BY <2>3
  <2>7. /\ <<ask, labels>> \in Seq(OpSet) /\ DOMAIN <<ask, labels>> = 1..2 /\ 2 \in 1..2
        /\ <<ask, labels>>[2] = labels /\ <<ask, labels>>[1] = ask
        /\ \A j \in 1..2 : j = 1 \/ <<ask, labels>>[j] = labels
    BY <2>3
  <2>8. ASSUME NEW ops \in {<<labels>>, <<post, free, labels>>, <<ask, labels>>}
        PROVE  /\ ops \in Seq(OpSet) /\ \A j \in DOMAIN ops : ops[j] \in kinds /\ (ops[j] = ask => j = 1)
               /\ \E j \in DOMAIN ops : ops[j] = labels
    <3>1. ask \notin {post, free, labels}
      BY <2>3
    <3> QED
      BY <2>5, <2>6, <2>7, <3>1
  <2>9. ASSUME NEW ops \in {<<labels>>, <<post, free, labels>>, <<ask, labels>>}
        PROVE  Begins(ops) /\ Causes(webhooks[i], ops) /\ Heeds(webhooks[i], ops)
    <3>1. ops \in Seq(OpSet) /\ (\A j \in DOMAIN ops : ops[j] \in kinds /\ (ops[j] = ask => j = 1))
      BY <2>8
    <3>2. Begins(ops)
      BY <2>3, <3>1 DEF Begins, OnLabel, GitHubOps
    <3>3. Causes(webhooks[i], ops)
      BY <2>1, <2>3, <3>1 DEF Causes
    <3>4. Heeds(webhooks[i], ops)
      BY <2>1, <2>3, <2>8 DEF Heeds, OpensThreads
    <3> QED
      BY <3>2, <3>3, <3>4
  <2>10. \E ops \in {<<labels>>, <<post, free, labels>>, <<ask, labels>>} : Starts(t, ops)
    BY <2>4, TwoOps, ThreeOps
  <2>11. Writes(webhooks[i])
    BY <1>0, <2>1, WritesNothing
  <2> QED
    BY <2>1, <2>8, <2>9, <2>10, <2>11 DEF Begun
<1>6. ASSUME NEW ops \in Seq(OpSet), Only(ops, Plain), Starts(t, ops), Trusting(Alone, {}),
             UNCHANGED <<webhooks, row, github>>
      PROVE  Begun(t)
  BY <1>6, PlainBegins DEF Begun, Only
<1>7. ASSUME OnMessage(t) PROVE Begun(t)
  <2> DEFINE e == Head(gateway)
  <2>1. e \in GatewayEvents /\ e.kind = "post" /\ gateway # <<>>
    BY <1>0, <1>7, HeadTailProperties DEF QueuesOK, OnMessage, TakesEvent
  <2>2. e.message \in Messages /\ e.links \in SUBSET PRs
    BY <2>1 DEF GatewayEvents, PostEvents
  <2>3. Reconcile(e.message) \in OpSet /\ Reconcile(e.message).op = "reconcile"
    BY <2>2, GivenOps DEF Reconcile, Given
  <2>4. <<Reconcile(e.message)>> \in Seq(OpSet) /\ Only(<<Reconcile(e.message)>>, Plain)
    BY <2>3, OneOp DEF Plain
  <2>5. States(e.links) \in Seq(OpSet) /\ Only(States(e.links), Plain)
    BY <2>2, StatesAre DEF Plain, Only
  <2>6. IngestOps(e.message, e.links) \in Seq(OpSet) /\ Only(IngestOps(e.message, e.links), Plain)
    BY <2>4, <2>5, BothAre, OnlyBoth DEF IngestOps
  <2>7. Starts(t, IngestOps(e.message, e.links)) /\ UNCHANGED <<row, webhooks, github>> /\ Trusting(Alone, {})
    BY <1>7 DEF OnMessage, TakesEvent, env
  <2> QED
    BY <1>6, <2>6, <2>7
<1>8. ASSUME NEW m \in Messages
      PROVE  /\ <<[op |-> "reread", message |-> m]>> \in Seq(OpSet)
             /\ Only(<<[op |-> "reread", message |-> m]>>, Plain)
  <2>1. [op |-> "reread", message |-> m] \in OpSet /\ [op |-> "reread", message |-> m].op \in Plain
    BY GivenOps DEF Given, Plain
  <2> QED
    BY <2>1, OneOp
<1>9. ASSUME OnEdit(t) PROVE Begun(t)
  <2> DEFINE e == Head(gateway)
  <2>1. e \in GatewayEvents /\ gateway # <<>>
    BY <1>0, <1>9, HeadTailProperties DEF QueuesOK, OnEdit, TakesEvent
  <2>2. e.message \in Messages
    BY <2>1 DEF GatewayEvents, PostEvents
  <2>3. Starts(t, <<[op |-> "reread", message |-> e.message]>>) /\ UNCHANGED <<row, webhooks, github>>
        /\ Trusting(Alone, {})
    BY <1>9 DEF OnEdit, Rereads, TakesEvent, env, tables
  <2> QED
    BY <1>6, <1>8, <2>2, <2>3
<1>10. ASSUME NEW m \in Messages, Resync(t, m) PROVE Begun(t)
  <2>1. Starts(t, <<[op |-> "reread", message |-> m]>>) /\ UNCHANGED <<row, webhooks, github>>
        /\ Trusting(Alone, {})
    BY <1>10 DEF Resync, Rereads, env, tables, queues
  <2> QED
    BY <1>6, <1>8, <2>1
<1> QED
  BY <1>1, <1>2, <1>3, <1>4, <1>5, <1>7, <1>9, <1>10 DEF Receive
-----------------------------------------------------------------------------
(* The trust: whole, healing or broken. *)

(* Trust as every step but the end of the startup pass and a restart       *)
(* leaves it: as it was, or broken.                                        *)
Moves ==
    /\ trust' \in {trust, "broken"}
    /\ trust' = "broken" => filled' = {}
    /\ trust' # "whole" => \A p \in PRs : owed'[p] = 0
Owes == trust' = "whole" => trust = "whole" /\ \A p \in PRs : owed'[p] = owed[p]

LEMMA TrustingMoves ==
    ASSUME NEW condition, NEW ps, Trusting(condition, ps)
    PROVE  Moves /\ Owes /\ (trust' # "broken" => condition)
  BY DEF Trusting, Fill, Owe, Moves, Owes

LEMMA StillMoves ==
    ASSUME TrustInv, UNCHANGED <<trust, filled, owed>>
    PROVE  Moves /\ Owes
  BY DEF TrustInv, Moves, Owes

LEMMA StepMoves ==
    ASSUME TrustInv, NEW t, Step(t)
    PROVE  /\ (Moves /\ Owes) \/ StartupComplete(t) \/ DmUser(t)
           /\ DmUser(t) => Moves
           /\ DiscordFails(t) \/ AutopostUnanswered(t) => trust' = "broken"
           /\ \A lost : Answer(t, lost) /\ trust' # "broken" => lost = {}
<1>1. \A lost : Answer(t, lost) => Moves /\ Owes /\ (trust' # "broken" => lost = {})
  BY TrustingMoves DEF Answer
<1>2. IngestMessage(t) \/ FetchAndStore(t) \/ ListActivePRs(t) \/ PollPR(t) \/ DiscordFails(t) => Moves /\ Owes
  BY TrustingMoves DEF IngestMessage, FetchAndStore, ListActivePRs, PollPR, DiscordFails
<1>7. AutopostUnanswered(t) => Moves /\ Owes /\ trust' = "broken"
  BY TrustingMoves DEF AutopostUnanswered, Trusting
<1>3. (\E emoji \in Emoji, fails \in BOOLEAN : React(t, emoji, fails)) => Moves /\ Owes
  BY TrustingMoves DEF React
<1>4. LookUpState(t) \/ ReadRows(t) \/ FetchMessage(t) \/ UpdateDone(t) \/ Sleep(t) \/ ReadThreads(t)
      \/ NotifyMessages(t) \/ RecheckThreads(t) \/ RecheckChecks(t) \/ Unguard(t) \/ StoreLabels(t)
      \/ RereadMessage(t) \/ ScanHistory(t) \/ SweepMessages(t) \/ FetchAuthor(t) \/ Autopost(t)
      => UNCHANGED <<trust, filled, owed>>
  BY DEF LookUpState, ReadRows, FetchMessage, UpdateDone, Sleep, ReadThreads, NotifyMessages, RecheckThreads,
     RecheckChecks, Unguard, StoreLabels, RereadMessage, ScanHistory, SweepMessages, FetchAuthor, Autopost, history
<1>5. ASSUME DmUser(t) PROVE Moves
  <2>1. UNCHANGED <<trust, filled>> /\ Owe({Op(t).pr}, -1)
    BY <1>5 DEF DmUser
  <2>2. trust' # "whole" => \A p \in PRs : owed'[p] = 0
    BY <2>1 DEF Owe
  <2> QED
    BY <2>1, <2>2 DEF Moves, TrustInv
<1>6. DiscordFails(t) => trust' = "broken"
  BY DEF DiscordFails, Trusting
<1> QED
  BY <1>1, <1>2, <1>3, <1>4, <1>5, <1>6, <1>7, StillMoves DEF Step

(* What the head of a task lets its step be. *)
LEMMA StepOfHead ==
    ASSUME NEW t, Step(t)
    PROVE  /\ Op(t).op = "complete" <=> StartupComplete(t)
           /\ Op(t).op = "state" => LookUpState(t)
           /\ DmUser(t) => Op(t).op = "dm"
           /\ Op(t).op = "recheck" => RecheckChecks(t) \/ \E lost \in Lost(Op(t).op) : Answer(t, lost)
           /\ Op(t).op \in GitHubOps =>
                \/ \E lost \in Lost(Op(t).op) : Answer(t, lost)
                \/ FetchAndStore(t) \/ ReadThreads(t) \/ RecheckThreads(t) \/ RecheckChecks(t) \/ PollPR(t)
                \/ FetchAuthor(t)
<1>1. (\E lost \in Lost(Op(t).op) : Answer(t, lost)) => Op(t).op \in GitHubOps
  BY DEF Answer
<1>2. /\ FetchAndStore(t) => Op(t).op = "fetch"
      /\ ReadThreads(t) => Op(t).op = "threads"
      /\ RecheckThreads(t) => Op(t).op = "rethread"
      /\ RecheckChecks(t) => Op(t).op = "recheck"
      /\ PollPR(t) => Op(t).op = "poll"
      /\ FetchAuthor(t) => Op(t).op = "author"
      /\ StartupComplete(t) => Op(t).op = "complete"
      /\ LookUpState(t) => Op(t).op = "state"
      /\ DmUser(t) => Op(t).op = "dm"
  BY DEF FetchAndStore, ReadThreads, RecheckThreads, RecheckChecks, PollPR, FetchAuthor, StartupComplete,
     LookUpState, DmUser, Answered, At
<1>3. IngestMessage(t) \/ ReadRows(t) \/ FetchMessage(t) \/ UpdateDone(t) \/ Sleep(t) \/ DiscordFails(t)
      \/ NotifyMessages(t) \/ Autopost(t) \/ AutopostUnanswered(t) \/ Unguard(t) \/ StoreLabels(t) \/ RereadMessage(t)
      \/ ScanHistory(t) \/ ListActivePRs(t) \/ SweepMessages(t)
      => Op(t).op \notin GitHubOps \cup {"state", "complete"}
  BY DEF IngestMessage, ReadRows, FetchMessage, UpdateDone, Sleep, DiscordFails, NotifyMessages, Autopost,
     AutopostUnanswered, AutopostLands, Unguard, StoreLabels, RereadMessage, ScanHistory, ListActivePRs,
     SweepMessages, At, GitHubOps
<1>4. (\E emoji \in Emoji, fails \in BOOLEAN : React(t, emoji, fails)) => Op(t).op = "react"
  BY DEF React, At
<1>5. "react" \notin GitHubOps /\ "dm" \notin GitHubOps /\ "state" \notin GitHubOps /\ "complete" \notin GitHubOps
      /\ "recheck" \in GitHubOps
  BY DEF GitHubOps
<1> QED
  BY <1>1, <1>2, <1>3, <1>4, <1>5 DEF Step

LEMMA StepTrust ==
    ASSUME Typed, ShapeInv, TrustInv, NEW t \in Tasks, task[t] # <<>>, Step(t)
    PROVE  TrustInv'
<1>0. TasksOK /\ StepFrame(t) /\ StepAdds(t) /\ "startup" \in Tasks /\ Handlers \subseteq Tasks
      /\ "startup" \notin Handlers /\ Tasks = Handlers \cup {"startup"} /\ HistoryOK
  BY StepFrames, StepsAdd, PrBotAssumption DEF Typed, Tasks
<1>1. up /\ UNCHANGED <<up, webhooks>>
  BY <1>0 DEF StepFrame
<1>2. \A u \in Tasks : u # t => task'[u] = task[u]
  BY <1>0, StepTurns, TurnsTyped DEF Typed
<1>3. /\ Op(t) = task[t][1] /\ 1 \in DOMAIN task[t] /\ Len(task[t]) \in Nat /\ DOMAIN task[t] = 1..Len(task[t])
      /\ Op(t).op \in Stages => t = "startup" /\ Len(task[t]) = 1
      /\ t = "startup" /\ Len(task[t]) = 1 => Op(t).op \in Stages
  <2>1. Op(t) = task[t][1] /\ 1 \in DOMAIN task[t] /\ Len(task[t]) \in Nat /\ DOMAIN task[t] = 1..Len(task[t])
    BY <1>0, TaskFields
  <2> QED
    BY <2>1 DEF ShapeInv
<1>4. CASE StartupComplete(t)
  <2>1. Op(t).op = "complete" /\ Then(t, <<>>)
    BY <1>4 DEF StartupComplete, At
  <2>2. t = "startup" /\ Len(task[t]) = 1
    BY <1>3, <2>1 DEF Stages
  <2>3. task'[t] = <<>>
    <3>1. task'[t] \in Seq(OpSet) /\ Len(task'[t]) = Len(<<>>) + Len(task[t]) - 1
      BY <1>0, <2>1, NoOps, TaskAfter
    <3>2. Len(task'[t]) = 0
      BY <2>2, <3>1, NoOps
    <3> QED
      BY <3>1, <3>2, EmptySeq
  <2>4. trust # "whole"
    BY <2>2 DEF TrustInv
  <2>5. UNCHANGED <<filled, owed>> /\ trust' = IF trust = "healing" THEN "whole" ELSE trust
    BY <1>4 DEF StartupComplete
  <2>6. trust = "healing" => \A u \in Handlers : task'[u] = <<>>
    BY <1>0, <1>2, <2>2 DEF TrustInv
  <2>7. trust \in {"healing", "broken"}
    BY <1>0, <2>4 DEF HistoryOK
  <2> QED
    BY <1>1, <2>2, <2>3, <2>5, <2>6, <2>7 DEF TrustInv
<1>5. CASE ~StartupComplete(t)
  <2>1. Moves
    BY <1>5, StepMoves
  <2>2. CASE trust' = "broken"
    BY <1>1, <2>1, <2>2 DEF TrustInv, Moves
  <2>3. CASE trust' # "broken" /\ trust = "healing"
    <3>1. trust' = "healing" /\ t = "startup" /\ webhooks' = <<>>
      BY <1>0, <1>1, <2>1, <2>3 DEF Moves, TrustInv
    <3>2. ~GivesUp(t)
      BY <2>3, StepMoves DEF GivesUp
    <3>3. PICK ops \in Seq(OpSet) : Then(t, ops) /\ Adds(Op(t), ops)
      BY <1>0, <3>2 DEF StepAdds
    <3>4. /\ Len(ops) \in Nat /\ Len(task[t]) \in Nat \ {0}
          /\ Len(task'[t]) = Len(ops) + Len(task[t]) - 1
      BY <1>0, <3>3, TaskAfter
    <3>5. Len(task[t]) = 1 => Len(ops) # 0
      <4>1. Op(t).op # "complete"
        BY <1>5, StepOfHead
      <4>2. Len(task[t]) = 1 => ops # <<>>
        BY <1>3, <3>1, <3>3, <4>1 DEF Adds, Stages
      <4> QED
        BY <4>2, EmptySeq
    <3>6. Len(task'[t]) # 0
      <4>1. \A a \in Nat, b \in Nat \ {0} : (b = 1 => a # 0) => a + b - 1 # 0
        OBVIOUS
      <4> QED
        BY <3>4, <3>5, <4>1
    <3>7. task'[t] # <<>>
      BY <3>6, NoOps
    <3>8. \A u \in Handlers : task'[u] = <<>>
      BY <1>0, <1>2, <2>3, <3>1 DEF TrustInv
    <3> QED
      BY <1>1, <2>1, <3>1, <3>7, <3>8 DEF TrustInv, Moves
  <2>4. CASE trust' # "broken" /\ trust = "whole"
    <3>1. trust' = "whole" /\ t \in Handlers /\ task["startup"] = <<>>
      BY <1>0, <2>1, <2>4 DEF Moves, TrustInv
    <3>2. \A u \in Tasks : u # t => task[u] = <<>>
      BY <1>0, <2>4, <3>1 DEF TrustInv
    <3>3. \A u \in Tasks : u # t => task'[u] = <<>>
      BY <1>2, <3>2
    <3>4. task'["startup"] = <<>> /\ \A u, v \in Handlers : task'[u] # <<>> /\ task'[v] # <<>> => u = v
      BY <1>0, <3>1, <3>3
    <3> QED
      BY <1>1, <3>1, <3>4 DEF TrustInv
  <2> QED
    BY <1>0, <2>1, <2>2, <2>3, <2>4 DEF HistoryOK, Moves
<1> QED
  BY <1>4, <1>5

(* Receiving something leaves the trust whole only if no other task runs.  *)
LEMMA ReceiveTrust ==
    ASSUME Typed, ShapeInv, TrustInv, NEW t \in Handlers, Receive(t)
    PROVE  TrustInv' /\ ShapeInv' /\ Moves /\ Owes /\ (trust' # "broken" => trust = "whole" /\ Alone)
<1>0. TasksOK /\ "startup" \in Tasks /\ t \in Tasks /\ t # "startup" /\ HistoryOK /\ "startup" \notin Handlers
  BY PrBotAssumption DEF Typed, Tasks
<1>1. PICK ops \in Seq(OpSet) : /\ Starts(t, ops) /\ Begins(ops)
                                /\ \/ \E i \in DOMAIN webhooks : \E kind : Delivers(t, i, kind)
                                   \/ Only(ops, Plain) /\ Trusting(Alone, {}) /\ UNCHANGED <<webhooks, row>>
  BY ReceiveBegins DEF Begun
<1>2. task'[t] = ops /\ (\A u \in Tasks : u # t => task'[u] = task[u]) /\ task[t] = <<>>
  BY <1>0, <1>1 DEF Starts, TasksOK
<1>3. Moves /\ Owes /\ (trust' # "broken" => Alone)
  <2>1. ASSUME NEW i, NEW kind, Delivers(t, i, kind)
        PROVE  Moves /\ Owes /\ (trust' # "broken" => Alone)
    BY <2>1, TrustingMoves DEF Delivers
  <2> QED
    BY <1>1, <2>1, TrustingMoves
<1>4. up /\ up' = up
  BY ReceiveTurns DEF ReceiveFrame
<1>5. Alone => \A u \in Tasks : task[u] = <<>>
  BY DEF Alone, Idle
<1>6. trust' # "broken" => trust = "whole" /\ trust' = "whole" /\ Alone
  BY <1>0, <1>3, <1>5 DEF TrustInv, Moves, HistoryOK
<1>7. trust' # "broken" =>
         task'["startup"] = <<>> /\ \A u, v \in Handlers : task'[u] # <<>> /\ task'[v] # <<>> => u = v
  BY <1>0, <1>2, <1>5, <1>6 DEF Tasks
<1>8. TrustInv'
  BY <1>3, <1>4, <1>6, <1>7 DEF TrustInv, Moves
<1>9. ASSUME NEW u \in Tasks, NEW i \in DOMAIN task'[u]
      PROVE  /\ task'[u][i].op \in Stages => u = "startup" /\ i = Len(task'[u])
             /\ u = "startup" /\ i = Len(task'[u]) => task'[u][i].op \in Stages
             /\ u \in Handlers /\ task'[u][i].op \in {"dm", "notify", "rethread", "recheck"} => i = Len(task'[u])
             /\ task'[u][i].op = "notify" => \A x, y \in task'[u][i].transitions : x = y
             /\ u \in Handlers /\ task'[u][i].op \in GitHubOps => i = 1 /\ task'[u][i].op # "poll"
  <2>1. CASE u = t
    <3>1. /\ ops[i].op \in Plain \cup OnLabel \cup {"author", "threads", "rethread", "recheck", "notify"}
          /\ ops[i].op \in GitHubOps => i = 1
          /\ ops[i].op \in {"notify", "rethread", "recheck"} => i = Len(ops)
          /\ ops[i].op = "notify" => \A x, y \in ops[i].transitions : x = y
      BY <1>1, <1>2, <1>9, <2>1 DEF Begins
    <3>2. ops[i].op \notin Stages \cup {"dm", "poll"}
      BY <3>1 DEF Plain, OnLabel, Stages
    <3> QED
      BY <1>0, <1>2, <2>1, <3>1, <3>2
  <2>2. CASE u # t
    <3>1. task'[u] = task[u] /\ i \in DOMAIN task[u]
      BY <1>2, <1>9, <2>2
    <3> QED
      BY <3>1 DEF ShapeInv
  <2> QED
    BY <2>1, <2>2
<1>10. ShapeInv'
  BY <1>9 DEF ShapeInv
<1> QED
  BY <1>3, <1>6, <1>8, <1>10

LEMMA OthersTrust ==
    ASSUME Typed, ShapeInv, TrustInv, OnDelete \/ RunCleanup \/ Crash \/ Restart
    PROVE  TrustInv' /\ ShapeInv'
<1>0. "startup" \in Tasks /\ "startup" \notin Handlers /\ Handlers \subseteq Tasks /\ HistoryOK /\ TasksOK
  BY PrBotAssumption DEF Typed, Tasks
<1>1. ASSUME UNCHANGED <<task, webhooks>>, up, up' = up, Moves
      PROVE  TrustInv' /\ ShapeInv'
  <2>1. ShapeInv'
    BY <1>1 DEF ShapeInv
  <2> QED
    BY <1>1, <2>1 DEF TrustInv, Moves
<1>2. ASSUME OnDelete PROVE TrustInv' /\ ShapeInv'
  BY <1>1, <1>2, TrustingMoves DEF OnDelete, TakesEvent, memory
<1>3. ASSUME RunCleanup PROVE TrustInv' /\ ShapeInv'
  <2>1. trust' \in {trust, "broken"} /\ Fill({}) /\ Owe(Forgotten, 1)
    BY <1>3 DEF RunCleanup
  <2>2. Moves
    BY <2>1 DEF Moves, Fill, Owe
  <2> QED
    BY <1>1, <1>3, <2>2 DEF RunCleanup, queues, memory
<1>4. ASSUME Crash PROVE TrustInv' /\ ShapeInv'
  <2>1. trust' = "broken" /\ Moves
    BY <1>4, TrustingMoves DEF Crash
  <2>2. \A u \in Tasks : task'[u] = <<>> /\ DOMAIN task'[u] = {}
    BY <1>4 DEF Crash
  <2> QED
    BY <2>1, <2>2 DEF Moves, TrustInv, ShapeInv
<1>5. ASSUME Restart PROVE TrustInv' /\ ShapeInv'
  <2> DEFINE settled == {m \in Messages : message'[m] # None /\ message'[m].links # {}}
             pass == [op |-> "history", skip |-> settled]
  <2>1. /\ ~up /\ up' = TRUE /\ trust' = "healing" /\ UNCHANGED <<webhooks, owed>>
        /\ task' = [task EXCEPT !["startup"] = <<pass>>]
    BY <1>5 DEF Restart, queues
  <2>2. pass.op = "history"
    OBVIOUS
  <2> HIDE DEF pass
  <2>3. webhooks = <<>> /\ (\A u \in Tasks : task[u] = <<>>) /\ trust = "broken"
    BY <2>1 DEF Typed, MemoryOK, Idle, TrustInv
  <2>4. task'["startup"] = <<pass>> /\ \A u \in Tasks : u # "startup" => task'[u] = <<>>
    BY <1>0, <2>1, <2>3 DEF TasksOK
  <2>5. <<pass>> # <<>> /\ DOMAIN <<pass>> = {1} /\ <<pass>>[1] = pass /\ Len(<<pass>>) = 1
        /\ DOMAIN <<>> = {}
    OBVIOUS
  <2>6. TrustInv'
    BY <1>0, <2>1, <2>3, <2>4, <2>5 DEF TrustInv
  <2>7. ASSUME NEW u \in Tasks, NEW i \in DOMAIN task'[u]
        PROVE  u = "startup" /\ i = Len(task'[u]) /\ task'[u][i].op = "history"
    BY <2>2, <2>4, <2>5, <2>7
  <2>8. ShapeInv'
    BY <1>0, <2>7 DEF ShapeInv, Stages, GitHubOps
  <2> QED
    BY <2>6, <2>8
<1> QED
  BY <1>2, <1>3, <1>4, <1>5
-----------------------------------------------------------------------------
(* What happens on GitHub: what is worth n DMs is worth its webhook too.   *)

Announces(e, p, new, n) ==
    \/ /\ e.kind # "check" /\ new.failing = github[p].failing
       /\ \A q \in PRs : Worth(e, q) => q = p /\ n = 1
    \/ e.kind = "check" /\ e.pr = p /\ (new.failing => n = 1)

Happens(p) ==
    /\ UNCHANGED <<row, task, up>> /\ Moves /\ (trust' # "broken" => trust = "whole")
    /\ \E new \in OnGitHub, n \in {0, 1} :
         /\ github' = [github EXCEPT ![p] = new]
         /\ trust' = "whole" => \A q \in PRs : owed'[q] = IF q = p THEN owed[q] + n ELSE owed[q]
         /\ \/ webhooks' = webhooks /\ (new.failing => github[p].failing \/ n = 1)
            \/ \E e \in Events : webhooks' = Append(webhooks, e) /\ Announces(e, p, new, n)

LEMMA ChangedHappens ==
    ASSUME Typed, NEW p \in PRs, NEW kind, NEW new \in OnGitHub, NEW n \in {0, 1}, NEW e,
           Changed(kind, p, new, e, n),
           \/ e = None /\ new.failing = github[p].failing
           \/ e \in Events /\ Announces(e, p, new, n)
    PROVE  Happens(p)
<1>1. UNCHANGED <<row, task, up>> /\ github' = [github EXCEPT ![p] = new] /\ Fill({}) /\ Owe({p}, n)
      /\ trust' \in {trust, "broken"} /\ (trust' # "broken" => trust = "whole")
  BY DEF Changed, tables, memory
<1>2. Moves /\ (trust' = "whole" => \A q \in PRs : owed'[q] = IF q = p THEN owed[q] + n ELSE owed[q])
  BY <1>1 DEF Moves, Fill, Owe
<1>3. \/ webhooks' = webhooks /\ (new.failing => github[p].failing \/ n = 1)
      \/ \E x \in Events : webhooks' = Append(webhooks, x) /\ Announces(x, p, new, n)
  <2>1. (webhooks' = Append(webhooks, e) /\ e # None) \/ webhooks' = webhooks
    BY DEF Changed
  <2>2. new.failing => github[p].failing \/ n = 1
    BY DEF Announces
  <2> QED
    BY <2>1, <2>2
<1> QED
  BY <1>1, <1>2, <1>3 DEF Happens

LEMMA GitHubHappens ==
    ASSUME Typed, NEW p \in PRs, GitHubChanges(p)
    PROVE  Happens(p)
<1> DEFINE g == github[p]
<1>0. /\ g \in OnGitHub /\ g.reviews \in Seq(Reviews)
      /\ g.life \in Lives /\ g.failing \in BOOLEAN /\ g.resolved \in BOOLEAN
  BY DEF Typed, GitHubOK, OnGitHub
<1>1. ASSUME NEW review \in Reviews, NEW opens \in BOOLEAN, SubmitReview(p, review, opens) PROVE Happens(p)
  <2> DEFINE new == [g EXCEPT !.reviews = Append(@, review), !.resolved = @ /\ ~opens]
             e == [kind |-> "review", pr |-> p, review |-> review]
             n == IF review = "self_comment" THEN 0 ELSE 1
  <2>1. Append(g.reviews, review) \in Seq(Reviews)
    BY <1>0
  <2>2. new \in OnGitHub /\ new.failing = g.failing
    BY <1>0, <2>1 DEF OnGitHub
  <2>3. e \in Events /\ e.kind = "review" /\ e.pr = p /\ e.review = review
    BY DEF Events
  <2>4. Changed("review", p, new, e, n) /\ n \in {0, 1}
    BY <1>1 DEF SubmitReview
  <2>5. \A q \in PRs : Worth(e, q) => q = p /\ n = 1
    BY <2>3 DEF Worth
  <2> HIDE DEF new, e, n
  <2>6. Announces(e, p, new, n)
    BY <2>2, <2>3, <2>5 DEF Announces
  <2> QED
    BY <2>2, <2>3, <2>4, <2>6, ChangedHappens
<1>2. ASSUME NEW i \in DOMAIN github[p].reviews, DismissReview(p, i) PROVE Happens(p)
  <2> DEFINE new == [g EXCEPT !.reviews = [@ EXCEPT ![i] = "dismissed"]]
             e == [kind |-> "review", pr |-> p, review |-> "dismissed"]
  <2>1. [g.reviews EXCEPT ![i] = "dismissed"] \in Seq(Reviews)
    <3>1. i \in 1..Len(g.reviews) /\ "dismissed" \in Reviews
      BY <1>0, LenProperties DEF Reviews
    <3> QED
      BY <1>0, <3>1, ExceptSeq
  <2>2. new \in OnGitHub /\ new.failing = g.failing
    BY <1>0, <2>1 DEF OnGitHub
  <2>3. e \in Events /\ e.kind = "review" /\ e.pr = p /\ e.review = "dismissed"
    BY DEF Events, Reviews
  <2>4. Changed("dismiss", p, new, e, 0)
    BY <1>2 DEF DismissReview
  <2> HIDE DEF new, e
  <2>5. Announces(e, p, new, 0)
    BY <2>2, <2>3 DEF Announces, Worth
  <2> QED
    BY <2>2, <2>3, <2>4, <2>5, ChangedHappens
<1>3. ASSUME NEW life \in Terminal, ClosePr(p, life) PROVE Happens(p)
  <2> DEFINE new == [g EXCEPT !.life = life]
             e == [kind |-> "close", pr |-> p, life |-> life]
  <2>1. new \in OnGitHub /\ new.failing = g.failing
    BY <1>0 DEF OnGitHub, Terminal, Lives
  <2>2. e \in Events /\ e.kind = "close" /\ e.pr = p
    BY DEF Events
  <2>3. Changed("close", p, new, e, 1)
    BY <1>3 DEF ClosePr
  <2> HIDE DEF new, e
  <2>4. Announces(e, p, new, 1)
    BY <2>1, <2>2 DEF Announces, Worth
  <2> QED
    BY <2>1, <2>2, <2>3, <2>4, ChangedHappens
<1>4. ASSUME ReopenPr(p) PROVE Happens(p)
  <2> DEFINE new == [g EXCEPT !.life = "open"]
  <2>1. new \in OnGitHub /\ new.failing = g.failing
    BY <1>0 DEF OnGitHub, Lives
  <2>2. Changed("reopen", p, new, None, 0)
    BY <1>4 DEF ReopenPr
  <2> HIDE DEF new
  <2> QED
    BY <2>1, <2>2, ChangedHappens
<1>5. ASSUME NEW ready \in BOOLEAN, ChangeLabels(p, ready) PROVE Happens(p)
  <2> DEFINE new == [g EXCEPT !.ready = ready]
             e == [kind |-> "label", pr |-> p, ready |-> ready]
  <2>1. new \in OnGitHub /\ new.failing = g.failing
    BY <1>0 DEF OnGitHub
  <2>2. e \in Events /\ e.kind = "label" /\ e.pr = p
    BY DEF Events
  <2>3. Changed("label", p, new, e, 0)
    BY <1>5 DEF ChangeLabels
  <2> HIDE DEF new, e
  <2>4. Announces(e, p, new, 0)
    BY <2>1, <2>2 DEF Announces, Worth
  <2> QED
    BY <2>1, <2>2, <2>3, <2>4, ChangedHappens
<1>6. ASSUME CompleteChecks(p) PROVE Happens(p)
  <2> DEFINE new == [g EXCEPT !.failing = ~g.failing]
             e == [kind |-> "check", pr |-> p, failing |-> ~g.failing]
             n == IF ~g.failing THEN 1 ELSE 0
  <2>1. new \in OnGitHub /\ new.failing = ~g.failing
    BY <1>0 DEF OnGitHub
  <2>2. e \in Events /\ e.kind = "check" /\ e.pr = p
    BY <1>0 DEF Events
  <2>3. Changed("check", p, new, e, n) /\ n \in {0, 1}
    BY <1>6 DEF CompleteChecks
  <2>4. new.failing => n = 1
    BY <1>0, <2>1
  <2> HIDE DEF new, e, n
  <2>5. Announces(e, p, new, n)
    BY <2>2, <2>4 DEF Announces
  <2> QED
    BY <2>1, <2>2, <2>3, <2>5, ChangedHappens
<1>7. ASSUME ResolveThreads(p) PROVE Happens(p)
  <2> DEFINE new == [g EXCEPT !.resolved = ~@]
             e == [kind |-> "thread", pr |-> p]
  <2>1. new \in OnGitHub /\ new.failing = g.failing
    BY <1>0 DEF OnGitHub
  <2>2. e \in Events /\ e.kind = "thread" /\ e.pr = p
    BY DEF Events
  <2>3. Changed("thread", p, new, e, 0)
    BY <1>7 DEF ResolveThreads
  <2> HIDE DEF new, e
  <2>4. Announces(e, p, new, 0)
    BY <2>1, <2>2 DEF Announces, Worth
  <2> QED
    BY <2>1, <2>2, <2>3, <2>4, ChangedHappens
<1> QED
  BY <1>1, <1>2, <1>3, <1>4, <1>5, <1>6, <1>7 DEF GitHubChanges

(* What users do on Discord does not touch what the trust is about. *)
LEMMA UsersAside ==
    ASSUME \/ \E links \in Links : PostMessage(links) \/ \E m \in Messages : EditMessage(m, links)
           \/ \E m \in Messages : DeleteMessage(m) \/ GrowOld(m)
    PROVE  UNCHANGED <<github, webhooks, row, task, up, trust, filled, owed>>
<1>1. UserActs => UNCHANGED <<github, webhooks, row, task, up, trust, filled, owed>>
  BY DEF UserActs, tables, memory, history
<1> QED
  BY <1>1 DEF PostMessage, EditMessage, DeleteMessage, GrowOld

LEMMA InitTrust == Init => TrustInv /\ ShapeInv
<1>1. Init => \A t \in Tasks : task[t] = <<>> /\ DOMAIN task[t] = {}
  BY DEF Init
<1>2. "startup" \in Tasks /\ Handlers \subseteq Tasks
  BY DEF Tasks
<1> QED
  BY <1>1, <1>2 DEF Init, TrustInv, ShapeInv

LEMMA NextTrust ==
    ASSUME Typed, ShapeInv, TrustInv, [Next]_vars
    PROVE  TrustInv' /\ ShapeInv'
<1>0. TasksOK
  BY DEF Typed
<1>1. ASSUME NEW t \in Tasks \ Idle, Step(t) PROVE TrustInv' /\ ShapeInv'
  BY <1>0, <1>1, StepTrust, StepsAdd, StepShape DEF Idle
<1>2. CASE \E t \in Handlers \cap Idle : Receive(t)
  BY <1>2, ReceiveTrust
<1>3. CASE OnDelete \/ RunCleanup \/ Crash \/ Restart
  BY <1>3, OthersTrust
<1>4. ASSUME NEW p \in PRs, GitHubChanges(p) PROVE TrustInv' /\ ShapeInv'
  <2>1. UNCHANGED <<task, up>> /\ Moves /\ (trust' # "broken" => trust = "whole")
    BY <1>4, GitHubHappens DEF Happens
  <2>2. trust' \in {"broken", "whole"}
    BY <2>1 DEF Moves
  <2> QED
    BY <2>1, <2>2 DEF TrustInv, ShapeInv, Moves
<1>5. CASE \/ \E links \in Links : PostMessage(links) \/ \E m \in Messages : EditMessage(m, links)
           \/ \E m \in Messages : DeleteMessage(m) \/ GrowOld(m)
  BY <1>5, UsersAside DEF TrustInv, ShapeInv
<1>6. CASE UNCHANGED vars
  BY <1>6 DEF vars, env, queues, tables, memory, history, TrustInv, ShapeInv
<1> QED
  BY <1>1, <1>2, <1>3, <1>4, <1>5, <1>6 DEF Next

LEMMA TrustStands == Spec => [](TrustInv /\ ShapeInv)
<1>1. Init => TrustInv /\ ShapeInv
  BY InitTrust
<1>2. Typed /\ TrustInv /\ ShapeInv /\ [Next]_vars => (TrustInv /\ ShapeInv)'
  BY NextTrust
<1> QED
  BY <1>1, <1>2, TypedStands, PTL DEF Spec
-----------------------------------------------------------------------------
(* The DMs that are still due. *)

(* The webhooks on their way that may lead to a DM about p by themselves.  *)
Worthy(p) == {i \in DOMAIN webhooks : Worth(webhooks[i], p)}

(* A task that ends with a DM about p, or may do so. *)
Tells(t, p) ==
    /\ task[t] # <<>>
    /\ LET o == task[t][Len(task[t])] IN
       o.op \in {"dm", "notify"} /\ o.pr = p /\ (o.op = "notify" => o.transitions # {})
Told(p) == IF \E t \in Handlers : Tells(t, p) THEN 1 ELSE 0

(* That checks fail is news if an answer says so and the row does not, or  *)
(* if GitHub says so and a question about it is still to be asked.         *)
Asks(t, p) == task[t] # <<>> /\ Op(t).op = "recheck" /\ Op(t).pr = p
Learns(p, value) ==
    \E t \in Handlers : Asks(t, p) /\ Op(t).answer # None /\ Op(t).answer.row.failing = value
Queued(p) == \E i \in DOMAIN webhooks : webhooks[i].kind = "check" /\ webhooks[i].pr = p
Checks(p) == Queued(p) \/ \E t \in Handlers : Asks(t, p) /\ Op(t).answer = None
MayFail(p) ==
    IF Learns(p, TRUE) THEN ~RowOr(p).failing
    ELSE github[p].failing /\ (Learns(p, FALSE) \/ (~RowOr(p).failing /\ Checks(p)))
Failing(p) == IF MayFail(p) THEN 1 ELSE 0

(* While the trust is whole no answer lacks anything, a PR that is being   *)
(* fetched has no row, and every DM still due has been owed.               *)
AwaitInv ==
    \A t \in Handlers : task[t] # <<>> /\ Op(t).op \in GitHubOps =>
        /\ Op(t).answer # None => Op(t).answer.lost = {}
        /\ Op(t).op = "fetch" => row[Op(t).pr] = None
OwedInv == \A p \in PRs : owed[p] >= Cardinality(Worthy(p)) + Told(p) + Failing(p)
DueInv == trust = "whole" => AwaitInv /\ OwedInv

(* A question to GitHub at the head of a task has just been put there. *)
LEMMA HeadIs ==
    ASSUME TasksOK, ShapeInv, NEW t \in Handlers, task[t] # <<>>, NEW ops \in Seq(OpSet), Then(t, ops),
           task'[t] # <<>>, Op(t)'.op \in GitHubOps
    PROVE  Len(ops) \in Nat \ {0} /\ DOMAIN ops = 1..Len(ops) /\ Op(t)' = ops[1]
<1>0. t \in Tasks
  BY DEF Tasks
<1>1. /\ task'[t] \in Seq(OpSet) /\ Len(ops) \in Nat /\ DOMAIN ops = 1..Len(ops)
      /\ DOMAIN task[t] = 1..Len(task[t]) /\ Len(task[t]) \in Nat
      /\ \A i \in DOMAIN task'[t] :
           task'[t][i] = IF i <= Len(ops) THEN ops[i] ELSE task[t][i - Len(ops) + 1]
      /\ DOMAIN task'[t] = 1..(Len(ops) + Len(task[t]) - 1)
  BY <1>0, TaskAfter
<1>2. 1 \in DOMAIN task'[t] /\ Op(t)' = task'[t][1]
  <2>1. Len(task'[t]) \in Nat /\ DOMAIN task'[t] = 1..Len(task'[t]) /\ Len(task'[t]) # 0
    BY <1>1, LenProperties, EmptySeq
  <2> QED
    BY <1>1, <2>1 DEF Op
<1>3. CASE Len(ops) = 0
  <2>1. 2 \in DOMAIN task[t]
    BY <1>1, <1>2, <1>3
  <2>2. Op(t)' = task[t][2]
    BY <1>1, <1>2, <1>3
  <2> QED
    BY <1>0, <2>1, <2>2 DEF ShapeInv
<1>4. CASE Len(ops) # 0
  <2>1. 1 <= Len(ops)
    BY <1>1, <1>4
  <2> QED
    BY <1>1, <1>2, <1>4, <2>1
<1> QED
  BY <1>3, <1>4

LEMMA HeadAfter ==
    ASSUME Typed, ShapeInv, NEW t \in Handlers, task[t] # <<>>, Step(t),
           task'[t] # <<>>, Op(t)'.op \in GitHubOps
    PROVE  \/ \E lost : Answer(t, lost) /\ Op(t)' = [Op(t) EXCEPT !.answer = [row |-> Truth(Op(t).pr), lost |-> lost]]
           \/ LookUpState(t) /\ row[Op(t).pr] = None /\ Op(t)' = Await("fetch", Op(t).pr, None)
<1> DEFINE o == Op(t)
<1>0. /\ t \in Tasks /\ TasksOK /\ GitHubOK /\ o \in OpSet /\ TablesOK
      /\ o.op \notin Stages /\ o.op # "poll"
  <2>1. t \in Tasks /\ TasksOK /\ GitHubOK /\ TablesOK /\ t # "startup"
    BY PrBotAssumption DEF Typed, Tasks
  <2>2. o = task[t][1] /\ 1 \in DOMAIN task[t] /\ o \in OpSet
    BY <2>1, TaskFields, OpTyped
  <2> QED
    BY <2>1, <2>2 DEF ShapeInv, GitHubOps
<1>1. \A ops \in Seq(OpSet) : Then(t, ops) =>
         Len(ops) \in Nat \ {0} /\ DOMAIN ops = 1..Len(ops) /\ 1 \in DOMAIN ops /\ Op(t)' = ops[1]
  <2>1. ASSUME NEW ops \in Seq(OpSet), Then(t, ops)
        PROVE  Len(ops) \in Nat \ {0} /\ DOMAIN ops = 1..Len(ops) /\ Op(t)' = ops[1]
    BY <1>0, <2>1, HeadIs
  <2> QED
    BY <2>1
<1>2. ~Then(t, <<>>)
  BY <1>1, NoOps
<1>3. \A ms \in SUBSET Messages : ~Then(t, Reconciles(ms))
  BY <1>1, ReconcilesAre DEF Only, GitHubOps
<1>4. ASSUME NEW lost, Answer(t, lost)
      PROVE  Op(t)' = [Op(t) EXCEPT !.answer = [row |-> Truth(Op(t).pr), lost |-> lost]]
  <2> DEFINE x == [o EXCEPT !.answer = [row |-> Truth(o.pr), lost |-> lost]]
  <2>1. Then(t, <<x>>)
    BY <1>4 DEF Answer
  <2> HIDE DEF x
  <2>2. task' = [task EXCEPT ![t] = <<x>> \o Tail(task[t])]
    BY <2>1 DEF Then
  <2>3. task'[t] = <<x>> \o Tail(task[t])
    BY <1>0, <2>2 DEF TasksOK
  <2>4. Tail(task[t]) \in Seq(OpSet \cup {x}) /\ <<x>> \in Seq(OpSet \cup {x})
    BY <1>0, OpTyped, SeqMonotonic, SingletonSeq
  <2>5. Head(<<x>> \o Tail(task[t])) = x
    BY <2>4, ConcatProperties
  <2> QED
    BY <2>3, <2>5 DEF Op, x
<1>5. ASSUME LookUpState(t)
      PROVE  row[o.pr] = None /\ Op(t)' = Await("fetch", o.pr, None)
  <2>1. o \in PrOps
    BY <1>0, <1>5, OpFields DEF LookUpState, At
  <2>2. Await("fetch", o.pr, None) \in OpSet /\ Pause \in OpSet /\ Pause.op = "sleep"
    BY <2>1, AwaitGiven, GivenOps DEF PrOps, Given, Pause
  <2>3. ~Then(t, <<Pause>>)
    BY <1>1, <2>2, OneOp DEF GitHubOps
  <2>4. row[o.pr] = None /\ Then(t, <<Await("fetch", o.pr, None)>>)
    BY <1>2, <1>5, <2>3 DEF LookUpState
  <2> QED
    BY <1>1, <2>2, <2>4, OneOp
<1>6. ~(FetchAndStore(t) \/ ReadThreads(t))
  BY <1>2 DEF FetchAndStore, ReadThreads
<1>7. ~RecheckThreads(t)
  <2>1. SUFFICES ASSUME RecheckThreads(t) PROVE FALSE
    OBVIOUS
  <2>2. o.known \in SUBSET Messages
    BY <1>0, <2>1, AnswerTyped DEF RecheckThreads, GitHubOps
  <2>3. Then(t, <<>>) \/ Then(t, Reconciles(o.known))
    BY <2>1 DEF RecheckThreads
  <2> QED
    BY <1>2, <1>3, <2>2, <2>3
<1>8. ~RecheckChecks(t)
  <2>1. SUFFICES ASSUME RecheckChecks(t) PROVE FALSE
    OBVIOUS
  <2>2. o.known.messages \in SUBSET Messages /\ o.pr \in PRs
    BY <1>0, <2>1, AnswerTyped DEF RecheckChecks, GitHubOps
  <2>3. PICK ds \in {<<>>, Dms(o.pr, {"checks_failed"})} :
           Then(t, <<>>) \/ Then(t, Reconciles(o.known.messages) \o ds)
    BY <2>1 DEF RecheckChecks
  <2>4. ds \in Seq(OpSet) /\ Only(ds, {"reconcile", "dm"})
    <3>1. {"checks_failed"} \in SUBSET Transitions
      BY DEF Transitions
    <3>2. CASE ds = <<>>
      BY <3>2, NoOps
    <3>3. CASE ds = Dms(o.pr, {"checks_failed"})
      BY <2>2, <3>1, <3>3, DmsAre DEF Only
    <3> QED
      BY <2>3, <3>2, <3>3
  <2> DEFINE rs == Reconciles(o.known.messages)
  <2>5. rs \in Seq(OpSet) /\ Only(rs, {"reconcile", "dm"})
    BY <2>2, ReconcilesAre DEF Only
  <2>6. Then(t, rs \o ds)
    BY <1>2, <2>3
  <2> HIDE DEF rs
  <2>7. rs \o ds \in Seq(OpSet) /\ Only(rs \o ds, {"reconcile", "dm"})
    BY <2>4, <2>5, BothAre, OnlyBoth
  <2> QED
    BY <1>1, <2>6, <2>7 DEF Only, GitHubOps
<1>9. ~PollPR(t)
  BY <1>0 DEF PollPR, Answered, At
<1>11. ~FetchAuthor(t)
  <2>1. SUFFICES ASSUME FetchAuthor(t) PROVE FALSE
    OBVIOUS
  <2>2. o.pr \in PRs
    BY <1>0, <2>1, AnswerTyped DEF FetchAuthor, GitHubOps
  <2>3. PICK tracked \in BOOLEAN : Then(t, <<>>) \/ Then(t, Posts(o.pr, tracked))
    BY <2>1 DEF FetchAuthor
  <2>4. PICK ops : ops = Posts(o.pr, tracked)
    OBVIOUS
  <2>5. ops \in Seq(OpSet) /\ \A i \in DOMAIN ops : ops[i].op \in {"post", "unguard"}
    BY <2>2, <2>4, AutopostsAre
  <2> QED
    BY <1>1, <1>2, <2>3, <2>4, <2>5 DEF GitHubOps
<1>10. o.op \in GitHubOps \cup {"state"}
  <2>1. StepAdds(t)
    BY <1>0, StepsAdd
  <2>2. ~GivesUp(t)
    BY <1>0 DEF GivesUp, Stages
  <2>3. PICK ops \in Seq(OpSet) : Then(t, ops) /\ Adds(o, ops)
    BY <2>1, <2>2 DEF StepAdds
  <2>4. 1 \in DOMAIN ops /\ ops[1].op \in GitHubOps
    BY <1>1, <2>3
  <2> QED
    BY <1>0, <2>3, <2>4 DEF Adds, Stages
<1> QED
  BY <1>4, <1>5, <1>6, <1>7, <1>8, <1>9, <1>10, <1>11, StepOfHead

(* A task that ends with a DM did so before, or has learnt of checks. *)
LEMMA LastIs ==
    ASSUME TasksOK, ShapeInv, NEW t \in Handlers, task[t] # <<>>, NEW ops \in Seq(OpSet), Then(t, ops),
           Adds(Op(t), ops), NEW p, Tells(t, p)'
    PROVE  \/ Tells(t, p)
           \/ /\ Op(t).op = "recheck" /\ Op(t).pr = p
              /\ \E i \in DOMAIN ops : ops[i].op = "dm"
<1>0. t \in Tasks /\ t # "startup"
  BY PrBotAssumption DEF Tasks
<1> DEFINE n == Len(task[t])
           k == Len(ops)
           o == Op(t)
           e == task'[t][Len(task'[t])]
<1>1. /\ task'[t] \in Seq(OpSet) /\ k \in Nat /\ DOMAIN ops = 1..k
      /\ DOMAIN task[t] = 1..n /\ n \in Nat \ {0}
      /\ Len(task'[t]) = k + n - 1
      /\ DOMAIN task'[t] = 1..(k + n - 1)
      /\ \A i \in DOMAIN task'[t] : task'[t][i] = IF i <= k THEN ops[i] ELSE task[t][i - k + 1]
  BY <1>0, TaskAfter
<1>2. o = task[t][1]
  BY <1>0, TaskFields
<1>3. task'[t] # <<>> /\ e.op \in {"dm", "notify"} /\ e.pr = p /\ (e.op = "notify" => e.transitions # {})
  BY DEF Tells
<1>4. k + n - 1 \in DOMAIN task'[t] /\ e = task'[t][k + n - 1]
  <2>1. Len(task'[t]) # 0 /\ Len(task'[t]) \in Nat
    BY <1>1, <1>3, LenProperties, EmptySeq
  <2>2. k + n - 1 \in 1..(k + n - 1)
    BY <1>1, <2>1
  <2> QED
    BY <1>1, <2>2
<1> HIDE DEF e, n, k
<1>5. CASE n # 1
  <2>1. PICK j : j = k + n - 1
    OBVIOUS
  <2>2. e = task[t][n]
    <3>1. j \in DOMAIN task'[t] /\ e = task'[t][j]
      BY <1>4, <2>1
    <3>2. ~(j <= k) /\ j - k + 1 = n
      BY <1>1, <1>5, <2>1
    <3>3. task'[t][j] = task[t][j - k + 1]
      BY <1>1, <3>1, <3>2
    <3> QED
      BY <3>1, <3>2, <3>3
  <2> QED
    BY <1>3, <2>2 DEF Tells, n
<1>6. CASE n = 1
  <2>1. k + n - 1 = k /\ k <= k
    BY <1>1, <1>6
  <2>2. e = ops[k] /\ k \in DOMAIN ops
    BY <1>1, <1>4, <2>1
  <2>3. o.op \notin {"poll"}
    BY <1>0, <1>1, <1>2 DEF ShapeInv, GitHubOps
  <2>4. e.op = "dm" /\ o.op \in {"notify", "recheck"} /\ e.pr = o.pr /\ (o.op = "notify" => o.transitions # {})
    BY <1>3, <2>2, <2>3 DEF Adds
  <2>5. CASE o.op = "notify"
    BY <1>2, <1>3, <1>6, <2>4, <2>5 DEF Tells, n
  <2>6. CASE o.op = "recheck"
    BY <1>3, <2>2, <2>4, <2>6
  <2> QED
    BY <2>4, <2>5, <2>6
<1> QED
  BY <1>5, <1>6

(* A row of which one column changes keeps the others. *)
LEMMA KeepsFailing ==
    ASSUME TablesOK, NEW p \in PRs, NEW r, r # None, r.failing = RowOr(p).failing,
           row' = [row EXCEPT ![p] = r]
    PROVE  SameFailing
<1>1. ASSUME NEW q \in PRs PROVE RowOr(q)'.failing = RowOr(q).failing
  <2>1. CASE q = p
    BY <2>1 DEF RowOr, TablesOK
  <2>2. CASE q # p
    BY <2>2 DEF RowOr, TablesOK
  <2> QED
    BY <2>1, <2>2
<1> QED
  BY <1>1 DEF SameFailing

LEMMA SameRow ==
    ASSUME UNCHANGED row
    PROVE  SameFailing
  BY DEF SameFailing, RowOr

(* Only a fetch, a question about checks and the startup poll change what  *)
(* a row says of the checks.                                               *)
LEMMA StepFailing ==
    ASSUME Typed, NEW t \in Tasks, task[t] # <<>>, Step(t)
    PROVE  SameFailing \/ FetchAndStore(t) \/ RecheckChecks(t) \/ PollPR(t)
<1> DEFINE o == Op(t)
<1>0. TasksOK /\ TablesOK /\ o \in OpSet /\ StepFrame(t) /\ \A p \in PRs : RowOr(p) \in Row
  BY OpTyped, StepFrames, RowOrTyped DEF Typed
<1>1. ASSUME NEW p \in PRs, NEW r \in Row, r.failing = RowOr(p).failing,
             row' = row \/ row' = [row EXCEPT ![p] = r]
      PROVE  SameFailing
  BY <1>0, <1>1, KeepsFailing, SameRow, RowIsSome
<1>2. ASSUME ReadRows(t) PROVE SameFailing
  <2>1. PICK links : row' = [p \in PRs |-> IF p \in links THEN RowOr(p) ELSE row[p]]
    BY <1>2 DEF ReadRows
  <2>2. \A p \in PRs : row'[p] = row[p] \/ (row'[p] = RowOr(p) /\ row'[p] # None)
    BY <1>0, <2>1, RowIsSome
  <2> QED
    BY <2>2 DEF SameFailing, RowOr
<1>3. ASSUME ReadThreads(t) \/ RecheckThreads(t) PROVE SameFailing
  <2>1. o.pr \in PRs /\ o.answer.row.resolved \in BOOLEAN
    BY <1>0, <1>3, AnswerTyped DEF ReadThreads, RecheckThreads, GitHubOps, Row
  <2> DEFINE r == [RowOr(o.pr) EXCEPT !.resolved = o.answer.row.resolved]
  <2>2. r \in Row /\ r.failing = RowOr(o.pr).failing
    BY <1>0, <2>1 DEF Row
  <2>3. row' = row \/ row' = [row EXCEPT ![o.pr] = r]
    BY <1>3 DEF ReadThreads, RecheckThreads
  <2> HIDE DEF r
  <2> QED
    BY <1>1, <2>1, <2>2, <2>3
<1>4. ASSUME StoreLabels(t) PROVE SameFailing
  <2>1. o \in LabelOps
    BY <1>0, <1>4, OpFields DEF StoreLabels, At
  <2>2. o.pr \in PRs /\ o.ready \in BOOLEAN
    BY <2>1 DEF LabelOps
  <2> DEFINE r == [RowOr(o.pr) EXCEPT !.ready = o.ready]
  <2>3. r \in Row /\ r.failing = RowOr(o.pr).failing
    BY <1>0, <2>2 DEF Row
  <2>4. row' = row \/ row' = [row EXCEPT ![o.pr] = r]
    BY <1>4 DEF StoreLabels
  <2> HIDE DEF r
  <2> QED
    BY <1>1, <2>2, <2>3, <2>4
<1> QED
  BY <1>0, <1>2, <1>3, <1>4, SameRow DEF StepFrame, ChangesRow

(* What the answer about checks does to the row, and to whom it tells.     *)
LEMMA RecheckTells ==
    ASSUME Typed, ShapeInv, NEW t \in Handlers, task[t] # <<>>, Step(t), RecheckChecks(t),
           Op(t).answer.lost = {}, NEW p, p = Op(t).pr, NEW v, v = Op(t).answer.row.failing
    PROVE  /\ p \in PRs /\ v \in BOOLEAN /\ RowOr(p)'.failing = v
           /\ \A q \in PRs : q # p => RowOr(q)' = RowOr(q)
           /\ \A q : ~Tells(t, q)
           /\ \A q : Tells(t, q)' => q = p /\ v /\ ~RowOr(q).failing
<1> DEFINE o == Op(t)
           ms == o.known.messages
           ds == IF v /\ ms # {} THEN Dms(p, {"checks_failed"}) ELSE <<>>
           r == [RowOr(p) EXCEPT !.failing = v]
<1>0. /\ TasksOK /\ TablesOK /\ t \in Tasks /\ o \in OpSet /\ o.op = "recheck"
      /\ p \in PRs /\ v \in BOOLEAN /\ ms \in SUBSET Messages /\ RowOr(p) \in Row
  <2>1. TasksOK /\ TablesOK /\ t \in Tasks /\ o.op = "recheck"
    BY DEF Typed, Tasks, RecheckChecks, Answered, At
  <2>2. o \in OpSet /\ p \in PRs /\ v \in BOOLEAN /\ ms \in SUBSET Messages
    BY <2>1, AnswerTyped DEF RecheckChecks, GitHubOps, Row
  <2> QED
    BY <2>1, <2>2, RowOrTyped
<1>1. Len(task[t]) = 1 /\ o = task[t][1]
  <2>1. o = task[t][1] /\ 1 \in DOMAIN task[t]
    BY <1>0, TaskFields
  <2>2. task[t][1].op = "recheck"
    BY <1>0, <2>1
  <2> QED
    BY <1>0, <2>1, <2>2 DEF ShapeInv
<1>2. \A q : ~Tells(t, q)
  BY <1>0, <1>1 DEF Tells
<1>3. \/ RowOr(p).failing = v /\ Then(t, <<>>) /\ row' = row
      \/ RowOr(p).failing # v /\ row' = [row EXCEPT ![p] = r] /\ Then(t, Reconciles(ms) \o ds)
  BY DEF RecheckChecks, Unread
<1>4. r \in Row /\ r.failing = v
  BY <1>0 DEF Row
<1> HIDE DEF r, ms
<1>5. RowOr(p)'.failing = v /\ \A q \in PRs : q # p => RowOr(q)' = RowOr(q)
  <2>1. CASE row' = row /\ RowOr(p).failing = v
    BY <2>1 DEF RowOr
  <2>2. CASE row' = [row EXCEPT ![p] = r]
    <3>1. row'[p] = r /\ r # None /\ \A q \in PRs : q # p => row'[q] = row[q]
      BY <1>0, <1>4, <2>2, RowIsSome DEF TablesOK
    <3> QED
      BY <1>4, <3>1 DEF RowOr
  <2> QED
    BY <1>3, <2>1, <2>2
<1>6. ASSUME NEW q, Tells(t, q)'
      PROVE  q = p /\ v /\ ~RowOr(q).failing
  <2>1. ~Then(t, <<>>)
    <3>1. SUFFICES ASSUME Then(t, <<>>) PROVE FALSE
      OBVIOUS
    <3>2. task'[t] \in Seq(OpSet) /\ Len(task'[t]) = Len(<<>>) + Len(task[t]) - 1
      BY <1>0, <3>1, NoOps, TaskAfter
    <3>3. Len(task'[t]) = 0
      BY <1>1, <3>2, NoOps
    <3>4. task'[t] = <<>>
      BY <3>2, <3>3, EmptySeq
    <3> QED
      BY <1>6, <3>4 DEF Tells
  <2>2. RowOr(p).failing # v /\ Then(t, Reconciles(ms) \o ds)
    BY <1>3, <2>1
  <2>3. /\ ds \in Seq(OpSet) /\ Len(ds) \in {0, 1} /\ Only(ds, {"dm"})
        /\ (\A i \in DOMAIN ds : ds[i].pr = p) /\ (~v => ds = <<>>)
    <3>1. {"checks_failed"} \in SUBSET Transitions /\ \A x, y \in {"checks_failed"} : x = y
      BY DEF Transitions
    <3>2. CASE ds = <<>>
      BY <3>2, NoOps
    <3>3. CASE v /\ ds = Dms(p, {"checks_failed"})
      BY <1>0, <3>1, <3>3, DmsAre
    <3> QED
      BY <3>2, <3>3
  <2> HIDE DEF ds
  <2> DEFINE rs == Reconciles(ms)
             ops == rs \o ds
  <2>4. ops \in Seq(OpSet) /\ Adds(o, ops)
    <3>1. o.op \in {"notify", "recheck"} /\ ~(o.op = "notify")
      BY <1>0
    <3> QED
      BY <1>0, <2>3, <3>1, TellAdds
  <2>5. v
    <3>1. SUFFICES ASSUME ~v PROVE FALSE
      OBVIOUS
    <3>2. ds = <<>> /\ Only(ds, {"reconcile"})
      BY <2>3, <3>1, NoOps
    <3>3. rs \in Seq(OpSet) /\ Only(rs, {"reconcile"})
      BY <1>0, ReconcilesAre
    <3> HIDE DEF rs
    <3>4. Only(ops, {"reconcile"})
      BY <2>3, <3>2, <3>3, OnlyBoth
    <3> HIDE DEF ops
    <3>5. \A i \in DOMAIN ops : ops[i].op # "dm"
      BY <3>4 DEF Only
    <3>6. Then(t, ops)
      BY <2>2 DEF ops, rs
    <3> QED
      BY <1>0, <1>2, <1>6, <2>4, <3>5, <3>6, LastIs
  <2>6. q = p
    <3> HIDE DEF ops
    <3>1. Then(t, ops)
      BY <2>2 DEF ops
    <3> QED
      BY <1>0, <1>2, <1>6, <2>4, <3>1, LastIs
  <2>7. ~RowOr(p).failing
    <3>1. RowOr(p).failing \in BOOLEAN
      BY <1>0 DEF Row
    <3> QED
      BY <1>0, <2>2, <2>5, <3>1, Zenon
  <2> QED
    BY <2>5, <2>6, <2>7
<1> QED
  BY <1>0, <1>2, <1>5, <1>6
-----------------------------------------------------------------------------
(* How the webhooks worth a DM come and go. *)

LEMMA WorthyFinite ==
    ASSUME webhooks \in Seq(Events), NEW p
    PROVE  IsFiniteSet(Worthy(p)) /\ Cardinality(Worthy(p)) \in Nat /\ Worthy(p) \subseteq 1..Len(webhooks)
<1>1. DOMAIN webhooks = 1..Len(webhooks) /\ Len(webhooks) \in Nat
  BY LenProperties
<1>2. Worthy(p) \in SUBSET (1..Len(webhooks))
  BY <1>1 DEF Worthy
<1>3. IsFiniteSet(1..Len(webhooks))
  BY <1>1, FS_Interval
<1> HIDE DEF Worthy
<1>4. IsFiniteSet(Worthy(p))
  BY <1>2, <1>3, FS_Subset
<1> QED
  BY <1>2, <1>4, FS_CardinalityType

LEMMA WorthySent ==
    ASSUME webhooks \in Seq(Events), NEW e \in Events, webhooks' = Append(webhooks, e), NEW p
    PROVE  /\ Cardinality(Worthy(p)') \in Nat
           /\ Worth(e, p) => Cardinality(Worthy(p)') <= Cardinality(Worthy(p)) + 1
           /\ ~Worth(e, p) => Cardinality(Worthy(p)') <= Cardinality(Worthy(p))
<1> DEFINE n == Len(webhooks)
           was == Worthy(p)
           new == Worthy(p)'
<1>1. /\ n \in Nat /\ DOMAIN webhooks = 1..n /\ DOMAIN webhooks' = 1..(n + 1)
      /\ webhooks'[n + 1] = e /\ \A i \in 1..n : webhooks'[i] = webhooks[i]
  BY AppendProperties, LenProperties
<1>2. IsFiniteSet(was) /\ Cardinality(was) \in Nat /\ n + 1 \notin was
  BY <1>1, WorthyFinite
<1>3. new \in SUBSET (was \cup (IF Worth(e, p) THEN {n + 1} ELSE {}))
  BY <1>1 DEF Worthy
<1> HIDE DEF was, new, n
<1>4. CASE Worth(e, p)
  <2>1. new \in SUBSET (was \cup {n + 1})
    BY <1>3, <1>4
  <2>2. IsFiniteSet(was \cup {n + 1}) /\ Cardinality(was \cup {n + 1}) = Cardinality(was) + 1
    BY <1>2, FS_AddElement
  <2>3. IsFiniteSet(new) /\ Cardinality(new) <= Cardinality(was) + 1
    BY <2>1, <2>2, FS_Subset
  <2> QED
    BY <1>4, <2>3, FS_CardinalityType DEF was, new
<1>5. CASE ~Worth(e, p)
  <2>1. new \in SUBSET was
    BY <1>3, <1>5
  <2>2. IsFiniteSet(new) /\ Cardinality(new) <= Cardinality(was)
    BY <1>2, <2>1, FS_Subset
  <2> QED
    BY <1>5, <2>2, FS_CardinalityType DEF was, new
<1> QED
  BY <1>4, <1>5

LEMMA WorthyTaken ==
    ASSUME webhooks \in Seq(Events), 1 \in DOMAIN webhooks, webhooks' = RemoveAt(webhooks, 1), NEW p
    PROVE  /\ Cardinality(Worthy(p)') \in Nat
           /\ Worth(webhooks[1], p) => Cardinality(Worthy(p)') + 1 <= Cardinality(Worthy(p))
           /\ ~Worth(webhooks[1], p) => Cardinality(Worthy(p)') <= Cardinality(Worthy(p))
           /\ Queued(p)' => Queued(p)
<1> DEFINE n == Len(webhooks)
           was == Worthy(p)
           new == Worthy(p)'
           f == [i \in new |-> i + 1]
<1>1. n \in Nat \ {0} /\ DOMAIN webhooks = 1..n
  BY LenProperties
<1>2. DOMAIN webhooks' = 1..(n - 1) /\ \A i \in 1..(n - 1) : webhooks'[i] = webhooks[i + 1]
  <2>1. webhooks' = SubSeq(webhooks, 1, 0) \o SubSeq(webhooks, 2, n)
    BY <1>1 DEF RemoveAt
  <2>2. /\ SubSeq(webhooks, 1, 0) = <<>>
        /\ SubSeq(webhooks, 2, n) \in Seq(Events) /\ Len(SubSeq(webhooks, 2, n)) = n - 1
        /\ \A i \in 1..(n - 1) : SubSeq(webhooks, 2, n)[i] = webhooks[i + 1]
    BY <1>1, SubSeqProperties
  <2>3. webhooks' = SubSeq(webhooks, 2, n)
    BY <2>1, <2>2, ConcatEmptySeq
  <2> QED
    BY <2>2, <2>3, LenProperties
<1>3. IsFiniteSet(was) /\ Cardinality(was) \in Nat
  BY WorthyFinite
<1>4. IsFiniteSet(was \ {1}) /\ Cardinality(was \ {1}) \in Nat
      /\ (1 \in was => Cardinality(was \ {1}) = Cardinality(was) - 1)
      /\ (1 \notin was => Cardinality(was \ {1}) = Cardinality(was))
  BY <1>3, FS_RemoveElement, FS_CardinalityType
<1>5. new \subseteq 1..(n - 1) /\ \A i \in new : i + 1 \in was
  BY <1>1, <1>2 DEF Worthy
<1>6. 1 \in was <=> Worth(webhooks[1], p)
  BY <1>1 DEF Worthy
<1>7. Queued(p)' => Queued(p)
  <2>1. SUFFICES ASSUME NEW i \in DOMAIN webhooks', webhooks'[i].kind = "check", webhooks'[i].pr = p
                 PROVE  Queued(p)
    BY DEF Queued
  <2>2. i + 1 \in DOMAIN webhooks /\ webhooks'[i] = webhooks[i + 1]
    BY <1>1, <1>2
  <2> QED
    BY <2>1, <2>2 DEF Queued
<1> HIDE DEF was, new, n
<1>8. f \in Injection(new, was \ {1})
  <2>1. \A i \in new : i + 1 \in was \ {1}
    BY <1>1, <1>5
  <2>2. f \in [new -> was \ {1}]
    BY <2>1
  <2>3. \A i, j \in new : f[i] = f[j] => i = j
    BY <1>1, <1>5
  <2> QED
    BY <2>2, <2>3 DEF Injection, IsInjective
<1> HIDE DEF f
<1>9. IsFiniteSet(new) /\ Cardinality(new) <= Cardinality(was \ {1})
  BY <1>4, <1>8, FS_Injection
<1> QED
  BY <1>3, <1>4, <1>6, <1>7, <1>9, FS_CardinalityType DEF was, new
-----------------------------------------------------------------------------
(* With one handler alive, what is due is due to that handler. *)

LEMMA Sole ==
    ASSUME NEW t \in Handlers, \A u \in Handlers : u # t => task[u] = <<>>, NEW p
    PROVE  /\ Told(p) = IF Tells(t, p) THEN 1 ELSE 0
           /\ \A v : Learns(p, v) <=> Asks(t, p) /\ Op(t).answer # None /\ Op(t).answer.row.failing = v
           /\ Checks(p) <=> Queued(p) \/ (Asks(t, p) /\ Op(t).answer = None)
<1>1. \A u \in Handlers : (Tells(u, p) => u = t) /\ (Asks(u, p) => u = t)
  BY DEF Tells, Asks
<1> QED
  BY <1>1, Zenon DEF Told, Learns, Checks

LEMMA SoleAfter ==
    ASSUME NEW t \in Handlers, \A u \in Handlers : u # t => task'[u] = <<>>, NEW p
    PROVE  /\ Told(p)' = IF Tells(t, p)' THEN 1 ELSE 0
           /\ \A v : Learns(p, v)' <=> Asks(t, p)' /\ Op(t)'.answer # None /\ Op(t)'.answer.row.failing = v
           /\ Checks(p)' <=> Queued(p)' \/ (Asks(t, p)' /\ Op(t)'.answer = None)
<1>1. \A u \in Handlers : (Tells(u, p)' => u = t) /\ (Asks(u, p)' => u = t)
  BY DEF Tells, Asks
<1> QED
  BY <1>1, Zenon DEF Told, Learns, Checks

(* No handler, nothing to tell or to ask. *)
LEMMA NoneAlive ==
    ASSUME \A u \in Handlers : task[u] = <<>>, NEW p
    PROVE  /\ Told(p) = 0 /\ \A v : ~Learns(p, v)
           /\ Checks(p) <=> Queued(p)
  BY DEF Told, Learns, Checks, Tells, Asks

(* Without an answer about checks their failure becomes news only by what  *)
(* GitHub says, what the row says, or a question.                          *)
LEMMA QuietFailing ==
    ASSUME NEW p, \A v : ~Learns(p, v) /\ ~Learns(p, v)', Checks(p)' => Checks(p),
           github'[p] = github[p],
           RowOr(p).failing => RowOr(p)'.failing
    PROVE  Failing(p)' <= Failing(p)
<1>1. MayFail(p)' => MayFail(p)
  BY Zenon DEF MayFail
<1> QED
  BY <1>1 DEF Failing
-----------------------------------------------------------------------------
(* A step of the one handler keeps every DM due owed. *)

LEMMA StepAwaits ==
    ASSUME Typed, TrustInv, ShapeInv, AwaitInv, trust = "whole", trust' = "whole",
           NEW t \in Handlers, task[t] # <<>>, Step(t)
    PROVE  /\ AwaitInv' /\ UNCHANGED <<github, webhooks>> /\ StepAdds(t) /\ ~GivesUp(t)
           /\ \A u \in Handlers : u # t => task[u] = <<>> /\ task'[u] = <<>>
<1>0. TasksOK /\ TablesOK /\ t \in Tasks /\ Handlers \subseteq Tasks /\ t # "startup" /\ Op(t) \in OpSet
  BY OpTyped, PrBotAssumption DEF Typed, Tasks
<1>1. StepAdds(t) /\ UNCHANGED <<github, webhooks>>
  BY <1>0, StepsAdd, StepFrames DEF StepFrame
<1>2. ~GivesUp(t)
  <2>1. Op(t).op # "history"
    <3>1. Op(t) = task[t][1] /\ 1 \in DOMAIN task[t]
      BY <1>0, TaskFields
    <3> QED
      BY <1>0, <3>1 DEF ShapeInv, Stages
  <2> QED
    BY <2>1 DEF GivesUp
<1>3. \A u \in Handlers : u # t => task[u] = <<>> /\ task'[u] = <<>>
  <2>1. PICK ops \in Seq(OpSet) : Then(t, ops)
    BY <1>1, <1>2 DEF StepAdds
  <2>2. \A u \in Tasks : u # t => task'[u] = task[u]
    BY <1>0, <2>1, TaskAfter
  <2> QED
    BY <1>0, <2>2 DEF TrustInv
<1>4. ASSUME NEW u \in Handlers, task'[u] # <<>>, Op(u)'.op \in GitHubOps
      PROVE  /\ Op(u)'.answer # None => Op(u)'.answer.lost = {}
             /\ Op(u)'.op = "fetch" => row'[Op(u)'.pr] = None
  <2>1. u = t
    BY <1>3, <1>4
  <2>2. CASE \E lost : Answer(t, lost) /\ Op(t)' = [Op(t) EXCEPT !.answer = [row |-> Truth(Op(t).pr), lost |-> lost]]
    <3>1. PICK lost : Answer(t, lost) /\ Op(t)' = [Op(t) EXCEPT !.answer = [row |-> Truth(Op(t).pr), lost |-> lost]]
      BY <2>2
    <3>2. lost = {} /\ row' = row /\ Op(t).op \in GitHubOps
      BY <3>1, StepMoves DEF Answer, tables
    <3> DEFINE a == [row |-> Truth(Op(t).pr), lost |-> lost]
    <3>3. a.lost = {}
      BY <3>2
    <3> HIDE DEF a
    <3>4. Op(t)' = [Op(t) EXCEPT !.answer = a]
      BY <3>1 DEF a
    <3>5. Op(t)'.op = Op(t).op /\ Op(t)'.pr = Op(t).pr /\ Op(t)'.answer = a
      <4>1. Op(t) \in Fetches \/ Op(t) \in Threads \/ Op(t) \in Rethreads \/ Op(t) \in Rechecks \/ Op(t) \in Polls
        BY <1>0, <3>2, OpFields DEF GitHubOps
      <4> QED
        BY <3>4, <4>1 DEF Fetches, Threads, Rethreads, Rechecks, Polls
    <3> QED
      BY <2>1, <3>2, <3>3, <3>5 DEF AwaitInv
  <2>3. CASE LookUpState(t) /\ row[Op(t).pr] = None /\ Op(t)' = Await("fetch", Op(t).pr, None)
    <3>1. row' = row
      BY <2>3 DEF LookUpState, tables
    <3> QED
      BY <2>1, <2>3, <3>1 DEF Await
  <2> QED
    BY <1>4, <2>1, <2>2, <2>3, HeadAfter
<1> QED
  BY <1>1, <1>2, <1>3, <1>4 DEF AwaitInv

(* Unless its head is a question about checks, it has none afterwards. *)
LEMMA StepAsks ==
    ASSUME Typed, ShapeInv, NEW t \in Handlers, task[t] # <<>>, Step(t), ~\E lost : Answer(t, lost), NEW p
    PROVE  ~Asks(t, p)'
<1>1. SUFFICES ASSUME Asks(t, p)' PROVE FALSE
  OBVIOUS
<1>2. task'[t] # <<>> /\ Op(t)'.op = "recheck"
  BY <1>1 DEF Asks
<1>3. Op(t)' = Await("fetch", Op(t).pr, None)
  BY <1>2, HeadAfter DEF GitHubOps
<1> QED
  BY <1>2, <1>3 DEF Await

LEMMA AnswerDue ==
    ASSUME Typed, ShapeInv, AwaitInv, NEW t \in Handlers, task[t] # <<>>, Step(t), NEW p \in PRs,
           Answer(t, {}), \A u \in Handlers : u # t => task[u] = <<>> /\ task'[u] = <<>>
    PROVE  Told(p)' <= Told(p) /\ Failing(p)' <= Failing(p)
<1> DEFINE o == Op(t)
           a == [row |-> Truth(o.pr), lost |-> {}]
           x == [o EXCEPT !.answer = a]
<1>0. /\ TasksOK /\ TablesOK /\ GitHubOK /\ t \in Tasks /\ o \in OpSet /\ o.op \in GitHubOps /\ o.answer = None
      /\ o.op # "poll" /\ UNCHANGED <<github, webhooks, row>> /\ Then(t, <<x>>)
  <2>1. TasksOK /\ TablesOK /\ GitHubOK /\ t \in Tasks /\ o \in OpSet
    BY OpTyped DEF Typed, Tasks
  <2>2. o = task[t][1] /\ 1 \in DOMAIN task[t]
    BY <2>1, TaskFields
  <2>3. o.op \in GitHubOps /\ o.answer = None /\ UNCHANGED <<github, webhooks, row>> /\ Then(t, <<x>>)
    BY DEF Answer, env, queues, tables
  <2> QED
    BY <2>1, <2>2, <2>3 DEF ShapeInv
<1>1. /\ o.pr \in PRs /\ a \in Answers /\ a.row = Truth(o.pr)
      /\ Truth(o.pr).failing = github[o.pr].failing
  <2>1. o.pr \in PRs
    BY <1>0, AwaitFields
  <2>2. Truth(o.pr) \in Row
    BY <1>0, <2>1, TruthTyped
  <2>3. a \in [row: Row, lost: SUBSET {"all", "failing", "resolved"}]
    BY <2>2
  <2>4. a.row = Truth(o.pr)
    OBVIOUS
  <2>5. Truth(o.pr).failing = github[o.pr].failing
    BY DEF Truth
  <2> HIDE DEF a
  <2> QED
    BY <2>1, <2>3, <2>4, <2>5 DEF Answers
<1> HIDE DEF a
<1>2. x \in OpSet /\ x.op = o.op /\ x.pr = o.pr /\ x.answer = a
  <2>1. x \in OpSet
    BY <1>0, <1>1, AnswerGiven, GivenOpSet DEF Given
  <2>2. o \in Fetches \/ o \in Threads \/ o \in Rethreads \/ o \in Rechecks \/ o \in Polls
    BY <1>0, OpFields DEF GitHubOps
  <2>3. x.op = o.op /\ x.pr = o.pr /\ x.answer = a
    BY <2>2 DEF Fetches, Threads, Rethreads, Rechecks, Polls
  <2> QED
    BY <2>1, <2>3
<1> HIDE DEF x
<1>3. <<x>> \in Seq(OpSet) /\ Len(<<x>>) = 1 /\ DOMAIN <<x>> = {1} /\ <<x>>[1] = x
  BY <1>2, OneOp
<1>4. Tells(t, p)' => Tells(t, p)
  <2>1. Adds(o, <<x>>)
    BY <1>0, <1>2, <1>3 DEF Adds, GitHubOps, OnLabel, Stages
  <2>2. \A i \in DOMAIN <<x>> : <<x>>[i].op # "dm"
    BY <1>0, <1>2, <1>3 DEF GitHubOps
  <2> HIDE DEF o
  <2> QED
    BY <1>0, <1>3, <2>1, <2>2, LastIs DEF o
<1>5. Told(p)' <= Told(p)
  BY <1>4, Sole, SoleAfter
<1>6. task'[t] # <<>> /\ Op(t)' = x
  <2>1. task'[t] \in Seq(OpSet) /\ Len(task'[t]) = Len(<<x>>) + Len(task[t]) - 1 /\ Len(task[t]) \in Nat \ {0}
        /\ DOMAIN task'[t] = 1..Len(task'[t])
        /\ \A i \in DOMAIN task'[t] :
                task'[t][i] = IF i <= Len(<<x>>) THEN <<x>>[i] ELSE task[t][i - Len(<<x>>) + 1]
    BY <1>0, <1>3, TaskAfter
  <2>2. Len(task'[t]) = Len(task[t])
    BY <1>3, <2>1
  <2>3. 1 \in DOMAIN task'[t]
    BY <2>1, <2>2
  <2>4. task'[t][1] = x
    BY <1>3, <2>1, <2>3
  <2>5. task'[t] # <<>>
    BY <2>3
  <2> QED
    BY <2>4, <2>5 DEF Op
<1>7. RowOr(p)' = RowOr(p) /\ Queued(p)' = Queued(p)
  BY <1>0 DEF RowOr, Queued
<1>8. CASE o.op = "recheck" /\ o.pr = p
  <2>1. Asks(t, p) /\ Asks(t, p)' /\ Op(t)'.answer = a
    BY <1>2, <1>6, <1>8 DEF Asks
  <2>2. (\A v : ~Learns(p, v)) /\ Checks(p)
    BY <1>0, <2>1, Sole
  <2>3. \A v : Learns(p, v)' => github[p].failing = v
    BY <1>1, <1>8, <2>1, SoleAfter
  <2>4. MayFail(p) <=> github[p].failing /\ ~RowOr(p).failing
    BY <2>2, Zenon DEF MayFail
  <2>5. github[p].failing \in BOOLEAN /\ github' = github
    BY <1>0 DEF GitHubOK, OnGitHub
  <2>6. MayFail(p)' => github[p].failing /\ ~RowOr(p).failing
    <3>1. CASE github[p].failing = TRUE
      <4>1. ~Learns(p, FALSE)' /\ github[p].failing
        BY <2>3, <3>1
      <4> QED
        BY <1>7, <4>1, Zenon DEF MayFail
    <3>2. CASE github[p].failing = FALSE
      <4>1. ~Learns(p, TRUE)' /\ ~github'[p].failing
        BY <2>3, <2>5, <3>2
      <4> QED
        BY <4>1, Zenon DEF MayFail
    <3> QED
      BY <2>5, <3>1, <3>2
  <2> QED
    BY <1>5, <2>4, <2>6 DEF Failing
<1>9. CASE ~(o.op = "recheck" /\ o.pr = p)
  <2>1. ~Asks(t, p) /\ ~Asks(t, p)'
    BY <1>2, <1>6, <1>9 DEF Asks
  <2>2. (\A v : ~Learns(p, v) /\ ~Learns(p, v)') /\ (Checks(p)' => Checks(p))
    BY <1>7, <2>1, Sole, SoleAfter
  <2>3. github'[p] = github[p] /\ (RowOr(p).failing => RowOr(p)'.failing)
    BY <1>0, <1>7
  <2> QED
    BY <1>5, <2>2, <2>3, QuietFailing
<1> QED
  BY <1>8, <1>9

LEMMA RecheckDue ==
    ASSUME Typed, ShapeInv, AwaitInv, NEW t \in Handlers, task[t] # <<>>, Step(t), NEW p \in PRs,
           RecheckChecks(t), UNCHANGED <<github, webhooks>>,
           \A u \in Handlers : u # t => task[u] = <<>> /\ task'[u] = <<>>
    PROVE  Told(p)' + Failing(p)' <= Told(p) + Failing(p)
<1>0. /\ Op(t).op = "recheck" /\ Op(t).answer # None /\ Op(t).answer.lost = {}
      /\ \A q \in PRs : RowOr(q) \in Row
  <2>1. Op(t).op = "recheck" /\ Op(t).answer # None
    BY DEF RecheckChecks, Answered, At
  <2> QED
    BY <2>1, RowOrTyped DEF AwaitInv, GitHubOps, Typed
<1>1. PICK o : o = Op(t).pr
  OBVIOUS
<1>2. PICK v : v = Op(t).answer.row.failing
  OBVIOUS
<1>3. /\ o \in PRs /\ v \in BOOLEAN /\ RowOr(o)'.failing = v
      /\ \A q \in PRs : q # o => RowOr(q)' = RowOr(q)
      /\ ~Tells(t, p)
      /\ Tells(t, p)' => p = o /\ v /\ ~RowOr(p).failing
  BY <1>0, <1>1, <1>2, RecheckTells
<1>4. ~Asks(t, p)'
  <2>1. ~\E lost : Answer(t, lost)
    BY <1>0 DEF Answer
  <2> QED
    BY <2>1, StepAsks
<1>5. Queued(p)' = Queued(p)
  BY DEF Queued
<1>6. (\A w : ~Learns(p, w)') /\ (Checks(p)' <=> Queued(p)') /\ Told(p) = 0 /\ Told(p)' \in {0, 1}
      /\ (Told(p)' = 1 => p = o /\ v /\ ~RowOr(p).failing)
  BY <1>3, <1>4, Sole, SoleAfter
<1>7. CASE p = o /\ v = TRUE
  <2>1. Learns(p, TRUE)
    BY <1>0, <1>1, <1>2, <1>7, Sole DEF Asks
  <2>2. MayFail(p) <=> ~RowOr(p).failing
    BY <2>1, Zenon DEF MayFail
  <2>3. RowOr(p)'.failing = TRUE
    BY <1>3, <1>7
  <2>4. ~MayFail(p)'
    BY <1>6, <2>3, Zenon DEF MayFail
  <2>5. Failing(p)' = 0 /\ Failing(p) \in {0, 1} /\ (~RowOr(p).failing => Failing(p) = 1)
    BY <2>2, <2>4 DEF Failing
  <2> QED
    BY <1>6, <2>5
<1>8. CASE p = o /\ v = FALSE
  <2>1. Learns(p, FALSE) /\ ~Learns(p, TRUE)
    <3>1. Asks(t, p)
      BY <1>0, <1>1, <1>8 DEF Asks
    <3>2. \A w : Learns(p, w) <=> v = w
      BY <1>0, <1>2, <3>1, Sole
    <3> QED
      BY <1>8, <3>2
  <2>2. MayFail(p) <=> github[p].failing
    BY <2>1, Zenon DEF MayFail
  <2>3. MayFail(p)' => github[p].failing
    BY <1>6, Zenon DEF MayFail
  <2>4. Failing(p)' <= Failing(p) /\ Failing(p) \in {0, 1} /\ Failing(p)' \in {0, 1}
    BY <2>2, <2>3 DEF Failing
  <2>5. Told(p)' = 0
    BY <1>6, <1>8
  <2> QED
    BY <1>6, <2>4, <2>5
<1>9. CASE p # o
  <2>1. (\A w : ~Learns(p, w)) /\ (Checks(p) <=> Queued(p)) /\ RowOr(p)' = RowOr(p)
    BY <1>1, <1>3, <1>9, Sole DEF Asks
  <2>2. Failing(p)' <= Failing(p)
    BY <1>5, <1>6, <2>1, QuietFailing
  <2>3. Told(p)' = 0 /\ Failing(p) \in {0, 1} /\ Failing(p)' \in {0, 1}
    BY <1>6, <1>9 DEF Failing
  <2> QED
    BY <1>6, <2>2, <2>3
<1> QED
  BY <1>3, <1>7, <1>8, <1>9

(* Every other step but a DM. *)
LEMMA RestDue ==
    ASSUME Typed, ShapeInv, AwaitInv, NEW t \in Handlers, task[t] # <<>>, Step(t), NEW p \in PRs,
           ~RecheckChecks(t), ~\E lost : Answer(t, lost), UNCHANGED <<github, webhooks>>,
           StepAdds(t), ~GivesUp(t),
           \A u \in Handlers : u # t => task[u] = <<>> /\ task'[u] = <<>>
    PROVE  Told(p)' <= Told(p) /\ Failing(p)' <= Failing(p)
<1>0. /\ TasksOK /\ t \in Tasks /\ t # "startup" /\ Op(t).op # "recheck"
      /\ Op(t).op # "poll" /\ RowOr(p) \in Row
  <2>1. TasksOK /\ t \in Tasks /\ t # "startup" /\ RowOr(p) \in Row
    BY RowOrTyped, PrBotAssumption DEF Typed, Tasks
  <2>2. Op(t) = task[t][1] /\ 1 \in DOMAIN task[t]
    BY <2>1, TaskFields
  <2> QED
    BY <2>1, <2>2, StepOfHead DEF ShapeInv, GitHubOps
<1>1. Tells(t, p)' => Tells(t, p)
  <2>1. PICK ops \in Seq(OpSet) : Then(t, ops) /\ Adds(Op(t), ops)
    BY DEF StepAdds
  <2> QED
    BY <1>0, <2>1, LastIs
<1>2. ~Asks(t, p) /\ ~Asks(t, p)'
  BY <1>0, StepAsks DEF Asks
<1>3. Queued(p)' = Queued(p)
  BY DEF Queued
<1>4. Told(p)' <= Told(p) /\ (\A v : ~Learns(p, v) /\ ~Learns(p, v)') /\ (Checks(p)' => Checks(p))
  BY <1>1, <1>2, <1>3, Sole, SoleAfter
<1>5. ~PollPR(t)
  BY <1>0 DEF PollPR, Answered, At
<1>6. RowOr(p).failing => RowOr(p)'.failing
  <2>1. CASE SameFailing
    BY <2>1, Zenon DEF SameFailing
  <2>2. CASE FetchAndStore(t)
    <3>1. Op(t).op = "fetch"
      BY <2>2 DEF FetchAndStore, Answered, At
    <3>2. row[Op(t).pr] = None
      BY <3>1 DEF AwaitInv, GitHubOps
    <3>3. PICK q : q = Op(t).pr
      OBVIOUS
    <3>4. row' = row \/ \E r : row' = [row EXCEPT ![q] = r]
      BY <2>2, <3>3 DEF FetchAndStore
    <3>5. CASE p = q
      <4>1. RowOr(p).failing = FALSE
        BY <3>2, <3>3, <3>5 DEF RowOr, DefaultRow
      <4> QED
        BY <4>1, Zenon
    <3>6. CASE p # q
      <4>1. row'[p] = row[p]
        BY <3>4, <3>6 DEF Typed, TablesOK
      <4> QED
        BY <4>1, Zenon DEF RowOr
    <3> QED
      BY <3>5, <3>6
  <2> QED
    BY <1>0, <1>5, <2>1, <2>2, StepFailing DEF Typed
<1> QED
  BY <1>4, <1>6, QuietFailing

(* A DM is the last thing a handler does. *)
LEMMA DmDue ==
    ASSUME Typed, ShapeInv, NEW t \in Handlers, task[t] # <<>>, DmUser(t), trust' = "whole", NEW p \in PRs,
           \A u \in Handlers : u # t => task[u] = <<>> /\ task'[u] = <<>>
    PROVE  owed'[p] = owed[p] - Told(p) /\ Told(p)' = 0
<1>0. /\ TasksOK /\ t \in Tasks /\ Op(t).op = "dm" /\ Then(t, <<>>) /\ Owe({Op(t).pr}, -1)
      /\ owed \in [PRs -> Int]
  BY DEF Typed, Tasks, DmUser, At, HistoryOK
<1>1. Op(t) = task[t][1] /\ Len(task[t]) = 1
  <2>1. Op(t) = task[t][1] /\ 1 \in DOMAIN task[t]
    BY <1>0, TaskFields
  <2>2. task[t][1].op = "dm"
    BY <1>0, <2>1
  <2> QED
    BY <1>0, <2>1, <2>2 DEF ShapeInv
<1>2. task'[t] = <<>>
  <2>1. task'[t] \in Seq(OpSet) /\ Len(task'[t]) = Len(<<>>) + Len(task[t]) - 1
    BY <1>0, NoOps, TaskAfter
  <2>2. Len(task'[t]) = 0
    BY <1>1, <2>1, NoOps
  <2> QED
    BY <2>1, <2>2, EmptySeq
<1>3. Tells(t, p) <=> p = Op(t).pr
  BY <1>0, <1>1 DEF Tells
<1>4. Told(p)' = 0 /\ Told(p) = IF p = Op(t).pr THEN 1 ELSE 0
  BY <1>2, <1>3, Sole, SoleAfter DEF Tells
<1>5. owed'[p] = IF p = Op(t).pr THEN owed[p] + -1 ELSE owed[p]
  BY <1>0 DEF Owe
<1> QED
  BY <1>0, <1>4, <1>5

LEMMA StepDue ==
    ASSUME Typed, TrustInv, ShapeInv, DueInv, NEW t \in Tasks, task[t] # <<>>, Step(t)
    PROVE  DueInv'
<1>1. SUFFICES ASSUME trust' = "whole" PROVE AwaitInv' /\ OwedInv'
  BY DEF DueInv
<1>0. /\ TasksOK /\ HistoryOK /\ webhooks \in Seq(Events) /\ Tasks = Handlers \cup {"startup"}
      /\ Op(t) = task[t][1] /\ 1 \in DOMAIN task[t] /\ StepFrame(t)
  BY TaskFields, StepFrames DEF Typed, QueuesOK, Tasks
<1>2. CASE StartupComplete(t)
  <2>1. t = "startup"
    <3>1. task[t][1].op = "complete"
      BY <1>0, <1>2 DEF StartupComplete, At
    <3> QED
      BY <1>0, <3>1 DEF ShapeInv, Stages
  <2>2. trust = "healing" /\ Then(t, <<>>) /\ UNCHANGED <<owed, webhooks>>
    <3>1. trust \in {"whole", "healing"} /\ Then(t, <<>>) /\ UNCHANGED <<owed, webhooks>>
      BY <1>0, <1>1, <1>2 DEF StartupComplete, queues, HistoryOK
    <3> QED
      BY <2>1, <3>1 DEF TrustInv
  <2>3. webhooks' = <<>> /\ (\A u \in Handlers : task'[u] = <<>>) /\ \A p \in PRs : owed'[p] = 0
    <3>1. \A u \in Tasks : u # t => task'[u] = task[u]
      BY <1>0, <2>2, NoOps, TaskAfter
    <3> QED
      BY <1>0, <2>1, <2>2, <3>1, PrBotAssumption DEF TrustInv
  <2>4. AwaitInv'
    BY <2>3 DEF AwaitInv
  <2>5. ASSUME NEW p \in PRs
        PROVE  owed'[p] >= Cardinality(Worthy(p)') + Told(p)' + Failing(p)'
    <3>1. DOMAIN webhooks' = {}
      BY <2>3
    <3>2. Worthy(p)' = {} /\ ~Queued(p)'
      BY <3>1 DEF Worthy, Queued
    <3>3. (\A u \in Handlers : ~Tells(u, p)' /\ ~Asks(u, p)')
      BY <2>3 DEF Tells, Asks
    <3>4. Told(p)' = 0 /\ ~MayFail(p)'
      BY <3>2, <3>3, Zenon DEF Told, MayFail, Learns, Checks
    <3>5. Cardinality(Worthy(p)') = 0
      BY <3>2, FS_EmptySet
    <3> QED
      BY <2>3, <3>4, <3>5 DEF Failing
  <2> QED
    BY <2>4, <2>5 DEF OwedInv
<1>3. CASE ~StartupComplete(t)
  <2>1. trust = "whole" /\ AwaitInv /\ OwedInv
    <3>1. trust' \in {trust, "broken"}
      BY <1>3, StepMoves DEF Moves
    <3> QED
      BY <1>1, <3>1 DEF DueInv
  <2>2. t \in Handlers
    BY <1>0, <2>1 DEF TrustInv
  <2>3. /\ AwaitInv' /\ UNCHANGED <<github, webhooks>> /\ StepAdds(t) /\ ~GivesUp(t)
        /\ \A u \in Handlers : u # t => task[u] = <<>> /\ task'[u] = <<>>
    BY <1>1, <2>1, <2>2, StepAwaits
  <2>4. ASSUME NEW p \in PRs
        PROVE  owed'[p] >= Cardinality(Worthy(p)') + Told(p)' + Failing(p)'
    <3>1. /\ Worthy(p)' = Worthy(p) /\ Cardinality(Worthy(p)) \in Nat
          /\ owed[p] \in Int /\ owed[p] >= Cardinality(Worthy(p)) + Told(p) + Failing(p)
      <4>1. Worthy(p)' = Worthy(p)
        BY <2>3 DEF Worthy
      <4>2. Cardinality(Worthy(p)) \in Nat
        BY <1>0, WorthyFinite
      <4> QED
        BY <1>0, <2>1, <4>1, <4>2 DEF OwedInv, HistoryOK
    <3>2. Told(p) \in {0, 1} /\ Told(p)' \in {0, 1} /\ Failing(p) \in {0, 1} /\ Failing(p)' \in {0, 1}
      BY DEF Told, Failing
    <3>3. CASE DmUser(t)
      <4>1. owed'[p] = owed[p] - Told(p) /\ Told(p)' = 0
        BY <1>1, <2>2, <2>3, <3>3, DmDue
      <4>2. Op(t).op = "dm"
        BY <3>3 DEF DmUser, At
      <4>3. ~RecheckChecks(t) /\ ~\E lost : Answer(t, lost)
        BY <4>2 DEF RecheckChecks, Answered, At, Answer, GitHubOps
      <4>4. Failing(p)' <= Failing(p)
        BY <2>1, <2>2, <2>3, <4>3, RestDue
      <4> QED
        BY <3>1, <3>2, <4>1, <4>4
    <3>4. CASE ~DmUser(t)
      <4>1. owed'[p] = owed[p]
        BY <1>1, <1>3, <3>4, StepMoves DEF Owes
      <4>2. Told(p)' + Failing(p)' <= Told(p) + Failing(p)
        <5>1. CASE RecheckChecks(t)
          BY <2>1, <2>2, <2>3, <5>1, RecheckDue
        <5>2. CASE \E lost : Answer(t, lost)
          <6>1. Answer(t, {})
            BY <1>1, <5>2, StepMoves
          <6>2. Told(p)' <= Told(p) /\ Failing(p)' <= Failing(p)
            BY <2>1, <2>2, <2>3, <6>1, AnswerDue
          <6> QED
            BY <3>2, <6>2
        <5>3. CASE ~RecheckChecks(t) /\ ~\E lost : Answer(t, lost)
          <6>1. Told(p)' <= Told(p) /\ Failing(p)' <= Failing(p)
            BY <2>1, <2>2, <2>3, <5>3, RestDue
          <6> QED
            BY <3>2, <6>1
        <5> QED
          BY <5>1, <5>2, <5>3
      <4> QED
        BY <3>1, <3>2, <4>1, <4>2
    <3> QED
      BY <3>3, <3>4
  <2> QED
    BY <2>3, <2>4 DEF OwedInv
<1> QED
  BY <1>2, <1>3

(* What a handler that is started alone takes over is no longer queued. *)
LEMMA ReceiveDue ==
    ASSUME Typed, TrustInv, ShapeInv, DueInv, NEW t \in Handlers, Receive(t)
    PROVE  DueInv'
<1>1. SUFFICES ASSUME trust' = "whole" PROVE AwaitInv' /\ OwedInv'
  BY DEF DueInv
<1>2. trust = "whole" /\ Alone /\ (\A p \in PRs : owed'[p] = owed[p]) /\ OwedInv
  BY <1>1, ReceiveTrust DEF Owes, DueInv
<1>3. /\ TasksOK /\ webhooks \in Seq(Events) /\ HistoryOK /\ t \in Tasks
      /\ \A u \in Handlers : task[u] = <<>>
  BY <1>2 DEF Typed, QueuesOK, Alone, Idle, Tasks
<1>4. PICK ops \in Seq(OpSet) :
        /\ Starts(t, ops) /\ Begins(ops) /\ UNCHANGED github
        /\ \/ \E i \in DOMAIN webhooks : \E kind :
                Delivers(t, i, kind) /\ Writes(webhooks[i]) /\ Causes(webhooks[i], ops) /\ Heeds(webhooks[i], ops)
           \/ Only(ops, Plain) /\ Trusting(Alone, {}) /\ UNCHANGED <<webhooks, row>>
  BY ReceiveBegins DEF Begun
<1>5. task'[t] = ops /\ \A u \in Handlers : u # t => task[u] = <<>> /\ task'[u] = <<>>
  BY <1>3, <1>4 DEF Starts, TasksOK, Tasks
<1>6. task'[t] # <<>> => /\ 1 \in DOMAIN ops /\ Op(t)' = ops[1]
                         /\ Len(ops) \in DOMAIN ops /\ task'[t][Len(task'[t])] = ops[Len(ops)]
  <2>1. Len(ops) \in Nat /\ DOMAIN ops = 1..Len(ops) /\ (ops # <<>> => Len(ops) # 0)
    BY LenProperties, EmptySeq
  <2> QED
    BY <1>5, <2>1 DEF Op
<1>7. AwaitInv'
  <2>1. SUFFICES ASSUME NEW u \in Handlers, task'[u] # <<>>, Op(u)'.op \in GitHubOps
                 PROVE  Op(u)'.answer = None /\ Op(u)'.op # "fetch"
    BY DEF AwaitInv
  <2>2. u = t
    BY <1>5, <2>1
  <2>3. Op(t)' = ops[1] /\ 1 \in DOMAIN ops
    BY <1>6, <2>1, <2>2
  <2> QED
    BY <1>4, <2>1, <2>2, <2>3 DEF Begins, Plain, OnLabel, GitHubOps
<1>8. ASSUME NEW p \in PRs
      PROVE  /\ \A v : ~Learns(p, v) /\ ~Learns(p, v)'
             /\ Tells(t, p)' => /\ Len(ops) \in DOMAIN ops /\ ops[Len(ops)].op = "notify"
                                /\ ops[Len(ops)].pr = p /\ ops[Len(ops)].transitions # {}
             /\ Asks(t, p)' => 1 \in DOMAIN ops /\ ops[1].op = "recheck" /\ ops[1].pr = p
  <2>1. Asks(t, p)' => 1 \in DOMAIN ops /\ ops[1].op = "recheck" /\ ops[1].pr = p /\ Op(t)' = ops[1]
    BY <1>6 DEF Asks
  <2>2. Asks(t, p)' => Op(t)'.answer = None
    BY <1>4, <2>1 DEF Begins, GitHubOps
  <2>3. \A v : ~Learns(p, v) /\ ~Learns(p, v)'
    BY <1>3, <1>5, <2>2, NoneAlive, SoleAfter
  <2>4. Tells(t, p)' => /\ Len(ops) \in DOMAIN ops /\ ops[Len(ops)].op = "notify"
                        /\ ops[Len(ops)].pr = p /\ ops[Len(ops)].transitions # {}
    BY <1>4, <1>6 DEF Begins, Tells, Plain, OnLabel
  <2> QED
    BY <2>1, <2>3, <2>4
<1>9. ASSUME NEW p \in PRs
      PROVE  owed'[p] >= Cardinality(Worthy(p)') + Told(p)' + Failing(p)'
  <2>1. /\ Told(p) = 0 /\ (Checks(p) <=> Queued(p)) /\ Cardinality(Worthy(p)) \in Nat
        /\ Failing(p) \in {0, 1} /\ Failing(p)' \in {0, 1} /\ owed[p] \in Int /\ owed'[p] = owed[p]
    BY <1>2, <1>3, NoneAlive, WorthyFinite DEF Failing, HistoryOK
  <2>2. owed[p] >= Cardinality(Worthy(p)) + 0 + Failing(p)
    BY <1>2, <2>1 DEF OwedInv
  <2>3. /\ Told(p)' = (IF Tells(t, p)' THEN 1 ELSE 0)
        /\ Checks(p)' => Queued(p)' \/ Asks(t, p)'
    BY <1>5, SoleAfter
  <2>4. CASE \E i \in DOMAIN webhooks : \E kind :
                Delivers(t, i, kind) /\ Writes(webhooks[i]) /\ Causes(webhooks[i], ops) /\ Heeds(webhooks[i], ops)
    <3>1. PICK i \in DOMAIN webhooks : \E kind : Delivers(t, i, kind) /\ Writes(webhooks[i]) /\ Causes(webhooks[i], ops) /\ Heeds(webhooks[i], ops)
      BY <2>4
    <3>2. i = 1 /\ webhooks' = RemoveAt(webhooks, 1)
      <4>1. webhooks' = RemoveAt(webhooks, i) /\ Trusting(Alone /\ i = 1, {})
        BY <3>1 DEF Delivers
      <4> QED
        BY <1>1, <4>1, TrustingMoves
    <3>3. /\ Cardinality(Worthy(p)') \in Nat
          /\ Worth(webhooks[1], p) => Cardinality(Worthy(p)') + 1 <= Cardinality(Worthy(p))
          /\ ~Worth(webhooks[1], p) => Cardinality(Worthy(p)') <= Cardinality(Worthy(p))
          /\ Queued(p)' => Queued(p)
      BY <1>3, <3>1, <3>2, WorthyTaken
    <3>4. Tells(t, p)' => Worth(webhooks[1], p)
      BY <1>8, <3>1, <3>2 DEF Causes
    <3>5. Asks(t, p)' => Queued(p)
      BY <1>8, <3>1, <3>2 DEF Causes, Queued
    <3>6. Failing(p)' <= Failing(p)
      <4>1. RowOr(p).failing => RowOr(p)'.failing
        <5>1. SameFailing
          BY <3>1, WritesFailing
        <5> QED
          BY <5>1, Zenon DEF SameFailing
      <4>2. \A v : ~Learns(p, v) /\ ~Learns(p, v)'
        BY <1>8
      <4>3. (Checks(p)' => Checks(p)) /\ github'[p] = github[p]
        BY <1>4, <2>1, <2>3, <3>3, <3>5
      <4> QED
        BY <4>1, <4>2, <4>3, QuietFailing
    <3> QED
      BY <2>1, <2>2, <2>3, <3>3, <3>4, <3>6
  <2>5. CASE Only(ops, Plain) /\ UNCHANGED <<webhooks, row>>
    <3>1. ~Tells(t, p)' /\ ~Asks(t, p)'
      BY <1>8, <2>5 DEF Only, Plain
    <3>2. Worthy(p)' = Worthy(p) /\ Queued(p)' = Queued(p) /\ RowOr(p)' = RowOr(p)
      BY <2>5 DEF Worthy, Queued, RowOr
    <3>3. Failing(p)' <= Failing(p)
      <4>1. RowOr(p).failing => RowOr(p)'.failing
        BY <3>2, Zenon
      <4>2. \A v : ~Learns(p, v) /\ ~Learns(p, v)'
        BY <1>8
      <4>3. (Checks(p)' => Checks(p)) /\ github'[p] = github[p]
        BY <1>4, <2>1, <2>3, <3>1, <3>2
      <4> QED
        BY <4>1, <4>2, <4>3, QuietFailing
    <3> QED
      BY <2>1, <2>2, <2>3, <3>1, <3>2, <3>3
  <2> QED
    BY <1>4, <2>4, <2>5
<1> QED
  BY <1>7, <1>9 DEF OwedInv

LEMMA AsideDue ==
    ASSUME DueInv, UNCHANGED <<github, webhooks, row, task>>, Owes
    PROVE  DueInv'
<1>1. SUFFICES ASSUME trust' = "whole" PROVE AwaitInv' /\ OwedInv'
  BY DEF DueInv
<1>2. AwaitInv /\ OwedInv /\ \A p \in PRs : owed'[p] = owed[p]
  BY <1>1 DEF DueInv, Owes
<1>3. AwaitInv'
  BY <1>2 DEF AwaitInv, Op
<1>4. ASSUME NEW p \in PRs
      PROVE  Worthy(p)' = Worthy(p) /\ Told(p)' = Told(p) /\ Failing(p)' = Failing(p)
  <2>1. Worthy(p)' = Worthy(p) /\ Told(p)' = Told(p) /\ Queued(p)' = Queued(p) /\ RowOr(p)' = RowOr(p)
    BY DEF Worthy, Told, Tells, Queued, RowOr
  <2>2. Failing(p)' = Failing(p)
    BY DEF Failing, MayFail, Learns, Checks, Asks, Op, Queued, RowOr
  <2> QED
    BY <2>1, <2>2
<1> QED
  BY <1>2, <1>3, <1>4 DEF OwedInv

(* The cleanup that runs alone owes for every failing row it forgets. *)
LEMMA CleanupDue ==
    ASSUME Typed, TrustInv, ShapeInv, DueInv, RunCleanup
    PROVE  DueInv'
<1>1. SUFFICES ASSUME trust' = "whole" PROVE AwaitInv' /\ OwedInv'
  BY DEF DueInv
<1>2. /\ trust = "whole" /\ (\A u \in Handlers : task[u] = <<>>) /\ UNCHANGED <<github, webhooks, task>>
      /\ OwedInv /\ webhooks \in Seq(Events) /\ HistoryOK /\ TablesOK
      /\ \A p \in PRs : owed'[p] = IF p \in Forgotten THEN owed[p] + 1 ELSE owed[p]
  BY <1>1 DEF RunCleanup, Alone, Idle, Tasks, env, queues, Owe, DueInv, Typed, QueuesOK
<1>3. AwaitInv'
  BY <1>2 DEF AwaitInv
<1>4. ASSUME NEW p \in PRs
      PROVE  owed'[p] >= Cardinality(Worthy(p)') + Told(p)' + Failing(p)'
  <2>1. /\ (\A v : ~Learns(p, v) /\ ~Learns(p, v)') /\ (Checks(p)' => Checks(p))
        /\ Told(p) = 0 /\ Told(p)' = 0 /\ Worthy(p)' = Worthy(p)
    BY <1>2 DEF Learns, Checks, Told, Asks, Tells, Queued, Worthy
  <2>2. /\ Cardinality(Worthy(p)) \in Nat /\ owed[p] \in Int
        /\ Failing(p) \in {0, 1} /\ Failing(p)' \in {0, 1}
        /\ owed[p] >= Cardinality(Worthy(p)) + Told(p) + Failing(p)
    BY <1>2, WorthyFinite DEF OwedInv, HistoryOK, Failing
  <2>3. CASE p \in Forgotten
    BY <1>2, <2>1, <2>2, <2>3
  <2>4. CASE p \notin Forgotten
    <3>1. row'[p] = row[p] \/ row'[p] = None
      BY DEF RunCleanup, Cleaned
    <3>2. RowOr(p).failing => RowOr(p)'.failing
      <4>1. CASE row'[p] = row[p]
        BY <4>1, Zenon DEF RowOr
      <4>2. CASE row[p] = None
        <5>1. RowOr(p).failing = FALSE
          BY <4>2 DEF RowOr, DefaultRow
        <5> QED
          BY <5>1, Zenon
      <4>3. CASE row[p] # None /\ row'[p] = None
        <5>1. ~row[p].failing
          BY <2>4, <4>3, Zenon DEF Forgotten
        <5> QED
          BY <4>3, <5>1, Zenon DEF RowOr
      <4> QED
        BY <3>1, <4>1, <4>2, <4>3
    <3>3. Failing(p)' <= Failing(p)
      BY <1>2, <2>1, <3>2, QuietFailing
    <3> QED
      BY <1>2, <2>1, <2>2, <2>4, <3>3
  <2> QED
    BY <2>3, <2>4
<1> QED
  BY <1>3, <1>4 DEF OwedInv

LEMMA GitHubDue ==
    ASSUME Typed, TrustInv, ShapeInv, DueInv, NEW p \in PRs, GitHubChanges(p)
    PROVE  DueInv'
<1>1. SUFFICES ASSUME trust' = "whole" PROVE AwaitInv' /\ OwedInv'
  BY DEF DueInv
<1>2. PICK new \in OnGitHub, n \in {0, 1} :
         /\ github' = [github EXCEPT ![p] = new]
         /\ \A q \in PRs : owed'[q] = IF q = p THEN owed[q] + n ELSE owed[q]
         /\ \/ webhooks' = webhooks /\ (new.failing => github[p].failing \/ n = 1)
            \/ \E e \in Events : webhooks' = Append(webhooks, e) /\ Announces(e, p, new, n)
  BY <1>1, GitHubHappens DEF Happens
<1>3. /\ trust = "whole" /\ UNCHANGED <<row, task>> /\ AwaitInv /\ OwedInv
      /\ webhooks \in Seq(Events) /\ HistoryOK /\ GitHubOK
  <2>1. trust = "whole" /\ UNCHANGED <<row, task>>
    BY <1>1, GitHubHappens DEF Happens
  <2> QED
    BY <2>1 DEF DueInv, Typed, QueuesOK
<1>4. AwaitInv'
  BY <1>3 DEF AwaitInv, Op
<1>5. ASSUME NEW q \in PRs
      PROVE  owed'[q] >= Cardinality(Worthy(q)') + Told(q)' + Failing(q)'
  <2>1. /\ Cardinality(Worthy(q)) \in Nat /\ owed[q] \in Int
        /\ Failing(q) \in {0, 1} /\ Failing(q)' \in {0, 1} /\ Told(q) \in {0, 1}
        /\ owed[q] >= Cardinality(Worthy(q)) + Told(q) + Failing(q)
    BY <1>3, WorthyFinite DEF OwedInv, HistoryOK, Failing, Told
  <2>2. /\ Told(q)' = Told(q) /\ RowOr(q)' = RowOr(q) /\ (\A v : Learns(q, v)' <=> Learns(q, v))
        /\ (Queued(q)' => Queued(q)) => (Checks(q)' => Checks(q))
    BY <1>3 DEF Told, Tells, RowOr, Learns, Asks, Op, Checks
  <2>3. ASSUME github'[q].failing => github[q].failing, Queued(q)' => Queued(q)
        PROVE  Failing(q)' <= Failing(q)
    <3>1. MayFail(q)' => MayFail(q)
      BY <2>2, <2>3, Zenon DEF MayFail
    <3> QED
      BY <3>1 DEF Failing
  <2>4. ASSUME ~github'[q].failing
        PROVE  Failing(q)' <= Failing(q)
    <3>1. MayFail(q)' => MayFail(q)
      BY <2>2, <2>4, Zenon DEF MayFail
    <3> QED
      BY <3>1 DEF Failing
  <2>5. /\ q = p => github'[q] = new /\ owed'[q] = owed[q] + n
        /\ q # p => github'[q] = github[q] /\ owed'[q] = owed[q]
    BY <1>2, <1>3 DEF GitHubOK
  <2>6. CASE webhooks' = webhooks /\ (new.failing => github[p].failing \/ n = 1)
    <3>1. Worthy(q)' = Worthy(q) /\ (Queued(q)' => Queued(q))
      BY <2>6 DEF Worthy, Queued
    <3>2. (q = p /\ n = 1) \/ Failing(q)' <= Failing(q)
      <4>1. (q = p /\ n = 1) \/ (github'[q].failing => github[q].failing)
        BY <2>5, <2>6, Zenon
      <4> QED
        BY <2>3, <3>1, <4>1
    <3> QED
      BY <1>2, <2>1, <2>2, <2>5, <3>1, <3>2
  <2>7. CASE \E e \in Events : webhooks' = Append(webhooks, e) /\ Announces(e, p, new, n)
    <3>1. PICK e \in Events : webhooks' = Append(webhooks, e) /\ Announces(e, p, new, n)
      BY <2>7
    <3>2. /\ Cardinality(Worthy(q)') \in Nat
          /\ Worth(e, q) => Cardinality(Worthy(q)') <= Cardinality(Worthy(q)) + 1
          /\ ~Worth(e, q) => Cardinality(Worthy(q)') <= Cardinality(Worthy(q))
      BY <1>3, <3>1, WorthySent
    <3>3. ~(e.kind = "check" /\ e.pr = q) => (Queued(q)' => Queued(q))
      <4>1. SUFFICES ASSUME ~(e.kind = "check" /\ e.pr = q), NEW i \in DOMAIN webhooks',
                            webhooks'[i].kind = "check", webhooks'[i].pr = q
                     PROVE  Queued(q)
        BY DEF Queued
      <4>2. i \in DOMAIN webhooks /\ webhooks'[i] = webhooks[i]
        BY <1>3, <3>1, <4>1, AppendProperties, LenProperties
      <4> QED
        BY <4>1, <4>2 DEF Queued
    <3>4. CASE e.kind # "check"
      <4>1. new.failing = github[p].failing /\ (Worth(e, q) => q = p /\ n = 1)
        BY <3>1, <3>4 DEF Announces
      <4>2. github'[q].failing => github[q].failing
        BY <2>5, <4>1, Zenon
      <4>3. Failing(q)' <= Failing(q)
        BY <2>3, <3>3, <3>4, <4>2
      <4> QED
        BY <1>2, <2>1, <2>2, <2>5, <3>2, <4>1, <4>3
    <3>5. CASE e.kind = "check"
      <4>1. e.pr = p /\ (new.failing => n = 1) /\ ~Worth(e, q)
        BY <3>1, <3>5 DEF Announces, Worth
      <4>2. (q = p /\ n = 1) \/ Failing(q)' <= Failing(q)
        <5>1. CASE q = p /\ ~new.failing
          BY <2>4, <2>5, <5>1
        <5>2. CASE q # p
          <6>1. github'[q].failing => github[q].failing
            BY <2>5, <5>2, Zenon
          <6> QED
            BY <2>3, <3>3, <4>1, <5>2, <6>1
        <5> QED
          BY <4>1, <5>1, <5>2
      <4> QED
        BY <1>2, <2>1, <2>2, <2>5, <3>2, <4>1, <4>2
    <3> QED
      BY <3>4, <3>5
  <2> QED
    BY <1>2, <2>6, <2>7
<1> QED
  BY <1>4, <1>5 DEF OwedInv
-----------------------------------------------------------------------------
LEMMA InitDue == Init => DueInv
<1>1. SUFFICES ASSUME Init PROVE AwaitInv /\ OwedInv
  BY DEF DueInv
<1>2. (\A u \in Handlers : task[u] = <<>>) /\ webhooks = <<>> /\ \A p \in PRs : owed[p] = 0
  BY <1>1 DEF Init, Tasks
<1>3. ASSUME NEW p \in PRs PROVE Cardinality(Worthy(p)) = 0 /\ Told(p) = 0 /\ Failing(p) = 0
  <2>1. DOMAIN webhooks = {}
    BY <1>2
  <2>2. Worthy(p) = {} /\ ~Queued(p)
    BY <2>1 DEF Worthy, Queued
  <2>3. (\A v : ~Learns(p, v)) /\ ~Checks(p) /\ Told(p) = 0
    BY <1>2, <2>2, NoneAlive
  <2>4. ~MayFail(p)
    BY <2>3, Zenon DEF MayFail
  <2> QED
    BY <2>2, <2>3, <2>4, FS_EmptySet DEF Failing
<1> QED
  BY <1>2, <1>3 DEF AwaitInv, OwedInv

LEMMA NextDue ==
    ASSUME Typed, TrustInv, ShapeInv, DueInv, [Next]_vars
    PROVE  DueInv'
<1>1. ASSUME NEW t \in Tasks \ Idle, Step(t) PROVE DueInv'
  BY <1>1, StepDue DEF Idle
<1>2. CASE \E t \in Handlers \cap Idle : Receive(t)
  BY <1>2, ReceiveDue
<1>3. CASE OnDelete
  BY <1>3, AsideDue, TrustingMoves DEF OnDelete, TakesEvent, env
<1>4. CASE RunCleanup
  BY <1>4, CleanupDue
<1>5. CASE Crash \/ Restart
  <2>1. trust' # "whole"
    BY <1>5 DEF Crash, Restart, Trusting
  <2> QED
    BY <2>1 DEF DueInv
<1>6. ASSUME NEW p \in PRs, GitHubChanges(p) PROVE DueInv'
  BY <1>6, GitHubDue
<1>7. CASE \/ \E links \in Links : PostMessage(links) \/ \E m \in Messages : EditMessage(m, links)
           \/ \E m \in Messages : DeleteMessage(m) \/ GrowOld(m)
  BY <1>7, UsersAside, StillMoves, AsideDue
<1>8. CASE UNCHANGED vars
  BY <1>8, StillMoves, AsideDue DEF vars, env, queues, tables, history
<1> QED
  BY <1>1, <1>2, <1>3, <1>4, <1>5, <1>6, <1>7, <1>8 DEF Next

LEMMA DueStands == Spec => []DueInv
<1>1. Init => DueInv
  BY InitDue
<1>2. Typed /\ TrustInv /\ ShapeInv /\ DueInv /\ [Next]_vars => DueInv'
  BY NextDue
<1> QED
  BY <1>1, <1>2, TypedStands, TrustStands, PTL DEF Spec

(* As long as tasks take turns and nothing fails, and again after the      *)
(* first undisturbed startup pass, the poster of a PR never gets more DMs  *)
(* than there were changes worth one, however many messages link the PR,   *)
(* whatever the webhooks, the gateway, the cleanup and the startup pass    *)
(* do in between (handle_pr_event and _startup_poll_pr in pr-bot/bot.py).  *)
THEOREM NoExtraDmCorrect == Spec => []NoExtraDm
<1>1. Typed /\ TrustInv /\ ShapeInv /\ DueInv => NoExtraDm
  <2>1. SUFFICES ASSUME Typed, TrustInv, DueInv, NEW p \in PRs PROVE owed[p] >= 0
    BY DEF NoExtraDm
  <2>2. CASE trust = "whole"
    <3>1. /\ Cardinality(Worthy(p)) \in Nat /\ owed[p] \in Int
          /\ Failing(p) \in {0, 1} /\ Told(p) \in {0, 1}
          /\ owed[p] >= Cardinality(Worthy(p)) + Told(p) + Failing(p)
      BY <2>1, <2>2, WorthyFinite DEF DueInv, OwedInv, Typed, QueuesOK, HistoryOK, Failing, Told
    <3> QED
      BY <3>1
  <2>3. CASE trust # "whole"
    BY <2>1, <2>3 DEF TrustInv
  <2> QED
    BY <2>2, <2>3
<1> QED
  BY <1>1, TypedStands, TrustStands, DueStands, PTL
-----------------------------------------------------------------------------
(* The rows of the PRs that were fetched.  What GitHub says of a PR now is *)
(* what its row says after the webhooks on their way and the handler alive *)
(* have done their part.                                                   *)

About(p, kind) == {i \in DOMAIN webhooks : webhooks[i].kind = kind /\ webhooks[i].pr = p}
IsLast(i, s) == i \in s /\ \A j \in s : j <= i

(* Reviews: the last decisive one counts, or else a comment. *)
Decisions(p) == {i \in About(p, "review") : webhooks[i].review \in Decisive}
Commented(p, i) == \E j \in About(p, "review") : j > i /\ webhooks[j].review = "commented"
ReviewSent(p) ==
    /\ \A i \in DOMAIN webhooks : IsLast(i, Decisions(p)) =>
         Truth(p).review = IF webhooks[i].review # "dismissed" THEN webhooks[i].review
                           ELSE IF Commented(p, i) THEN "commented" ELSE "none"
    /\ Decisions(p) = {} /\ Commented(p, 0) => Truth(p).review # "none"
ReviewLeads(p, status) ==
    Decisions(p) = {} =>
        Truth(p).review = IF status = "none" /\ Commented(p, 0) THEN "commented" ELSE status

(* A PR ends once. *)
LifeSent(p) == \A i \in About(p, "close") : webhooks[i].life = Truth(p).life
LifeLeads(p, life) == About(p, "close") = {} => life = Truth(p).life

(* The handler of a label event stores what the event said when it ends. *)
Pending(p) ==
    {o \in LabelOps : o.pr = p /\ \E t \in Handlers : \E i \in DOMAIN task[t] : task[t][i] = o}
ReadySent(p) ==
    /\ \A i \in DOMAIN webhooks : IsLast(i, About(p, "label")) => webhooks[i].ready = Truth(p).ready
    /\ About(p, "label") = {} => \A o \in Pending(p) : o.ready = Truth(p).ready
ReadyLeads(p, ready) == About(p, "label") = {} /\ Pending(p) = {} => ready = Truth(p).ready

(* Checks and threads are asked for, and the answer then is up to date,    *)
(* unless another webhook about them is on its way by now.                 *)
Asking(p, ops) == {t \in Handlers : task[t] # <<>> /\ Op(t).op \in ops /\ Op(t).pr = p}
FailingLeads(p, failing) ==
    \/ About(p, "check") # {}
    \/ IF Asking(p, {"recheck"}) = {} THEN failing = Truth(p).failing
       ELSE \A t \in Asking(p, {"recheck"}) :
              Op(t).answer # None => Op(t).answer.row.failing = Truth(p).failing
Threaded(p) == About(p, "thread") \cup
               {i \in About(p, "review") : webhooks[i].review \notin {"approved", "dismissed"}}
ResolvedLeads(p, resolved) ==
    \/ Truth(p).review # "commented" \/ Threaded(p) # {}
    \/ IF Asking(p, {"threads", "rethread"}) = {} THEN resolved = Truth(p).resolved
       ELSE \A t \in Asking(p, {"threads", "rethread"}) :
              Op(t).answer # None => Op(t).answer.row.resolved = Truth(p).resolved

Sent(p) == ReviewSent(p) /\ LifeSent(p) /\ ReadySent(p)
Leads(p, r) == /\ ReviewLeads(p, r.review) /\ LifeLeads(p, r.life) /\ ReadyLeads(p, r.ready)
               /\ FailingLeads(p, r.failing) /\ ResolvedLeads(p, r.resolved)

FillInv == \A p \in filled : row[p] # None /\ MessagesFor(p) # {}
RowsInv == trust = "whole" =>
    /\ \A p \in PRs : Sent(p)
    /\ \A p \in filled : Leads(p, RowOr(p))
    /\ \A t \in Handlers : task[t] # <<>> =>
         /\ Op(t).op = "fetch" /\ Op(t).answer # None => Leads(Op(t).pr, Op(t).answer.row)
         /\ Op(t).op = "threads" => Op(t).known = RowOr(Op(t).pr).resolved

(* The startup pass on its own: every answer is the truth, and so is every *)
(* row fetched or polled, while the rows to poll are still as listed.      *)
HealOps ==
    \A i \in DOMAIN task["startup"] :
        LET o == task["startup"][i] IN
        /\ o.op \in GitHubOps /\ o.answer # None =>
             i = 1 /\ o.answer = [row |-> Truth(o.pr), lost |-> {}]
        /\ o.op = "fetch" => i = 1 /\ row[o.pr] = None
        /\ o.op = "poll" => row[o.pr] \in {o.known, Truth(o.pr)}
        /\ o.op \notin {"labels", "author", "threads", "rethread", "recheck"}
HealInv == trust = "healing" => HealOps /\ \A p \in filled : row[p] = Truth(p)
-----------------------------------------------------------------------------
(* How the queue leads to the truth as it is taken from and added to. *)

LEMMA Shifted ==
    ASSUME webhooks \in Seq(Events), 1 \in DOMAIN webhooks, webhooks' = RemoveAt(webhooks, 1)
    PROVE  /\ Len(webhooks) \in Nat \ {0} /\ DOMAIN webhooks = 1..Len(webhooks)
           /\ DOMAIN webhooks' = 1..(Len(webhooks) - 1)
           /\ \A i \in 1..(Len(webhooks) - 1) : webhooks'[i] = webhooks[i + 1]
           /\ webhooks[1] \in Events
<1> DEFINE n == Len(webhooks)
<1>1. n \in Nat \ {0} /\ DOMAIN webhooks = 1..n
  BY LenProperties
<1>2. webhooks' = SubSeq(webhooks, 1, 0) \o SubSeq(webhooks, 2, n)
  BY <1>1 DEF RemoveAt
<1>3. /\ SubSeq(webhooks, 1, 0) = <<>>
      /\ SubSeq(webhooks, 2, n) \in Seq(Events) /\ Len(SubSeq(webhooks, 2, n)) = n - 1
      /\ \A i \in 1..(n - 1) : SubSeq(webhooks, 2, n)[i] = webhooks[i + 1]
  BY <1>1, SubSeqProperties
<1>4. webhooks' = SubSeq(webhooks, 2, n)
  BY <1>2, <1>3, ConcatEmptySeq
<1>5. webhooks[1] \in Events
  BY <1>1, ElementOfSeq
<1> QED
  BY <1>1, <1>3, <1>4, <1>5, LenProperties

(* The set of the positions of some kind, after the first event is taken. *)
LEMMA AboutTaken ==
    ASSUME webhooks \in Seq(Events), 1 \in DOMAIN webhooks, webhooks' = RemoveAt(webhooks, 1), NEW p, NEW kind
    PROVE  /\ About(p, kind) \subseteq Nat \ {0} /\ About(p, kind)' \subseteq Nat \ {0}
           /\ \A i \in Nat \ {0} : i \in About(p, kind)' <=> i + 1 \in About(p, kind)
           /\ \A i \in About(p, kind)' : webhooks'[i] = webhooks[i + 1]
           /\ \A i \in About(p, kind) : i = 1 \/ i - 1 \in About(p, kind)'
<1> DEFINE n == Len(webhooks)
<1>1. /\ n \in Nat \ {0} /\ DOMAIN webhooks = 1..n
      /\ DOMAIN webhooks' = 1..(n - 1) /\ \A i \in 1..(n - 1) : webhooks'[i] = webhooks[i + 1]
  BY Shifted
<1> HIDE DEF n
<1>2. \A i \in Nat \ {0} : i \in About(p, kind)' <=> i + 1 \in About(p, kind)
  <2>1. ASSUME NEW i \in Nat \ {0} PROVE i \in About(p, kind)' <=> i + 1 \in About(p, kind)
    <3>1. i \in 1..(n - 1) <=> i + 1 \in 1..n
      BY <1>1
    <3> QED
      BY <1>1, <3>1 DEF About
  <2> QED
    BY <2>1
<1>3. About(p, kind) \subseteq 1..n /\ About(p, kind)' \subseteq 1..(n - 1)
  BY <1>1 DEF About
<1>4. ASSUME NEW i \in About(p, kind), i # 1 PROVE i - 1 \in About(p, kind)'
  <2>1. i - 1 \in Nat \ {0} /\ (i - 1) + 1 = i
    BY <1>1, <1>3, <1>4
  <2> QED
    BY <1>2, <1>4, <2>1
<1>5. About(p, kind) \subseteq Nat \ {0} /\ About(p, kind)' \subseteq Nat \ {0}
  <2>1. 1..n \subseteq Nat \ {0} /\ 1..(n - 1) \subseteq Nat \ {0}
    BY <1>1
  <2> QED
    BY <1>3, <2>1
<1>6. \A i \in About(p, kind)' : webhooks'[i] = webhooks[i + 1]
  BY <1>1, <1>3
<1> QED
  BY <1>2, <1>4, <1>5, <1>6

LEMMA ReviewTaken ==
    ASSUME webhooks \in Seq(Events), 1 \in DOMAIN webhooks, webhooks' = RemoveAt(webhooks, 1),
           github' = github, NEW p, ReviewSent(p), NEW status,
           NEW after, after = IF 1 \in About(p, "review") THEN Reviewed(status, webhooks[1].review) ELSE status
    PROVE  ReviewSent(p)' /\ (ReviewLeads(p, status) => ReviewLeads(p, after)')
<1> DEFINE T == Truth(p).review
<1>1. /\ About(p, "review") \subseteq Nat \ {0} /\ About(p, "review")' \subseteq Nat \ {0}
      /\ \A i \in Nat \ {0} : i \in About(p, "review")' <=> i + 1 \in About(p, "review")
      /\ \A i \in About(p, "review")' : webhooks'[i] = webhooks[i + 1]
      /\ \A i \in About(p, "review") : i = 1 \/ i - 1 \in About(p, "review")'
  BY AboutTaken
<1>2. T' = T
  BY DEF Truth
<1>3. /\ Decisions(p) \subseteq Nat \ {0} /\ Decisions(p)' \subseteq Nat \ {0}
      /\ \A i \in Nat \ {0} : i \in Decisions(p)' <=> i + 1 \in Decisions(p)
      /\ \A i \in Decisions(p) : i = 1 \/ i - 1 \in Decisions(p)'
      /\ 1 \in Decisions(p) <=> 1 \in About(p, "review") /\ webhooks[1].review \in Decisive
  <2>1. Decisions(p) \subseteq About(p, "review") /\ Decisions(p)' \subseteq About(p, "review")'
    BY DEF Decisions
  <2>2. \A i \in Nat \ {0} : i \in Decisions(p)' <=> i + 1 \in Decisions(p)
    BY <1>1 DEF Decisions
  <2>3. ASSUME NEW i \in Decisions(p), i # 1 PROVE i - 1 \in Decisions(p)'
    <3>1. i - 1 \in Nat \ {0} /\ (i - 1) + 1 = i
      BY <1>1, <2>1, <2>3
    <3> QED
      BY <2>2, <2>3, <3>1
  <2> QED
    BY <1>1, <2>1, <2>2, <2>3 DEF Decisions
<1>4. \A i \in Nat : Commented(p, i)' <=> Commented(p, i + 1)
  <2>1. ASSUME NEW i \in Nat, NEW j \in About(p, "review")', j > i, webhooks'[j].review = "commented"
        PROVE  Commented(p, i + 1)
    <3>1. j \in Nat \ {0}
      BY <1>1
    <3>2. j + 1 \in About(p, "review") /\ webhooks[j + 1].review = "commented"
      BY <1>1, <2>1, <3>1
    <3>3. j + 1 > i + 1
      BY <2>1, <3>1
    <3> QED
      BY <3>2, <3>3 DEF Commented
  <2>2. ASSUME NEW i \in Nat, NEW j \in About(p, "review"), j > i + 1, webhooks[j].review = "commented"
        PROVE  Commented(p, i)'
    <3>1. j \in Nat \ {0} /\ j # 1
      BY <1>1, <2>2
    <3>2. j - 1 \in About(p, "review")'
      BY <1>1, <3>1
    <3>3. j - 1 > i /\ (j - 1) + 1 = j
      BY <2>2, <3>1
    <3>4. webhooks'[j - 1] = webhooks[j]
      BY <1>1, <3>2, <3>3
    <3> QED
      BY <2>2, <3>2, <3>3, <3>4 DEF Commented
  <2> QED
    BY <2>1, <2>2 DEF Commented
<1>5. Commented(p, 0) <=> Commented(p, 1) \/ (1 \in About(p, "review") /\ webhooks[1].review = "commented")
  BY <1>1 DEF Commented
<1>6. ASSUME NEW i \in DOMAIN webhooks', IsLast(i, Decisions(p))'
      PROVE  T = IF webhooks'[i].review # "dismissed" THEN webhooks'[i].review
                 ELSE IF Commented(p, i)' THEN "commented" ELSE "none"
  <2>1. i \in Decisions(p)' /\ i \in Nat \ {0} /\ i \in About(p, "review")'
    BY <1>3, <1>6 DEF IsLast, Decisions
  <2>2. i + 1 \in Decisions(p) /\ i + 1 \in DOMAIN webhooks /\ webhooks'[i] = webhooks[i + 1]
    BY <1>1, <1>3, <2>1 DEF Decisions, About
  <2>3. ASSUME NEW j \in Decisions(p) PROVE j <= i + 1
    <3>1. CASE j = 1
      BY <2>1, <3>1
    <3>2. CASE j # 1
      <4>1. j - 1 <= i
        BY <1>3, <1>6, <3>2 DEF IsLast
      <4> QED
        BY <1>3, <2>1, <4>1
    <3> QED
      BY <3>1, <3>2
  <2>4. IsLast(i + 1, Decisions(p))
    BY <2>2, <2>3 DEF IsLast
  <2> QED
    BY <1>4, <2>1, <2>2, <2>4 DEF ReviewSent
<1>7. CASE Decisions(p)' = {} /\ 1 \in Decisions(p)
  <2>1. IsLast(1, Decisions(p))
    BY <1>3, <1>7 DEF IsLast
  <2>2. T = IF webhooks[1].review # "dismissed" THEN webhooks[1].review
            ELSE IF Commented(p, 1) THEN "commented" ELSE "none"
    BY <2>1 DEF ReviewSent
  <2>3. webhooks[1].review \in Decisive /\ 1 \in About(p, "review")
    BY <1>3, <1>7
  <2>4. Commented(p, 0)' <=> Commented(p, 1)
    BY <1>4
  <2>5. Commented(p, 0)' => T # "none"
    BY <2>2, <2>3, <2>4 DEF Decisive
  <2>6. after = IF webhooks[1].review = "dismissed" THEN "none" ELSE webhooks[1].review
    BY <2>3 DEF Reviewed, Decisive
  <2>7. T = IF after = "none" /\ Commented(p, 0)' THEN "commented" ELSE after
    BY <2>2, <2>3, <2>4, <2>6 DEF Decisive
  <2> QED
    BY <1>2, <1>6, <2>5, <2>7 DEF ReviewSent, ReviewLeads
<1>8. CASE Decisions(p)' = {} /\ 1 \notin Decisions(p)
  <2>1. Decisions(p) = {}
    BY <1>3, <1>8
  <2>2. Commented(p, 0)' => T # "none"
    BY <1>4, <1>5, <2>1 DEF ReviewSent
  <2>3. ReviewLeads(p, status) => T = IF after = "none" /\ Commented(p, 0)' THEN "commented" ELSE after
    <3>1. SUFFICES ASSUME T = IF status = "none" /\ Commented(p, 0) THEN "commented" ELSE status
                   PROVE  T = IF after = "none" /\ Commented(p, 0)' THEN "commented" ELSE after
      BY <2>1 DEF ReviewLeads
    <3>2. Commented(p, 0)' <=> Commented(p, 1)
      BY <1>4
    <3>3. CASE 1 \notin About(p, "review")
      BY <1>5, <3>1, <3>2, <3>3
    <3>4. CASE 1 \in About(p, "review")
      <4>1. webhooks[1].review \notin Decisive
        BY <1>3, <1>8, <3>4
      <4>2. after = IF status = "none" /\ webhooks[1].review = "commented" THEN "commented" ELSE status
        BY <3>4, <4>1 DEF Reviewed, Decisive
      <4> QED
        BY <1>5, <3>1, <3>2, <3>4, <4>2
    <3> QED
      BY <3>3, <3>4
  <2> QED
    BY <1>2, <1>6, <2>2, <2>3 DEF ReviewSent, ReviewLeads
<1>9. CASE Decisions(p)' # {}
  BY <1>2, <1>6, <1>9 DEF ReviewSent, ReviewLeads
<1> QED
  BY <1>7, <1>8, <1>9

LEMMA LifeTaken ==
    ASSUME webhooks \in Seq(Events), 1 \in DOMAIN webhooks, webhooks' = RemoveAt(webhooks, 1),
           github' = github, NEW p, LifeSent(p), NEW life,
           NEW after, after = IF 1 \in About(p, "close") THEN webhooks[1].life ELSE life
    PROVE  LifeSent(p)' /\ (LifeLeads(p, life) => LifeLeads(p, after)')
<1>1. /\ About(p, "close") \subseteq Nat \ {0} /\ About(p, "close")' \subseteq Nat \ {0}
      /\ \A i \in Nat \ {0} : i \in About(p, "close")' <=> i + 1 \in About(p, "close")
      /\ \A i \in About(p, "close")' : webhooks'[i] = webhooks[i + 1]
      /\ \A i \in About(p, "close") : i = 1 \/ i - 1 \in About(p, "close")'
  BY AboutTaken
<1>2. Truth(p).life' = Truth(p).life
  BY DEF Truth
<1>3. LifeSent(p)'
  BY <1>1, <1>2 DEF LifeSent
<1>4. ASSUME LifeLeads(p, life), About(p, "close")' = {} PROVE after = Truth(p).life
  <2>1. CASE 1 \in About(p, "close")
    BY <2>1 DEF LifeSent
  <2>2. CASE 1 \notin About(p, "close")
    BY <1>1, <1>4, <2>2 DEF LifeLeads
  <2> QED
    BY <2>1, <2>2
<1> QED
  BY <1>2, <1>3, <1>4 DEF LifeLeads

LEMMA ReadyTaken ==
    ASSUME webhooks \in Seq(Events), 1 \in DOMAIN webhooks, webhooks' = RemoveAt(webhooks, 1),
           github' = github, NEW p, ReadySent(p), Pending(p) = {}, NEW ready,
           1 \notin About(p, "label") => Pending(p)' = {},
           1 \in About(p, "label") =>
             Pending(p)' # {} /\ \A o \in Pending(p)' : o.ready = webhooks[1].ready
    PROVE  ReadySent(p)' /\ (ReadyLeads(p, ready) => ReadyLeads(p, ready)')
<1>1. /\ About(p, "label") \subseteq Nat \ {0} /\ About(p, "label")' \subseteq Nat \ {0}
      /\ \A i \in Nat \ {0} : i \in About(p, "label")' <=> i + 1 \in About(p, "label")
      /\ \A i \in About(p, "label")' : webhooks'[i] = webhooks[i + 1]
      /\ \A i \in About(p, "label") : i = 1 \/ i - 1 \in About(p, "label")'
  BY AboutTaken
<1>2. Truth(p).ready' = Truth(p).ready
  BY DEF Truth
<1>3. ASSUME NEW i \in DOMAIN webhooks', IsLast(i, About(p, "label"))'
      PROVE  webhooks'[i].ready = Truth(p).ready
  <2>1. i \in About(p, "label")' /\ i \in Nat \ {0}
    BY <1>1, <1>3 DEF IsLast
  <2>2. i + 1 \in About(p, "label") /\ webhooks'[i] = webhooks[i + 1]
    BY <1>1, <2>1
  <2>3. ASSUME NEW j \in About(p, "label") PROVE j <= i + 1
    <3>1. CASE j = 1
      BY <2>1, <3>1
    <3>2. CASE j # 1
      <4>1. j - 1 <= i
        BY <1>1, <1>3, <3>2 DEF IsLast
      <4> QED
        BY <1>1, <2>1, <4>1
    <3> QED
      BY <3>1, <3>2
  <2>4. IsLast(i + 1, About(p, "label")) /\ i + 1 \in DOMAIN webhooks
    BY <2>2, <2>3 DEF IsLast, About
  <2> QED
    BY <2>2, <2>4 DEF ReadySent
<1>4. ASSUME About(p, "label")' = {}, NEW o \in Pending(p)' PROVE o.ready = Truth(p).ready
  <2>1. 1 \in About(p, "label") /\ o.ready = webhooks[1].ready
    BY <1>4
  <2>2. \A j \in About(p, "label") : j = 1
    BY <1>1, <1>4
  <2>3. IsLast(1, About(p, "label")) /\ 1 \in DOMAIN webhooks
    BY <2>1, <2>2 DEF IsLast
  <2> QED
    BY <2>1, <2>3 DEF ReadySent
<1>5. ReadySent(p)'
  BY <1>2, <1>3, <1>4 DEF ReadySent
<1>6. ASSUME ReadyLeads(p, ready), About(p, "label")' = {}, Pending(p)' = {} PROVE ready = Truth(p).ready
  BY <1>1, <1>6 DEF ReadyLeads
<1> QED
  BY <1>2, <1>5, <1>6 DEF ReadyLeads

LEMMA FailingTaken ==
    ASSUME webhooks \in Seq(Events), 1 \in DOMAIN webhooks, webhooks' = RemoveAt(webhooks, 1),
           github' = github, NEW p, Asking(p, {"recheck"}) = {}, NEW failing,
           1 \notin About(p, "check") => Asking(p, {"recheck"})' = {},
           1 \in About(p, "check") =>
             Asking(p, {"recheck"})' # {} /\ (\A t \in Asking(p, {"recheck"}) : Op(t).answer = None)'
    PROVE  FailingLeads(p, failing) => FailingLeads(p, failing)'
<1>1. \A i \in About(p, "check") : i = 1 \/ i - 1 \in About(p, "check")'
  BY AboutTaken
<1>2. Truth(p).failing' = Truth(p).failing
  BY DEF Truth
<1>3. CASE 1 \in About(p, "check")
  BY <1>3 DEF FailingLeads
<1>4. CASE 1 \notin About(p, "check")
  BY <1>1, <1>2, <1>4 DEF FailingLeads
<1> QED
  BY <1>3, <1>4

LEMMA ResolvedTaken ==
    ASSUME webhooks \in Seq(Events), 1 \in DOMAIN webhooks, webhooks' = RemoveAt(webhooks, 1),
           github' = github, NEW p, Asking(p, {"threads", "rethread"}) = {}, NEW resolved,
           1 \notin Threaded(p) => Asking(p, {"threads", "rethread"})' = {},
           1 \in Threaded(p) =>
             /\ Asking(p, {"threads", "rethread"})' # {}
             /\ (\A t \in Asking(p, {"threads", "rethread"}) : Op(t).answer = None)'
    PROVE  ResolvedLeads(p, resolved) => ResolvedLeads(p, resolved)'
<1>1. \A i \in Threaded(p) : i = 1 \/ i - 1 \in Threaded(p)'
  <2>1. \A i \in About(p, "thread") : i = 1 \/ i - 1 \in About(p, "thread")'
    BY AboutTaken
  <2>2. /\ \A i \in About(p, "review") : i = 1 \/ i - 1 \in About(p, "review")'
        /\ \A i \in About(p, "review")' : webhooks'[i] = webhooks[i + 1]
        /\ About(p, "review") \subseteq Nat \ {0}
    BY AboutTaken
  <2>3. ASSUME NEW i \in About(p, "review"), webhooks[i].review \notin {"approved", "dismissed"}, i # 1
        PROVE  i - 1 \in Threaded(p)'
    <3>1. i - 1 \in About(p, "review")' /\ (i - 1) + 1 = i
      BY <2>2, <2>3
    <3>2. webhooks'[i - 1] = webhooks[i]
      BY <2>2, <3>1
    <3> QED
      BY <2>3, <3>1, <3>2 DEF Threaded
  <2> QED
    BY <2>1, <2>3 DEF Threaded
<1>2. Truth(p).resolved' = Truth(p).resolved /\ Truth(p).review' = Truth(p).review
  BY DEF Truth
<1>3. CASE 1 \in Threaded(p)
  BY <1>3 DEF ResolvedLeads
<1>4. CASE 1 \notin Threaded(p)
  BY <1>1, <1>2, <1>4 DEF ResolvedLeads
<1> QED
  BY <1>3, <1>4

(* An event about one PR leaves the others' alone, and so does a step of a *)
(* task what leads to the truth of the columns it does not write.          *)
Same(p, kind) == About(p, kind)' = About(p, kind) /\ \A i \in About(p, kind) : webhooks'[i] = webhooks[i]

LEMMA StillReview ==
    ASSUME NEW p, Same(p, "review"), Truth(p).review' = Truth(p).review
    PROVE  /\ ReviewSent(p) => ReviewSent(p)'
           /\ \A status : ReviewLeads(p, status) => ReviewLeads(p, status)'
<1>1. Decisions(p)' = Decisions(p) /\ \A i \in Decisions(p) : webhooks'[i] = webhooks[i] /\ i \in DOMAIN webhooks
  BY DEF Same, Decisions, About
<1>2. \A i : Commented(p, i)' <=> Commented(p, i)
  BY DEF Same, Commented
<1>3. \A i : IsLast(i, Decisions(p))' <=> IsLast(i, Decisions(p))
  BY <1>1 DEF IsLast
<1>4. ASSUME ReviewSent(p) PROVE ReviewSent(p)'
  <2>1. \A i : IsLast(i, Decisions(p)) => i \in Decisions(p)
    BY DEF IsLast
  <2> QED
    BY <1>1, <1>2, <1>3, <1>4, <2>1 DEF ReviewSent
<1> QED
  BY <1>1, <1>2, <1>4 DEF ReviewLeads

LEMMA StillLife ==
    ASSUME NEW p, Same(p, "close"), Truth(p).life' = Truth(p).life
    PROVE  /\ LifeSent(p) => LifeSent(p)'
           /\ \A life : LifeLeads(p, life) => LifeLeads(p, life)'
  BY DEF Same, LifeSent, LifeLeads

LEMMA StillReady ==
    ASSUME NEW p, Same(p, "label"), Truth(p).ready' = Truth(p).ready, Pending(p)' \subseteq Pending(p)
    PROVE  /\ ReadySent(p) => ReadySent(p)'
           /\ Pending(p) \subseteq Pending(p)' => \A ready : ReadyLeads(p, ready) => ReadyLeads(p, ready)'
<1>1. \A i : IsLast(i, About(p, "label"))' <=> IsLast(i, About(p, "label"))
  BY DEF Same, IsLast
<1>2. \A i : IsLast(i, About(p, "label")) => i \in About(p, "label") /\ i \in DOMAIN webhooks
  BY DEF IsLast, About
<1>3. ReadySent(p) => ReadySent(p)'
  BY <1>1, <1>2 DEF Same, ReadySent
<1> QED
  BY <1>3 DEF Same, ReadyLeads

LEMMA StillFailing ==
    ASSUME NEW p, About(p, "check") # {} => About(p, "check")' # {}, Truth(p).failing' = Truth(p).failing,
           UNCHANGED task
    PROVE  \A failing : FailingLeads(p, failing) => FailingLeads(p, failing)'
<1>1. Asking(p, {"recheck"})' = Asking(p, {"recheck"}) /\ \A t : Op(t)' = Op(t)
  BY DEF Asking, Op
<1> QED
  BY <1>1 DEF FailingLeads

LEMMA StillResolved ==
    ASSUME NEW p, Threaded(p) # {} => Threaded(p)' # {}, Truth(p).resolved' = Truth(p).resolved,
           Truth(p).review # "commented" => Truth(p).review' # "commented", UNCHANGED task
    PROVE  \A resolved : ResolvedLeads(p, resolved) => ResolvedLeads(p, resolved)'
<1>1. /\ Asking(p, {"threads", "rethread"})' = Asking(p, {"threads", "rethread"})
      /\ \A t : Op(t)' = Op(t)
  BY DEF Asking, Op
<1> QED
  BY <1>1 DEF ResolvedLeads

LEMMA EventSent ==
    ASSUME webhooks \in Seq(Events), NEW e \in Events, webhooks' = Append(webhooks, e)
    PROVE  \E n \in Nat \ {0} :
             /\ DOMAIN webhooks = 1..(n - 1) /\ DOMAIN webhooks' = 1..(n - 1) \cup {n}
             /\ webhooks'[n] = e
             /\ \A i \in 1..(n - 1) : webhooks'[i] = webhooks[i] /\ i \in Nat \ {0} /\ i < n
<1>0. PICK n : n = Len(webhooks) + 1
  OBVIOUS
<1>1. Len(webhooks) \in Nat /\ DOMAIN webhooks = 1..Len(webhooks) /\ n - 1 = Len(webhooks) /\ n \in Nat \ {0}
  BY <1>0, LenProperties
<1>2. /\ Len(webhooks') = Len(webhooks) + 1 /\ webhooks' \in Seq(Events)
      /\ \A i \in 1..Len(webhooks) : webhooks'[i] = webhooks[i]
      /\ webhooks'[Len(webhooks) + 1] = e
  BY AppendProperties
<1>3. DOMAIN webhooks' = 1..n
  BY <1>0, <1>2, LenProperties
<1>4. 1..n = 1..(n - 1) \cup {n} /\ \A i \in 1..(n - 1) : i \in Nat \ {0} /\ i < n
  BY <1>1
<1> QED
  BY <1>0, <1>1, <1>2, <1>3, <1>4

LEMMA AboutMore ==
    ASSUME webhooks \in Seq(Events), NEW e \in Events, webhooks' = Append(webhooks, e), NEW p, NEW kind,
           e.kind = kind, e.pr = p
    PROVE  \E n \in Nat \ {0} :
             /\ webhooks'[n] = e /\ n \in DOMAIN webhooks'
             /\ About(p, kind)' = About(p, kind) \cup {n}
             /\ \A i \in About(p, kind) : i \in Nat \ {0} /\ i < n /\ webhooks'[i] = webhooks[i]
<1>1. PICK n \in Nat \ {0} :
        /\ DOMAIN webhooks = 1..(n - 1) /\ DOMAIN webhooks' = 1..(n - 1) \cup {n}
        /\ webhooks'[n] = e
        /\ \A i \in 1..(n - 1) : webhooks'[i] = webhooks[i] /\ i \in Nat \ {0} /\ i < n
  BY EventSent
<1>2. About(p, kind)' = About(p, kind) \cup {n}
  BY <1>1 DEF About
<1>3. \A i \in About(p, kind) : i \in 1..(n - 1)
  BY <1>1 DEF About
<1> QED
  BY <1>1, <1>2, <1>3

LEMMA AboutElse ==
    ASSUME webhooks \in Seq(Events), NEW e \in Events, webhooks' = Append(webhooks, e), NEW p, NEW kind,
           e.kind # kind \/ e.pr # p
    PROVE  Same(p, kind)
<1>1. PICK n \in Nat \ {0} :
        /\ DOMAIN webhooks = 1..(n - 1) /\ DOMAIN webhooks' = 1..(n - 1) \cup {n}
        /\ webhooks'[n] = e
        /\ \A i \in 1..(n - 1) : webhooks'[i] = webhooks[i] /\ i \in Nat \ {0} /\ i < n
  BY EventSent
<1>2. About(p, kind)' = About(p, kind)
  BY <1>1 DEF About
<1>3. \A i \in About(p, kind) : i \in 1..(n - 1)
  BY <1>1 DEF About
<1> QED
  BY <1>1, <1>2, <1>3 DEF Same

LEMMA ReviewAppended ==
    ASSUME webhooks \in Seq(Events), NEW e \in Events, webhooks' = Append(webhooks, e), NEW p,
           e.kind = "review", e.pr = p, NEW was, was = Truth(p).review, was \in Statuses,
           Truth(p).review' = Reviewed(was, e.review), ReviewSent(p), NEW status
    PROVE  ReviewSent(p)' /\ (ReviewLeads(p, status) => ReviewLeads(p, status)')
<1>1. PICK n \in Nat \ {0} :
        /\ webhooks'[n] = e /\ n \in DOMAIN webhooks'
        /\ About(p, "review")' = About(p, "review") \cup {n}
        /\ \A i \in About(p, "review") : i \in Nat \ {0} /\ i < n /\ webhooks'[i] = webhooks[i]
  BY AboutMore
<1>2. e.review \in Reviews
  BY EventFields
<1>3. CASE e.review \in Decisive
  <2>1. n \in Decisions(p)' /\ Decisions(p)' = Decisions(p) \cup {n}
    BY <1>1, <1>3 DEF Decisions
  <2>2. ASSUME NEW i \in DOMAIN webhooks', IsLast(i, Decisions(p))' PROVE i = n
    <3>1. i \in Decisions(p)' /\ n <= i
      BY <2>1, <2>2 DEF IsLast
    <3>2. i # n => i \in About(p, "review")
      BY <2>1, <3>1 DEF Decisions
    <3> QED
      BY <1>1, <3>1, <3>2
  <2>3. ~Commented(p, n)'
    <3>1. \A j \in About(p, "review") \cup {n} : ~(j > n)
      BY <1>1
    <3> QED
      BY <1>1, <3>1 DEF Commented
  <2>4. Reviewed(was, e.review) = IF e.review # "dismissed" THEN e.review ELSE "none"
    BY <1>3 DEF Reviewed, Decisive
  <2>5. ASSUME NEW i \in DOMAIN webhooks', IsLast(i, Decisions(p))'
        PROVE  Reviewed(was, e.review) = IF webhooks'[i].review # "dismissed" THEN webhooks'[i].review
                         ELSE IF Commented(p, i)' THEN "commented" ELSE "none"
    <3>1. i = n /\ webhooks'[i] = e /\ ~Commented(p, i)'
      BY <1>1, <2>2, <2>3, <2>5
    <3> QED
      BY <2>4, <3>1
  <2>6. ReviewSent(p)'
    BY <2>1, <2>5 DEF ReviewSent
  <2> QED
    BY <2>1, <2>6 DEF ReviewLeads
<1>4. CASE e.review \notin Decisive
  <2>1. Decisions(p)' = Decisions(p)
    BY <1>1, <1>4 DEF Decisions
  <2>2. \A i : IsLast(i, Decisions(p))' <=> IsLast(i, Decisions(p))
    BY <2>1 DEF IsLast
  <2>3. \A i : IsLast(i, Decisions(p)) =>
          i \in About(p, "review") /\ i \in DOMAIN webhooks /\ webhooks[i].review \in Decisive
    BY DEF IsLast, Decisions, About
  <2>4. CASE e.review = "commented"
    <3>1. \A i \in About(p, "review") \cup {0} : Commented(p, i)'
      BY <1>1, <2>4 DEF Commented
    <3>2. Reviewed(was, e.review) = IF was = "none" THEN "commented" ELSE was
      BY <2>4 DEF Reviewed
    <3>3. ASSUME NEW i \in DOMAIN webhooks', IsLast(i, Decisions(p))'
          PROVE  Reviewed(was, e.review) = IF webhooks'[i].review # "dismissed" THEN webhooks'[i].review
                           ELSE IF Commented(p, i)' THEN "commented" ELSE "none"
      <4>1. i \in About(p, "review") /\ i \in DOMAIN webhooks /\ IsLast(i, Decisions(p))
            /\ webhooks[i].review \in Decisive
        BY <2>2, <2>3, <3>3
      <4>2. was = IF webhooks[i].review # "dismissed" THEN webhooks[i].review
                  ELSE IF Commented(p, i) THEN "commented" ELSE "none"
        BY <4>1 DEF ReviewSent
      <4> QED
        BY <1>1, <3>1, <3>2, <4>1, <4>2 DEF Decisive
    <3>4. Reviewed(was, e.review) # "none"
      BY <3>2
    <3>5. ReviewSent(p)'
      BY <3>3, <3>4 DEF ReviewSent
    <3> QED
      BY <2>1, <3>1, <3>2, <3>5 DEF ReviewLeads
  <2>5. CASE e.review # "commented"
    <3>1. Reviewed(was, e.review) = was
      BY <1>4, <2>5 DEF Reviewed, Decisive
    <3>2. \A i : Commented(p, i)' <=> Commented(p, i)
      BY <1>1, <2>5 DEF Commented
    <3>3. ReviewSent(p)'
      BY <1>1, <2>1, <2>2, <2>3, <3>1, <3>2 DEF ReviewSent
    <3> QED
      BY <2>1, <3>1, <3>2, <3>3 DEF ReviewLeads
  <2> QED
    BY <2>4, <2>5
<1> QED
  BY <1>3, <1>4

LEMMA LifeAppended ==
    ASSUME webhooks \in Seq(Events), NEW e \in Events, webhooks' = Append(webhooks, e), NEW p,
           e.kind = "close", e.pr = p, Truth(p).life = "open", Truth(p).life' = e.life, LifeSent(p), NEW life
    PROVE  LifeSent(p)' /\ LifeLeads(p, life)'
<1>1. PICK n \in Nat \ {0} :
        /\ webhooks'[n] = e /\ n \in DOMAIN webhooks'
        /\ About(p, "close")' = About(p, "close") \cup {n}
        /\ \A i \in About(p, "close") : i \in Nat \ {0} /\ i < n /\ webhooks'[i] = webhooks[i]
  BY AboutMore
<1>2. About(p, "close") = {}
  <2>1. ASSUME NEW i \in About(p, "close") PROVE FALSE
    <3>1. webhooks[i] \in Events /\ webhooks[i].kind = "close"
      BY <2>1, ElementOfSeq, LenProperties DEF About
    <3>2. webhooks[i].life \in Terminal
      BY <3>1, EventFields
    <3> QED
      BY <3>2 DEF LifeSent, Terminal
  <2> QED
    BY <2>1
<1> QED
  BY <1>1, <1>2 DEF LifeSent, LifeLeads

LEMMA ReadyAppended ==
    ASSUME webhooks \in Seq(Events), NEW e \in Events, webhooks' = Append(webhooks, e), NEW p,
           e.kind = "label", e.pr = p, Truth(p).ready' = e.ready, NEW ready
    PROVE  ReadySent(p)' /\ ReadyLeads(p, ready)'
<1>1. PICK n \in Nat \ {0} :
        /\ webhooks'[n] = e /\ n \in DOMAIN webhooks'
        /\ About(p, "label")' = About(p, "label") \cup {n}
        /\ \A i \in About(p, "label") : i \in Nat \ {0} /\ i < n /\ webhooks'[i] = webhooks[i]
  BY AboutMore
<1>2. ASSUME NEW i \in DOMAIN webhooks', IsLast(i, About(p, "label"))' PROVE i = n
  <2>1. i \in About(p, "label") \cup {n} /\ n <= i
    BY <1>1, <1>2 DEF IsLast
  <2> QED
    BY <1>1, <2>1
<1> QED
  BY <1>1, <1>2 DEF ReadySent, ReadyLeads

(* One more review moves the status that all of them amount to. *)
LEMMA DerivedAppends ==
    ASSUME NEW reviews \in Seq(Reviews), NEW review \in Reviews
    PROVE  Derived(Append(reviews, review)) = Reviewed(Derived(reviews), review)
<1>0. PICK more : more = Append(reviews, review)
  OBVIOUS
<1>1. PICK n : n = Len(reviews)
  OBVIOUS
<1>2. /\ n \in Nat /\ DOMAIN reviews = 1..n /\ more \in Seq(Reviews)
      /\ DOMAIN more = 1..(n + 1) /\ more[n + 1] = review /\ \A i \in 1..n : more[i] = reviews[i]
  <2>1. Len(reviews) \in Nat /\ DOMAIN reviews = 1..Len(reviews)
    BY LenProperties
  <2>2. /\ more \in Seq(Reviews) /\ Len(more) = n + 1 /\ more[n + 1] = review
        /\ \A i \in 1..n : more[i] = reviews[i]
    BY <1>0, <1>1, AppendProperties
  <2>3. DOMAIN more = 1..Len(more)
    BY <2>2, LenProperties
  <2> QED
    BY <1>1, <2>1, <2>2, <2>3
<1>3. PICK s : s = DOMAIN more
  OBVIOUS
<1>4. s # {} /\ s \in SUBSET DOMAIN more
  <2>1. n + 1 \in 1..(n + 1)
    BY <1>2
  <2> QED
    BY <1>2, <1>3, <2>1
<1>5. Max(s) = n + 1
  <2>1. PICK m : m = Max(s)
    OBVIOUS
  <2>2. m \in s /\ \A i \in s : i <= m
    BY <1>2, <1>4, <2>1, MaxOfPositions
  <2>3. \A k \in 1..(n + 1) : n + 1 <= k => k = n + 1
    BY <1>2
  <2>4. n + 1 \in 1..(n + 1)
    BY <1>2
  <2>5. m \in 1..(n + 1) /\ n + 1 <= m
    BY <1>2, <1>3, <2>2, <2>4
  <2> QED
    BY <2>1, <2>3, <2>5
<1>6. s \ {Max(s)} = 1..n
  BY <1>2, <1>3, <1>5
<1>7. Summed(more, s) = Reviewed(Summed(more, 1..n), review)
  BY <1>2, <1>4, <1>5, <1>6, SummedSteps
<1>8. Summed(more, 1..n) = Summed(reviews, 1..n)
  <2>1. Decided(more, 1..n) = Decided(reviews, 1..n)
    BY <1>2 DEF Decided
  <2>2. PICK D : D = Decided(reviews, 1..n)
    OBVIOUS
  <2>3. D \subseteq 1..n
    BY <2>2 DEF Decided
  <2>4. D # {} => Max(D) \in D
    BY <1>2, <2>3, MaxOfPositions
  <2>5. Settled(more, 1..n) = Settled(reviews, 1..n)
    BY <1>2, <2>1, <2>2, <2>3, <2>4 DEF Settled
  <2> QED
    BY <1>2, <2>1, <2>5 DEF Summed
<1> QED
  BY <1>0, <1>2, <1>3, <1>7, <1>8, DerivedIsSummed

(* What an event says of a change on GitHub. *)
Reports(e, p, new) ==
    LET was == github[p] IN
    /\ e.pr = p
    /\ Derived(new.reviews) = IF e.kind = "review" THEN Reviewed(Derived(was.reviews), e.review)
                              ELSE Derived(was.reviews)
    /\ IF e.kind = "close" THEN was.life = "open" /\ new.life = e.life ELSE new.life = was.life
    /\ new.ready = IF e.kind = "label" THEN e.ready ELSE was.ready
    /\ e.kind # "check" => new.failing = was.failing
    /\ e.kind \notin {"review", "thread"} => new.resolved = was.resolved

LEMMA ReportLeads ==
    ASSUME webhooks \in Seq(Events), github \in [PRs -> OnGitHub],
           NEW e \in Events, NEW p \in PRs, NEW new \in OnGitHub, Reports(e, p, new),
           webhooks' = Append(webhooks, e), github' = [github EXCEPT ![p] = new], UNCHANGED task, Sent(p)
    PROVE  Sent(p)' /\ \A r : Leads(p, r) => Leads(p, r)'
<1>0. github'[p] = new /\ github[p] \in OnGitHub /\ e.pr = p
  BY DEF Reports
<1>1. /\ Truth(p)' = [review |-> Derived(new.reviews), life |-> new.life, ready |-> new.ready,
                      failing |-> new.failing, resolved |-> new.resolved]
      /\ Truth(p) = [review |-> Derived(github[p].reviews), life |-> github[p].life, ready |-> github[p].ready,
                     failing |-> github[p].failing, resolved |-> github[p].resolved]
  BY <1>0 DEF Truth
<1>2. Pending(p)' = Pending(p)
  BY DEF Pending
<1>3. \A kind : e.kind # kind => Same(p, kind)
  <2>1. ASSUME NEW kind, e.kind # kind PROVE Same(p, kind)
    BY <2>1, AboutElse
  <2> QED
    BY <2>1
<1>4. ReviewSent(p)' /\ \A status : ReviewLeads(p, status) => ReviewLeads(p, status)'
  <2>1. CASE e.kind = "review"
    <3>1. Truth(p).review \in Statuses
      <4>1. github[p].reviews \in Seq(Reviews)
        BY <1>0 DEF OnGitHub
      <4> QED
        BY <1>1, <4>1, DerivedStatus
    <3>2. Truth(p).review' = Reviewed(Truth(p).review, e.review)
      BY <1>1, <2>1 DEF Reports
    <3>3. ReviewSent(p)
      BY DEF Sent
    <3>4. ASSUME NEW status PROVE ReviewSent(p)' /\ (ReviewLeads(p, status) => ReviewLeads(p, status)')
      BY <1>0, <2>1, <3>1, <3>2, <3>3, ReviewAppended
    <3> QED
      BY <3>4
  <2>2. CASE e.kind # "review"
    <3>1. Truth(p).review' = Truth(p).review /\ Same(p, "review") /\ ReviewSent(p)
      BY <1>1, <1>3, <2>2 DEF Reports, Sent
    <3> QED
      BY <3>1, StillReview
  <2> QED
    BY <2>1, <2>2
<1>5. LifeSent(p)' /\ \A life : LifeLeads(p, life) => LifeLeads(p, life)'
  <2>1. CASE e.kind = "close"
    <3>1. Truth(p).life = "open" /\ Truth(p).life' = e.life /\ LifeSent(p)
      BY <1>1, <2>1 DEF Reports, Sent
    <3>2. ASSUME NEW life PROVE LifeSent(p)' /\ LifeLeads(p, life)'
      BY <1>0, <2>1, <3>1, LifeAppended
    <3> QED
      BY <3>2
  <2>2. CASE e.kind # "close"
    <3>1. Truth(p).life' = Truth(p).life /\ Same(p, "close") /\ LifeSent(p)
      BY <1>1, <1>3, <2>2 DEF Reports, Sent
    <3> QED
      BY <3>1, StillLife
  <2> QED
    BY <2>1, <2>2
<1>6. ReadySent(p)' /\ \A ready : ReadyLeads(p, ready) => ReadyLeads(p, ready)'
  <2>1. CASE e.kind = "label"
    <3>1. Truth(p).ready' = e.ready
      BY <1>1, <2>1 DEF Reports
    <3>2. ASSUME NEW ready PROVE ReadySent(p)' /\ ReadyLeads(p, ready)'
      BY <1>0, <2>1, <3>1, ReadyAppended
    <3> QED
      BY <3>2
  <2>2. CASE e.kind # "label"
    <3>1. Truth(p).ready' = Truth(p).ready /\ Same(p, "label") /\ ReadySent(p)
      BY <1>1, <1>3, <2>2 DEF Reports, Sent
    <3> QED
      BY <1>2, <3>1, StillReady
  <2> QED
    BY <2>1, <2>2
<1>7. ASSUME NEW kind PROVE About(p, kind) \subseteq About(p, kind)' /\ (e.kind = kind => About(p, kind)' # {})
  <2>1. CASE e.kind = kind
    <3>1. PICK n \in Nat \ {0} :
            /\ webhooks'[n] = e /\ n \in DOMAIN webhooks'
            /\ About(p, kind)' = About(p, kind) \cup {n}
            /\ \A i \in About(p, kind) : i \in Nat \ {0} /\ i < n /\ webhooks'[i] = webhooks[i]
      BY <1>0, <2>1, AboutMore
    <3> QED
      BY <3>1
  <2>2. CASE e.kind # kind
    BY <1>3, <2>2 DEF Same
  <2> QED
    BY <2>1, <2>2
<1>8. ASSUME NEW kind, NEW i \in About(p, kind) PROVE webhooks'[i] = webhooks[i]
  BY <1>8, EventSent DEF About
<1>9. \A failing : FailingLeads(p, failing) => FailingLeads(p, failing)'
  <2>1. CASE e.kind = "check"
    <3>1. About(p, "check")' # {}
      BY <1>7, <2>1
    <3> QED
      BY <3>1 DEF FailingLeads
  <2>2. CASE e.kind # "check"
    <3>1. Truth(p).failing' = Truth(p).failing
      BY <1>1, <2>2 DEF Reports
    <3>2. About(p, "check") # {} => About(p, "check")' # {}
      BY <1>7
    <3> QED
      BY <3>1, <3>2, StillFailing
  <2> QED
    BY <2>1, <2>2
<1>10. Threaded(p) \subseteq Threaded(p)'
  <2>1. /\ About(p, "thread") \subseteq About(p, "thread")' /\ About(p, "review") \subseteq About(p, "review")'
        /\ \A i \in About(p, "review") : webhooks'[i] = webhooks[i]
    BY <1>7, <1>8
  <2> QED
    BY <2>1 DEF Threaded
<1>11. \A resolved : ResolvedLeads(p, resolved) => ResolvedLeads(p, resolved)'
  <2>1. CASE e.kind = "thread"
    <3>1. About(p, "thread")' # {}
      BY <1>7, <2>1
    <3>2. Threaded(p)' # {}
      BY <3>1 DEF Threaded
    <3> QED
      BY <3>2 DEF ResolvedLeads
  <2>2. CASE e.kind = "review" /\ e.review \notin {"approved", "dismissed"}
    <3>1. PICK n \in Nat \ {0} :
            /\ webhooks'[n] = e /\ n \in DOMAIN webhooks'
            /\ About(p, "review")' = About(p, "review") \cup {n}
            /\ \A i \in About(p, "review") : i \in Nat \ {0} /\ i < n /\ webhooks'[i] = webhooks[i]
      BY <1>0, <2>2, AboutMore
    <3>2. About(p, "review")' = About(p, "review") \cup {n} /\ webhooks'[n] = e
      BY <3>1
    <3>3. n \in Threaded(p)'
      BY <2>2, <3>2 DEF Threaded
    <3> QED
      BY <3>3 DEF ResolvedLeads
  <2>3. CASE e.kind = "review" /\ e.review \in {"approved", "dismissed"}
    <3>1. Truth(p).review' # "commented"
      BY <1>1, <2>3 DEF Reports, Reviewed
    <3> QED
      BY <3>1 DEF ResolvedLeads
  <2>4. CASE e.kind \notin {"thread", "review"}
    <3>1. Truth(p).resolved' = Truth(p).resolved /\ Truth(p).review' = Truth(p).review
      BY <1>1, <2>4 DEF Reports
    <3>2. Threaded(p) # {} => Threaded(p)' # {}
      BY <1>10
    <3>3. Truth(p).review # "commented" => Truth(p).review' # "commented"
      BY <3>1
    <3> QED
      BY <3>1, <3>2, <3>3, StillResolved
  <2> QED
    BY <2>1, <2>2, <2>3, <2>4
<1>12. Sent(p)'
  BY <1>4, <1>5, <1>6 DEF Sent
<1>13. ASSUME NEW r, Leads(p, r) PROVE Leads(p, r)'
  BY <1>4, <1>5, <1>6, <1>9, <1>11, <1>13 DEF Leads
<1> QED
  BY <1>12, <1>13

LEMMA OthersLead ==
    ASSUME NEW p, \A kind : Same(p, kind), Truth(p)' = Truth(p), UNCHANGED task
    PROVE  /\ Sent(p) => Sent(p)'
           /\ \A r : Leads(p, r) => Leads(p, r)'
<1>1. Pending(p)' = Pending(p)
  BY DEF Pending
<1>2. /\ Truth(p).review' = Truth(p).review /\ Truth(p).life' = Truth(p).life /\ Truth(p).ready' = Truth(p).ready
      /\ Truth(p).failing' = Truth(p).failing /\ Truth(p).resolved' = Truth(p).resolved
  OBVIOUS
<1>3. About(p, "check")' = About(p, "check")
  BY DEF Same
<1>4. Threaded(p)' = Threaded(p)
  BY DEF Same, Threaded
<1>5. ReviewSent(p) => ReviewSent(p)'
  BY <1>2, StillReview
<1>6. ASSUME NEW status PROVE ReviewLeads(p, status) => ReviewLeads(p, status)'
  BY <1>2, StillReview
<1>7. LifeSent(p) => LifeSent(p)'
  BY <1>2, StillLife
<1>8. ASSUME NEW life PROVE LifeLeads(p, life) => LifeLeads(p, life)'
  BY <1>2, StillLife
<1>9. ReadySent(p) => ReadySent(p)'
  BY <1>1, <1>2, StillReady
<1>10. ASSUME NEW ready PROVE ReadyLeads(p, ready) => ReadyLeads(p, ready)'
  BY <1>1, <1>2, StillReady
<1>11. ASSUME NEW failing PROVE FailingLeads(p, failing) => FailingLeads(p, failing)'
  <2>1. About(p, "check") # {} => About(p, "check")' # {}
    BY <1>3
  <2> QED
    BY <1>2, <2>1, StillFailing
<1>12. ASSUME NEW resolved PROVE ResolvedLeads(p, resolved) => ResolvedLeads(p, resolved)'
  <2>1. Threaded(p) # {} => Threaded(p)' # {}
    BY <1>4
  <2>2. Truth(p).review # "commented" => Truth(p).review' # "commented"
    BY <1>2
  <2> QED
    BY <1>2, <2>1, <2>2, StillResolved
<1>13. Sent(p) => Sent(p)'
  BY <1>5, <1>7, <1>9 DEF Sent
<1>14. ASSUME NEW r, Leads(p, r) PROVE Leads(p, r)'
  BY <1>6, <1>8, <1>10, <1>11, <1>12, <1>14 DEF Leads
<1> QED
  BY <1>13, <1>14

(* The change on GitHub that the webhook reports. *)
Reported(p) ==
    /\ UNCHANGED <<row, message, task>> /\ Fill({}) /\ trust = "whole"
    /\ \E new \in OnGitHub, e \in Events :
         github' = [github EXCEPT ![p] = new] /\ webhooks' = Append(webhooks, e) /\ Reports(e, p, new)

LEMMA ChangedReports ==
    ASSUME up, trust' = "whole", NEW p, NEW kind, NEW new \in OnGitHub, NEW n, NEW e \in Events,
           Changed(kind, p, new, e, n), Reports(e, p, new)
    PROVE  Reported(p)
<1>1. e # None
  BY PrBotAssumption
<1>2. UNCHANGED <<row, message, task>> /\ Fill({}) /\ trust = "whole"
  BY DEF Changed, tables
<1>3. github' = [github EXCEPT ![p] = new] /\ webhooks' = Append(webhooks, e)
  BY <1>1 DEF Changed
<1> QED
  BY <1>2, <1>3 DEF Reported

LEMMA GitHubReports ==
    ASSUME Typed, TrustInv, trust' = "whole", NEW p \in PRs, GitHubChanges(p)
    PROVE  Reported(p)
<1> DEFINE g == github[p]
<1>0. /\ g \in OnGitHub /\ g.reviews \in Seq(Reviews) /\ up
      /\ g.life \in Lives /\ g.failing \in BOOLEAN /\ g.resolved \in BOOLEAN /\ g.ready \in BOOLEAN
  <2>1. github[p] \in OnGitHub
    BY DEF Typed, GitHubOK
  <2>2. trust # "broken"
    <3>1. Happens(p)
      BY GitHubHappens
    <3> QED
      BY <3>1 DEF Happens
  <2>3. up
    BY <2>2 DEF TrustInv
  <2> QED
    BY <2>1, <2>3 DEF OnGitHub
<1>1. ASSUME NEW review \in Reviews, NEW opens \in BOOLEAN, SubmitReview(p, review, opens) PROVE Reported(p)
  <2> DEFINE new == [g EXCEPT !.reviews = Append(@, review), !.resolved = @ /\ ~opens]
             e == [kind |-> "review", pr |-> p, review |-> review]
  <2>1. Append(g.reviews, review) \in Seq(Reviews)
    BY <1>0
  <2>2. /\ new \in OnGitHub /\ new.failing = g.failing /\ new.reviews = Append(g.reviews, review)
        /\ new.life = g.life /\ new.ready = g.ready
    BY <1>0, <2>1 DEF OnGitHub
  <2>3. e \in Events /\ e.kind = "review" /\ e.pr = p /\ e.review = review
    BY DEF Events
  <2>4. Changed("review", p, new, e, IF review = "self_comment" THEN 0 ELSE 1)
    BY <1>1 DEF SubmitReview
  <2>5. Derived(new.reviews) = Reviewed(Derived(g.reviews), review)
    BY <1>0, <2>2, DerivedAppends
  <2> HIDE DEF new, e
  <2>6. Reports(e, p, new)
    BY <2>2, <2>3, <2>5 DEF Reports
  <2> QED
    BY <1>0, <2>2, <2>3, <2>4, <2>6, ChangedReports
<1>2. ASSUME NEW i \in DOMAIN github[p].reviews, DismissReview(p, i) PROVE Reported(p)
  <2> DEFINE new == [g EXCEPT !.reviews = [@ EXCEPT ![i] = "dismissed"]]
             e == [kind |-> "review", pr |-> p, review |-> "dismissed"]
  <2>1. [g.reviews EXCEPT ![i] = "dismissed"] \in Seq(Reviews)
    <3>1. i \in 1..Len(g.reviews) /\ "dismissed" \in Reviews
      BY <1>0, LenProperties DEF Reviews
    <3> QED
      BY <1>0, <3>1, ExceptSeq
  <2>2. new \in OnGitHub /\ new.failing = g.failing /\ new.life = g.life /\ new.ready = g.ready
    BY <1>0, <2>1 DEF OnGitHub
  <2>3. e \in Events /\ e.kind = "review" /\ e.pr = p /\ e.review = "dismissed"
    BY DEF Events, Reviews
  <2>4. Changed("dismiss", p, new, e, 0)
    BY <1>2 DEF DismissReview
  <2> HIDE DEF new, e
  <2>5. Derived(new.reviews) = "none"
    BY <2>4 DEF Changed
  <2>6. Reports(e, p, new)
    BY <2>2, <2>3, <2>5 DEF Reports, Reviewed
  <2> QED
    BY <1>0, <2>2, <2>3, <2>4, <2>6, ChangedReports
<1>3. ASSUME NEW life \in Terminal, ClosePr(p, life) PROVE Reported(p)
  <2> DEFINE new == [g EXCEPT !.life = life]
             e == [kind |-> "close", pr |-> p, life |-> life]
  <2>1. /\ new \in OnGitHub /\ new.life = life /\ new.failing = g.failing /\ new.ready = g.ready
        /\ new.reviews = g.reviews /\ new.resolved = g.resolved /\ g.life = "open"
    BY <1>0, <1>3 DEF OnGitHub, Terminal, Lives, ClosePr
  <2>2. e \in Events /\ e.kind = "close" /\ e.pr = p /\ e.life = life
    BY DEF Events
  <2>3. Changed("close", p, new, e, 1)
    BY <1>3 DEF ClosePr
  <2> HIDE DEF new, e
  <2>4. Reports(e, p, new)
    BY <2>1, <2>2 DEF Reports
  <2> QED
    BY <1>0, <2>1, <2>2, <2>3, <2>4, ChangedReports
<1>4. ASSUME ReopenPr(p) PROVE Reported(p)
  <2>1. trust' = "broken"
    BY <1>4 DEF ReopenPr, Changed
  <2> QED
    BY <2>1
<1>5. ASSUME NEW ready \in BOOLEAN, ChangeLabels(p, ready) PROVE Reported(p)
  <2> DEFINE new == [g EXCEPT !.ready = ready]
             e == [kind |-> "label", pr |-> p, ready |-> ready]
  <2>1. /\ new \in OnGitHub /\ new.life = g.life /\ new.failing = g.failing /\ new.ready = ready
        /\ new.reviews = g.reviews /\ new.resolved = g.resolved
    BY <1>0 DEF OnGitHub
  <2>2. e \in Events /\ e.kind = "label" /\ e.pr = p /\ e.ready = ready
    BY DEF Events
  <2>3. Changed("label", p, new, e, 0)
    BY <1>5 DEF ChangeLabels
  <2> HIDE DEF new, e
  <2>4. Reports(e, p, new)
    BY <2>1, <2>2 DEF Reports
  <2> QED
    BY <1>0, <2>1, <2>2, <2>3, <2>4, ChangedReports
<1>6. ASSUME CompleteChecks(p) PROVE Reported(p)
  <2> DEFINE new == [g EXCEPT !.failing = ~g.failing]
             e == [kind |-> "check", pr |-> p, failing |-> ~g.failing]
             n == IF ~g.failing THEN 1 ELSE 0
  <2>1. /\ new \in OnGitHub /\ new.life = g.life /\ new.ready = g.ready
        /\ new.reviews = g.reviews /\ new.resolved = g.resolved
    BY <1>0 DEF OnGitHub
  <2>2. e \in Events /\ e.kind = "check" /\ e.pr = p
    BY <1>0 DEF Events
  <2>3. Changed("check", p, new, e, n)
    BY <1>6 DEF CompleteChecks
  <2> HIDE DEF new, e, n
  <2>4. Reports(e, p, new)
    BY <2>1, <2>2 DEF Reports
  <2> QED
    BY <1>0, <2>1, <2>2, <2>3, <2>4, ChangedReports
<1>7. ASSUME ResolveThreads(p) PROVE Reported(p)
  <2> DEFINE new == [g EXCEPT !.resolved = ~@]
             e == [kind |-> "thread", pr |-> p]
  <2>1. /\ new \in OnGitHub /\ new.life = g.life /\ new.failing = g.failing /\ new.ready = g.ready
        /\ new.reviews = g.reviews
    BY <1>0 DEF OnGitHub
  <2>2. e \in Events /\ e.kind = "thread" /\ e.pr = p
    BY DEF Events
  <2>3. Changed("thread", p, new, e, 0)
    BY <1>7 DEF ResolveThreads
  <2> HIDE DEF new, e
  <2>4. Reports(e, p, new)
    BY <2>1, <2>2 DEF Reports
  <2> QED
    BY <1>0, <2>1, <2>2, <2>3, <2>4, ChangedReports
<1> QED
  BY <1>1, <1>2, <1>3, <1>4, <1>5, <1>6, <1>7 DEF GitHubChanges

(* A PR stays filled only while a message links it. *)
LEMMA FillFrom ==
    ASSUME FillInv, NEW ps, Fill(ps), trust' # "broken", \A p \in filled : row'[p] # None,
           \A p \in ps : row'[p] # None
    PROVE  FillInv' /\ filled' \subseteq filled \cup ps
<1>1. filled' = {p \in filled \cup ps : \E m \in Messages : message'[m] # None /\ p \in message'[m].links}
  BY DEF Fill
<1>2. \A p \in filled' : MessagesFor(p)' # {}
  BY <1>1 DEF MessagesFor, Tracked
<1>3. filled' \subseteq filled \cup ps
  BY <1>1
<1>4. \A p \in filled' : row'[p] # None
  BY <1>3
<1> QED
  BY <1>2, <1>3, <1>4 DEF FillInv

LEMMA GitHubRows ==
    ASSUME Typed, TrustInv, ShapeInv, FillInv, RowsInv, HealInv, NEW p \in PRs, GitHubChanges(p),
           trust' # "broken"
    PROVE  FillInv' /\ RowsInv' /\ HealInv'
<1>0. trust = "whole" /\ trust' = "whole"
  <2>1. Happens(p)
    BY GitHubHappens
  <2> QED
    BY <2>1 DEF Happens, Moves
<1>1. Reported(p)
  BY <1>0, GitHubReports
<1>2. PICK new \in OnGitHub, e \in Events :
        github' = [github EXCEPT ![p] = new] /\ webhooks' = Append(webhooks, e) /\ Reports(e, p, new)
  BY <1>1 DEF Reported
<1>3. UNCHANGED <<row, message, task>> /\ Fill({})
  BY <1>1 DEF Reported
<1>4. FillInv' /\ filled' \subseteq filled
  BY <1>0, <1>3, FillFrom DEF FillInv
<1>5. webhooks \in Seq(Events) /\ github \in [PRs -> OnGitHub] /\ TasksOK /\ filled \subseteq PRs
  BY DEF Typed, QueuesOK, GitHubOK, HistoryOK
<1>6. ASSUME NEW q \in PRs PROVE Sent(q)' /\ \A r : Leads(q, r) => Leads(q, r)'
  <2>0. Sent(q)
    BY <1>0 DEF RowsInv
  <2>1. CASE q = p
    BY <1>2, <1>3, <1>5, <2>0, <2>1, ReportLeads
  <2>2. CASE q # p
    <3>1. Truth(q)' = Truth(q)
      BY <1>2, <1>5, <2>2 DEF Truth
    <3>2. ASSUME NEW kind PROVE Same(q, kind)
      <4>1. e.kind # kind \/ e.pr # q
        BY <1>2, <2>2 DEF Reports
      <4> QED
        BY <1>2, <1>5, <4>1, AboutElse
    <3> QED
      BY <1>3, <2>0, <3>1, <3>2, OthersLead
  <2> QED
    BY <2>1, <2>2
<1>7. \A q : RowOr(q)' = RowOr(q)
  BY <1>3 DEF RowOr
<1>8. \A q \in filled' : Leads(q, RowOr(q))'
  <2>1. ASSUME NEW q \in filled' PROVE Leads(q, RowOr(q))'
    <3>1. q \in PRs
      BY <1>4, <1>5
    <3>2. PICK r : r = RowOr(q)
      OBVIOUS
    <3>3. Leads(q, r)
      BY <1>0, <1>4, <3>2 DEF RowsInv
    <3>4. Leads(q, r)'
      BY <1>6, <3>1, <3>3
    <3> QED
      BY <1>7, <3>2, <3>4
  <2> QED
    BY <2>1
<1>9. ASSUME NEW t \in Handlers, task[t] # <<>>, Op(t).op = "fetch", Op(t).answer # None
      PROVE  Leads(Op(t).pr, Op(t).answer.row)'
  <2>1. PICK o : o = Op(t)
    OBVIOUS
  <2>2. PICK q, r : q = o.pr /\ r = o.answer.row
    OBVIOUS
  <2>3. Op(t)' = o
    BY <1>3, <2>1 DEF Op
  <2>4. q \in PRs
    <3>1. o \in OpSet /\ o.op \in GitHubOps
      BY <1>5, <1>9, <2>1, OpTyped DEF Tasks, GitHubOps
    <3> QED
      BY <2>2, <3>1, AwaitFields
  <2>5. Leads(q, r)'
    BY <1>0, <1>6, <1>9, <2>1, <2>2, <2>4 DEF RowsInv
  <2> QED
    BY <2>2, <2>3, <2>5
<1>10. ASSUME NEW t \in Handlers, task[t] # <<>>, Op(t).op = "threads" PROVE (Op(t).known = RowOr(Op(t).pr).resolved)'
  <2>1. Op(t).known = RowOr(Op(t).pr).resolved
    BY <1>0, <1>10 DEF RowsInv
  <2> QED
    BY <1>3, <1>10, <2>1 DEF Op, RowOr
<1>11. \A t \in Handlers : task'[t] = task[t] /\ Op(t)' = Op(t)
  BY <1>3 DEF Op
<1>12. RowsInv'
  BY <1>0, <1>6, <1>8, <1>9, <1>10, <1>11 DEF RowsInv
<1> QED
  BY <1>0, <1>4, <1>12 DEF HealInv
-----------------------------------------------------------------------------
(* The handler of an event does its part at once, or has it still to do.   *)
LEMMA DeliveredLeads ==
    ASSUME Typed, NEW t \in Handlers, \A u \in Handlers : task[u] = <<>>,
           \A u \in Handlers : u # t => task'[u] = <<>>,
           NEW ops \in Seq(OpSet), task'[t] = ops, Begins(ops), github' = github, message' = message,
           1 \in DOMAIN webhooks, webhooks' = RemoveAt(webhooks, 1), Writes(webhooks[1]),
           Causes(webhooks[1], ops), Heeds(webhooks[1], ops), NEW p \in PRs, Sent(p)
    PROVE  Sent(p)' /\ (MessagesFor(p) # {} /\ Leads(p, RowOr(p)) => Leads(p, RowOr(p))')
<1> DEFINE e == webhooks[1]
<1>1. webhooks \in Seq(Events) /\ e \in Events /\ RowOr(p) \in Row
  BY Shifted, RowOrTyped DEF Typed, QueuesOK
<1>2. PICK was, new : was = RowOr(p) /\ new = RowOr(p)'
  OBVIOUS
<1>3. /\ was \in Row /\ new.ready = was.ready /\ new.failing = was.failing /\ new.resolved = was.resolved
      /\ new.review = IF 1 \in About(p, "review") THEN Reviewed(was.review, e.review) ELSE was.review
      /\ new.life = IF 1 \in About(p, "close") THEN e.life ELSE was.life
  <2>1. \A kind : 1 \in About(p, kind) <=> e.kind = kind /\ e.pr = p
    BY DEF About
  <2> QED
    BY <1>1, <1>2, <2>1 DEF Writes, After
<1>4. /\ ReviewSent(p)' /\ (ReviewLeads(p, was.review) => ReviewLeads(p, new.review)')
      /\ LifeSent(p)' /\ (LifeLeads(p, was.life) => LifeLeads(p, new.life)')
  <2>1. PICK s, status : s = was.review /\ status = new.review
    OBVIOUS
  <2>2. PICK l, life : l = was.life /\ life = new.life
    OBVIOUS
  <2>3. ReviewSent(p)' /\ (ReviewLeads(p, s) => ReviewLeads(p, status)')
    BY <1>1, <1>3, <2>1, ReviewTaken DEF Sent
  <2>4. LifeSent(p)' /\ (LifeLeads(p, l) => LifeLeads(p, life)')
    BY <1>1, <1>3, <2>2, LifeTaken DEF Sent
  <2> QED
    BY <2>1, <2>2, <2>3, <2>4
<1>5. Pending(p) = {} /\ \A kinds : Asking(p, kinds) = {}
  BY EmptySeq DEF Pending, Asking
<1>6. \A o \in Pending(p)' : \E i \in DOMAIN ops : ops[i] = o /\ o.op = "labels" /\ o.pr = p
  <2>1. ASSUME NEW o \in Pending(p)' PROVE \E i \in DOMAIN ops : ops[i] = o /\ o.op = "labels" /\ o.pr = p
    <3>1. o \in LabelOps /\ o.pr = p /\ \E u \in Handlers : \E i \in DOMAIN task'[u] : task'[u][i] = o
      BY <2>1 DEF Pending
    <3>2. \A u \in Handlers : u # t => DOMAIN task'[u] = {}
      BY EmptySeq
    <3> QED
      BY <3>1, <3>2 DEF LabelOps
  <2> QED
    BY <2>1
<1>7. \A i \in DOMAIN ops : ops[i].op = "labels" /\ ops[i].pr = p => ops[i] \in Pending(p)'
  <2>1. ASSUME NEW i \in DOMAIN ops, ops[i].op = "labels", ops[i].pr = p PROVE ops[i] \in Pending(p)'
    <3>1. ops[i] \in LabelOps
      BY <2>1, ElementOfSeq, OpFields
    <3> QED
      BY <2>1, <3>1 DEF Pending
  <2> QED
    BY <2>1
<1>8. /\ 1 \notin About(p, "label") => Pending(p)' = {}
      /\ 1 \in About(p, "label") =>
           Pending(p)' # {} /\ \A o \in Pending(p)' : o.ready = webhooks[1].ready
  <2>1. ASSUME 1 \notin About(p, "label"), NEW o \in Pending(p)' PROVE FALSE
    BY <1>6, <2>1 DEF Causes, About
  <2>2. ASSUME 1 \in About(p, "label") PROVE Pending(p)' # {}
    <3>1. e.kind = "label" /\ e.pr = p
      BY <2>2 DEF About
    <3>2. PICK i \in DOMAIN ops : ops[i].op = "labels"
      BY <3>1 DEF Heeds
    <3>3. ops[i].pr = p
      BY <3>1, <3>2 DEF Causes
    <3> QED
      BY <1>7, <3>2, <3>3
  <2>3. \A o \in Pending(p)' : o.ready = webhooks[1].ready
    BY <1>6 DEF Causes
  <2> QED
    BY <2>1, <2>2, <2>3
<1>9. ReadySent(p)' /\ (ReadyLeads(p, was.ready) => ReadyLeads(p, new.ready)')
  <2>1. PICK ready : ready = was.ready
    OBVIOUS
  <2>2. ReadySent(p)' /\ (ReadyLeads(p, ready) => ReadyLeads(p, ready)')
    BY <1>1, <1>5, <1>8, ReadyTaken DEF Sent
  <2> QED
    BY <1>3, <2>1, <2>2
<1>10. /\ ops # <<>> => 1 \in DOMAIN ops /\ (Op(t))' = ops[1]
       /\ 1 \in DOMAIN ops => ops # <<>> /\ (Op(t))' = ops[1]
  <2>1. Len(ops) \in Nat /\ DOMAIN ops = 1..Len(ops) /\ (ops # <<>> => Len(ops) # 0) /\ DOMAIN <<>> = {}
    BY LenProperties, EmptySeq
  <2> QED
    BY <2>1 DEF Op
<1>11. ASSUME NEW kinds, NEW u \in Asking(p, kinds)'
       PROVE  u = t /\ 1 \in DOMAIN ops /\ ops[1].op \in kinds /\ ops[1].pr = p /\ Op(u)' = ops[1]
  BY <1>10, <1>11 DEF Asking
<1>12. ASSUME NEW kinds, 1 \in DOMAIN ops, ops[1].op \in kinds, ops[1].pr = p
       PROVE  Asking(p, kinds)' # {}
  BY <1>10, <1>12 DEF Asking
<1>13. MessagesFor(p) # {} /\ FailingLeads(p, was.failing) => FailingLeads(p, new.failing)'
  <2>1. SUFFICES ASSUME MessagesFor(p) # {} PROVE FailingLeads(p, was.failing) => FailingLeads(p, new.failing)'
    OBVIOUS
  <2>2. 1 \in About(p, "check") <=> e.kind = "check" /\ e.pr = p
    BY DEF About
  <2>3. 1 \notin About(p, "check") => Asking(p, {"recheck"})' = {}
    BY <1>11, <2>2 DEF Causes
  <2>4. 1 \in About(p, "check") => Asking(p, {"recheck"})' # {}
    <3>1. SUFFICES ASSUME e.kind = "check", e.pr = p PROVE Asking(p, {"recheck"})' # {}
      BY <2>2
    <3>2. 1 \in DOMAIN ops /\ ops[1].op = "recheck"
      BY <2>1, <3>1 DEF Heeds
    <3>3. ops[1].pr = p
      BY <3>1, <3>2 DEF Causes
    <3> QED
      BY <1>12, <3>2, <3>3
  <2>5. (\A u \in Asking(p, {"recheck"}) : Op(u).answer = None)'
    BY <1>11 DEF Begins, GitHubOps
  <2>6. PICK failing : failing = was.failing
    OBVIOUS
  <2>7. Asking(p, {"recheck"}) = {}
    BY <1>5
  <2>8. FailingLeads(p, failing) => FailingLeads(p, failing)'
    BY <1>1, <2>3, <2>4, <2>5, <2>7, FailingTaken
  <2> QED
    BY <1>3, <2>6, <2>8
<1>14. MessagesFor(p) # {} /\ ResolvedLeads(p, was.resolved) => ResolvedLeads(p, new.resolved)'
  <2>1. SUFFICES ASSUME MessagesFor(p) # {} PROVE ResolvedLeads(p, was.resolved) => ResolvedLeads(p, new.resolved)'
    OBVIOUS
  <2>2. 1 \in Threaded(p) <=> (e.kind = "thread" \/ OpensThreads(e)) /\ e.pr = p
    BY DEF About, Threaded, OpensThreads
  <2>3. 1 \notin Threaded(p) => Asking(p, {"threads", "rethread"})' = {}
    BY <1>11, <2>2 DEF Causes
  <2>4. 1 \in Threaded(p) => Asking(p, {"threads", "rethread"})' # {}
    <3>1. SUFFICES ASSUME e.kind = "thread" \/ OpensThreads(e), e.pr = p
                   PROVE  Asking(p, {"threads", "rethread"})' # {}
      BY <2>2
    <3>2. 1 \in DOMAIN ops /\ ops[1].op \in {"threads", "rethread"}
      BY <2>1, <3>1 DEF Heeds
    <3>3. ops[1].pr = p
      BY <3>1, <3>2 DEF Causes
    <3> QED
      BY <1>12, <3>2, <3>3
  <2>5. (\A u \in Asking(p, {"threads", "rethread"}) : Op(u).answer = None)'
    BY <1>11 DEF Begins, GitHubOps
  <2>6. PICK resolved : resolved = was.resolved
    OBVIOUS
  <2>7. Asking(p, {"threads", "rethread"}) = {}
    BY <1>5
  <2>8. ResolvedLeads(p, resolved) => ResolvedLeads(p, resolved)'
    BY <1>1, <2>3, <2>4, <2>5, <2>7, ResolvedTaken
  <2> QED
    BY <1>3, <2>6, <2>8
<1>15. MessagesFor(p) # {} /\ Leads(p, was) => Leads(p, new)'
  BY <1>4, <1>9, <1>13, <1>14 DEF Leads
<1> QED
  BY <1>2, <1>4, <1>9, <1>15 DEF Sent

(* While nobody asks, it is the rows that count. *)
LEMMA StillUnasked ==
    ASSUME UNCHANGED <<github, webhooks>>, NEW p
    PROVE  /\ \A kind : Same(p, kind)
           /\ Truth(p)' = Truth(p)
           /\ Asking(p, {"recheck"}) = {} /\ Asking(p, {"recheck"})' = {} =>
                \A failing : FailingLeads(p, failing) => FailingLeads(p, failing)'
           /\ Asking(p, {"threads", "rethread"}) = {} /\ Asking(p, {"threads", "rethread"})' = {} =>
                \A resolved : ResolvedLeads(p, resolved) => ResolvedLeads(p, resolved)'
<1>1. \A kind : About(p, kind)' = About(p, kind)
  BY DEF About
<1>2. Threaded(p)' = Threaded(p)
  BY <1>1 DEF Threaded
<1>3. Truth(p)' = Truth(p)
  BY DEF Truth
<1> QED
  BY <1>1, <1>2, <1>3 DEF Same, FailingLeads, ResolvedLeads

LEMMA StillSent ==
    ASSUME UNCHANGED <<github, webhooks>>, NEW p, Pending(p)' \subseteq Pending(p), Sent(p)
    PROVE  Sent(p)'
  BY StillUnasked, StillReview, StillLife, StillReady DEF Sent

LEMMA QuietLeads ==
    ASSUME UNCHANGED <<github, webhooks>>, NEW p, Pending(p)' = Pending(p), Sent(p),
           Asking(p, {"recheck"}) = {}, Asking(p, {"recheck"})' = {},
           Asking(p, {"threads", "rethread"}) = {}, Asking(p, {"threads", "rethread"})' = {}
    PROVE  \A r : Leads(p, r) => Leads(p, r)'
<1>1. (\A kind : Same(p, kind)) /\ Truth(p)' = Truth(p)
  BY StillUnasked
<1>2. ASSUME NEW r, Leads(p, r) PROVE Leads(p, r)'
  <2>1. ReviewLeads(p, r.review)' /\ LifeLeads(p, r.life)'
    BY <1>1, <1>2, StillReview, StillLife DEF Leads
  <2>2. ReadyLeads(p, r.ready)'
    BY <1>1, <1>2, StillReady DEF Leads
  <2>3. FailingLeads(p, r.failing)' /\ ResolvedLeads(p, r.resolved)'
    BY <1>2, StillUnasked DEF Leads
  <2> QED
    BY <2>1, <2>2, <2>3 DEF Leads
<1> QED
  BY <1>2

LEMMA ReceiveRows ==
    ASSUME Typed, TrustInv, ShapeInv, FillInv, RowsInv, NEW t \in Handlers, Receive(t), trust' # "broken"
    PROVE  FillInv' /\ RowsInv' /\ HealInv'
<1>0. trust = "whole" /\ trust' = "whole" /\ Alone
  BY ReceiveTrust DEF Moves
<1>1. /\ TasksOK /\ filled \subseteq PRs /\ t \in Tasks
      /\ \A u \in Handlers : task[u] = <<>>
  BY <1>0 DEF Typed, HistoryOK, Alone, Idle, Tasks
<1>2. PICK ops \in Seq(OpSet) :
        /\ Starts(t, ops) /\ Begins(ops) /\ UNCHANGED github
        /\ \/ \E i \in DOMAIN webhooks : \E kind :
                Delivers(t, i, kind) /\ Writes(webhooks[i]) /\ Causes(webhooks[i], ops) /\ Heeds(webhooks[i], ops)
           \/ Only(ops, Plain) /\ Trusting(Alone, {}) /\ UNCHANGED <<webhooks, row>>
  BY ReceiveBegins DEF Begun
<1>3. task'[t] = ops /\ \A u \in Handlers : u # t => task[u] = <<>> /\ task'[u] = <<>>
  BY <1>1, <1>2 DEF Starts, TasksOK, Tasks
<1>4. ASSUME NEW u \in Handlers, task'[u] # <<>> PROVE u = t /\ 1 \in DOMAIN ops /\ (Op(t))' = ops[1]
  <2>1. Len(ops) \in Nat /\ DOMAIN ops = 1..Len(ops) /\ (ops # <<>> => Len(ops) # 0)
    BY LenProperties, EmptySeq
  <2> QED
    BY <1>3, <1>4, <2>1 DEF Op
<1>5. CASE \E i \in DOMAIN webhooks : \E kind :
             Delivers(t, i, kind) /\ Writes(webhooks[i]) /\ Causes(webhooks[i], ops) /\ Heeds(webhooks[i], ops)
  <2>1. PICK i \in DOMAIN webhooks : \E kind :
          Delivers(t, i, kind) /\ Writes(webhooks[i]) /\ Causes(webhooks[i], ops) /\ Heeds(webhooks[i], ops)
    BY <1>5
  <2>2. /\ webhooks' = RemoveAt(webhooks, i) /\ Trusting(Alone /\ i = 1, {}) /\ message' = message
        /\ webhooks[i] \in Events
    BY <2>1, DeliversTyped DEF Delivers, Typed
  <2>3. i = 1 /\ Fill({})
    BY <1>0, <2>2, TrustingMoves DEF Trusting
  <2>4. FillInv' /\ filled' \subseteq filled
    <3>1. \A p \in filled : row'[p] # None
      BY <1>1, <2>1 DEF Writes, FillInv
    <3> QED
      BY <1>0, <2>3, <3>1, FillFrom
  <2>5. ASSUME NEW p \in PRs
        PROVE  Sent(p)' /\ (MessagesFor(p) # {} /\ Leads(p, RowOr(p)) => Leads(p, RowOr(p))')
    <3>1. Sent(p)
      BY <1>0 DEF RowsInv
    <3> QED
      BY <1>1, <1>2, <1>3, <2>1, <2>2, <2>3, <3>1, DeliveredLeads
  <2>6. ASSUME NEW p \in filled' PROVE Leads(p, RowOr(p))'
    BY <1>0, <1>1, <2>4, <2>5, <2>6 DEF RowsInv, FillInv
  <2>7. ASSUME NEW u \in Handlers, task'[u] # <<>>
        PROVE  (Op(u).op # "fetch" /\ (Op(u).op = "threads" => Op(u).known = RowOr(Op(u).pr).resolved))'
    <3>1. u = t /\ 1 \in DOMAIN ops /\ Op(u)' = ops[1]
      BY <1>4, <2>7
    <3>2. ops[1].op # "fetch"
      BY <1>2, <3>1 DEF Begins, Plain, OnLabel
    <3>3. ASSUME ops[1].op = "threads" PROVE ops[1].known = RowOr(ops[1].pr)'.resolved
      <4>1. ops[1].pr = webhooks[i].pr /\ ops[1].known = RowOr(webhooks[i].pr).resolved
        BY <2>1, <3>1, <3>3 DEF Causes
      <4>2. webhooks[i].pr \in PRs
        BY <2>2, EventFields
      <4>3. \A p \in PRs : RowOr(p)'.resolved = RowOr(p).resolved
        BY <2>1 DEF Writes, After
      <4>4. PICK q \in PRs : q = webhooks[i].pr
        BY <4>2
      <4> QED
        BY <4>1, <4>3, <4>4
    <3> QED
      BY <3>1, <3>2, <3>3
  <2> QED
    BY <1>0, <2>4, <2>5, <2>6, <2>7 DEF RowsInv, HealInv
<1>6. CASE Only(ops, Plain) /\ Trusting(Alone, {}) /\ UNCHANGED <<webhooks, row>>
  <2>1. FillInv' /\ filled' \subseteq filled
    BY <1>0, <1>6, FillFrom DEF FillInv, Trusting
  <2>2. \A i \in DOMAIN ops : ops[i].op \notin GitHubOps /\ ops[i].op # "labels"
    BY <1>6 DEF Only, Plain, GitHubOps
  <2>3. ASSUME NEW u \in Handlers, task'[u] # <<>> PROVE Op(u)'.op \notin GitHubOps
    BY <1>4, <2>2, <2>3
  <2>4. ASSUME NEW p
        PROVE  /\ Pending(p)' = Pending(p)
               /\ \A kinds \in SUBSET GitHubOps : Asking(p, kinds) = {} /\ Asking(p, kinds)' = {}
    <3>1. Pending(p) = {}
      BY <1>1, EmptySeq DEF Pending
    <3>2. Pending(p)' = {}
      <4>1. \A u \in Handlers : \A i \in DOMAIN task'[u] : task'[u][i].op # "labels"
        BY <1>3, <2>2, EmptySeq
      <4> QED
        BY <4>1 DEF Pending, LabelOps
    <3>3. ASSUME NEW kinds \in SUBSET GitHubOps PROVE Asking(p, kinds) = {} /\ Asking(p, kinds)' = {}
      BY <1>1, <2>3 DEF Asking
    <3> QED
      BY <3>1, <3>2, <3>3
  <2>5. ASSUME NEW p \in PRs PROVE Sent(p)' /\ \A r : Leads(p, r) => Leads(p, r)'
    <3>1. Sent(p)
      BY <1>0 DEF RowsInv
    <3>2. {"recheck"} \in SUBSET GitHubOps /\ {"threads", "rethread"} \in SUBSET GitHubOps
      BY DEF GitHubOps
    <3> QED
      BY <1>2, <1>6, <2>4, <3>1, <3>2, StillSent, QuietLeads
  <2>6. ASSUME NEW p \in filled' PROVE Leads(p, RowOr(p))'
    <3>1. PICK r : r = RowOr(p)
      OBVIOUS
    <3>2. RowOr(p)' = RowOr(p)
      BY <1>6 DEF RowOr
    <3>3. Leads(p, r)'
      BY <1>0, <1>1, <2>1, <2>5, <2>6, <3>1 DEF RowsInv
    <3> QED
      BY <3>1, <3>2, <3>3
  <2> QED
    BY <1>0, <2>1, <2>3, <2>5, <2>6 DEF RowsInv, HealInv, GitHubOps
<1> QED
  BY <1>2, <1>5, <1>6
-----------------------------------------------------------------------------
(* What a step writes, and what it leaves to do. *)
OnlySets(p, r) == RowOr(p)' = r /\ \A q \in PRs : q # p => RowOr(q)' = RowOr(q)

LEMMA SetsOnly ==
    ASSUME TablesOK, NEW p \in PRs, NEW r \in Row,
           (row' = row /\ RowOr(p) = r) \/ row' = [row EXCEPT ![p] = r]
    PROVE  OnlySets(p, r)
<1>1. CASE row' = row /\ RowOr(p) = r
  BY <1>1 DEF OnlySets, RowOr
<1>2. CASE row' = [row EXCEPT ![p] = r]
  <2>1. row'[p] = r /\ r # None /\ \A q \in PRs : q # p => row'[q] = row[q]
    BY <1>2, RowIsSome DEF TablesOK
  <2> QED
    BY <2>1 DEF OnlySets, RowOr
<1> QED
  BY <1>1, <1>2

LEMMA StepOfLabels ==
    ASSUME NEW t, Step(t), Op(t).op = "labels"
    PROVE  StoreLabels(t)
  BY DEF Step, Answer, GitHubOps, IngestMessage, LookUpState, FetchAndStore, ReadRows, FetchMessage, UpdateDone,
     React, DmUser, Sleep, DiscordFails, ReadThreads, NotifyMessages, RecheckThreads, RecheckChecks, FetchAuthor,
     AutopostLands, Autopost, AutopostUnanswered, Unguard, RereadMessage, ScanHistory, ListActivePRs, PollPR, SweepMessages, StartupComplete, Answered, At

(* Of the rows, a step of a handler sets at most the column it asked for. *)
LEMMA StepColumns ==
    ASSUME Typed, AwaitInv, RowsInv, trust = "whole", NEW t \in Handlers, task[t] # <<>>, Step(t),
           ~\E lost : Answer(t, lost), Op(t).op # "poll",
           NEW o, o = Op(t), NEW p, p = o.pr, NEW r, r = RowOr(p), NEW a, a = o.answer
    PROVE  \/ FetchAndStore(t) /\ o.op = "fetch" /\ p \in PRs /\ a # None /\ OnlySets(p, a.row) /\ row'[p] # None
           \/ /\ o.op \in {"threads", "rethread"} /\ p \in PRs /\ a # None
              /\ OnlySets(p, [r EXCEPT !.resolved = a.row.resolved])
           \/ /\ o.op = "recheck" /\ p \in PRs /\ a # None
              /\ OnlySets(p, [r EXCEPT !.failing = a.row.failing])
           \/ o \in LabelOps /\ p \in PRs /\ OnlySets(p, [r EXCEPT !.ready = o.ready])
           \/ o.op \notin (GitHubOps \ {"author"}) \cup {"labels"} /\ \A q \in PRs : RowOr(q)' = RowOr(q)
<1>0. TablesOK /\ TasksOK /\ t \in Tasks /\ o \in OpSet /\ StepFrame(t)
  BY OpTyped, StepFrames DEF Typed, Tasks
<1>1. ASSUME o.op \in GitHubOps
      PROVE  /\ p \in PRs /\ a \in [row: Row, lost: SUBSET {"all", "failing", "resolved"}] /\ a.lost = {}
             /\ a # None /\ r \in Row /\ a.row \in Row
             /\ FetchAndStore(t) \/ ReadThreads(t) \/ RecheckThreads(t) \/ RecheckChecks(t) \/ FetchAuthor(t)
  <2>1. \/ FetchAndStore(t) \/ ReadThreads(t) \/ RecheckThreads(t) \/ RecheckChecks(t) \/ PollPR(t)
        \/ FetchAuthor(t)
    BY <1>1, StepOfHead
  <2>2. ~PollPR(t)
    BY DEF PollPR, Answered, At
  <2>3. Answered(t, o.op) /\ a # None
    BY <2>1, <2>2 DEF FetchAndStore, ReadThreads, RecheckThreads, RecheckChecks, FetchAuthor, Answered, At
  <2>4. p \in PRs /\ a \in [row: Row, lost: SUBSET {"all", "failing", "resolved"}]
    BY <1>0, <1>1, <2>3, AnswerTyped
  <2>5. a.lost = {}
    BY <1>1, <2>3 DEF AwaitInv
  <2> QED
    BY <1>0, <2>1, <2>2, <2>3, <2>4, <2>5, RowOrTyped
<1>2. CASE FetchAndStore(t)
  <2>1. o.op = "fetch"
    BY <1>2 DEF FetchAndStore, Answered, At
  <2>2. Read(t, r) = a.row
    BY <1>1, <2>1 DEF Read, Unread, GitHubOps, Row
  <2>3. row' = [row EXCEPT ![p] = a.row]
    BY <1>1, <1>2, <2>1, <2>2 DEF FetchAndStore, Unread, GitHubOps
  <2>4. OnlySets(p, a.row) /\ row'[p] # None
    BY <1>0, <1>1, <2>1, <2>3, SetsOnly, RowIsSome DEF GitHubOps, TablesOK
  <2> QED
    BY <1>1, <1>2, <2>1, <2>4 DEF GitHubOps
<1>3. CASE ReadThreads(t) \/ RecheckThreads(t)
  <2>1. o.op \in {"threads", "rethread"}
    BY <1>3 DEF ReadThreads, RecheckThreads, Answered, At
  <2>2. p \in PRs /\ r \in Row /\ a.row \in Row /\ a.lost = {} /\ a # None
    BY <1>1, <2>1 DEF GitHubOps
  <2> DEFINE n == [r EXCEPT !.resolved = a.row.resolved]
  <2>3. n \in Row /\ (r.resolved = a.row.resolved => r = n)
    BY <2>2 DEF Row
  <2>4. (row' = row /\ r.resolved = a.row.resolved) \/ row' = [row EXCEPT ![p] = n]
    <3>1. CASE ReadThreads(t)
      <4>1. o.known = r.resolved
        BY <3>1 DEF ReadThreads, Answered, At, RowsInv
      <4> QED
        BY <2>2, <3>1, <4>1 DEF ReadThreads, Unread
    <3>2. CASE RecheckThreads(t)
      BY <2>2, <3>2 DEF RecheckThreads, Unread, RowOr
    <3> QED
      BY <1>3, <3>1, <3>2
  <2> HIDE DEF n
  <2>5. OnlySets(p, n)
    BY <1>0, <2>2, <2>3, <2>4, SetsOnly
  <2> QED
    BY <2>1, <2>2, <2>5 DEF n
<1>4. CASE RecheckChecks(t)
  <2>1. o.op = "recheck"
    BY <1>4 DEF RecheckChecks, Answered, At
  <2>2. p \in PRs /\ r \in Row /\ a.row \in Row /\ a.lost = {} /\ a # None
    BY <1>1, <2>1 DEF GitHubOps
  <2> DEFINE n == [r EXCEPT !.failing = a.row.failing]
  <2>3. n \in Row /\ (r.failing = a.row.failing => r = n)
    BY <2>2 DEF Row
  <2>4. (row' = row /\ r.failing = a.row.failing) \/ row' = [row EXCEPT ![p] = n]
    BY <1>4, <2>2 DEF RecheckChecks, Unread
  <2> HIDE DEF n
  <2>5. OnlySets(p, n)
    BY <1>0, <2>2, <2>3, <2>4, SetsOnly
  <2> QED
    BY <2>1, <2>2, <2>5 DEF n
<1>5. CASE StoreLabels(t)
  <2>1. o \in LabelOps
    BY <1>0, <1>5, OpFields DEF StoreLabels, At
  <2>2. p \in PRs /\ o.ready \in BOOLEAN /\ r \in Row
    BY <1>0, <2>1, RowOrTyped DEF LabelOps
  <2> DEFINE n == [r EXCEPT !.ready = o.ready]
  <2>3. n \in Row /\ (r.ready = o.ready => r = n)
    BY <2>2 DEF Row
  <2>4. (row' = row /\ r.ready = o.ready) \/ row' = [row EXCEPT ![p] = n]
    BY <1>5 DEF StoreLabels
  <2> HIDE DEF n
  <2>5. OnlySets(p, n)
    BY <1>0, <2>2, <2>3, <2>4, SetsOnly
  <2> QED
    BY <2>1, <2>2, <2>5 DEF n
<1>6. CASE ~FetchAndStore(t) /\ ~ReadThreads(t) /\ ~RecheckThreads(t) /\ ~RecheckChecks(t) /\ ~StoreLabels(t)
  <2>1. o.op \notin GitHubOps \ {"author"}
    BY <1>1, <1>6 DEF FetchAuthor, Answered, At
  <2>2. o.op # "labels"
    BY <1>6, StepOfLabels
  <2>3. ~PollPR(t)
    BY DEF PollPR, Answered, At
  <2>4. CASE ReadRows(t)
    <3>1. PICK links : row' = [q \in PRs |-> IF q \in links THEN RowOr(q) ELSE row[q]]
      BY <2>4 DEF ReadRows
    <3>2. \A q \in PRs : row'[q] = row[q] \/ (row'[q] = RowOr(q) /\ row'[q] # None)
      BY <1>0, <3>1, RowOrTyped, RowIsSome
    <3>3. \A q \in PRs : RowOr(q)' = RowOr(q)
      BY <3>2 DEF RowOr
    <3> QED
      BY <2>1, <2>2, <3>3
  <2>5. CASE row' = row
    BY <2>1, <2>2, <2>5 DEF RowOr
  <2> QED
    BY <1>0, <1>6, <2>3, <2>4, <2>5 DEF StepFrame, ChangesRow
<1> QED
  BY <1>2, <1>3, <1>4, <1>5, <1>6

(* Only the handler of a label event has labels to store, and it adds none. *)
LEMMA StepPending ==
    ASSUME TasksOK, NEW t \in Handlers, task[t] # <<>>, NEW ops \in Seq(OpSet), Then(t, ops),
           Adds(Op(t), ops), \A u \in Handlers : u # t => task'[u] = task[u], NEW p
    PROVE  /\ Pending(p)' \subseteq Pending(p)
           /\ Op(t) \notin LabelOps \/ Op(t).pr # p => Pending(p)' = Pending(p)
<1>1. /\ Len(ops) \in Nat /\ Len(task[t]) \in Nat \ {0} /\ DOMAIN ops = 1..Len(ops)
      /\ DOMAIN task[t] = 1..Len(task[t])
      /\ DOMAIN task'[t] = 1..(Len(ops) + Len(task[t]) - 1)
      /\ \A i \in DOMAIN task'[t] :
           task'[t][i] = IF i <= Len(ops) THEN ops[i] ELSE task[t][i - Len(ops) + 1]
  BY TaskAfter DEF Tasks
<1>2. Op(t) = task[t][1]
  BY TaskFields DEF Tasks
<1>3. \A i \in DOMAIN ops : ops[i].op # "labels"
  BY DEF Adds, OnLabel
<1>4. \A k, n \in Nat, i \in Int : i \in 1..(k + n - 1) /\ ~(i <= k) => i - k + 1 \in 1..n
  OBVIOUS
<1>5. \A k, n \in Nat, j \in Int : j \in 1..n /\ j # 1 =>
        \E i \in 1..(k + n - 1) : ~(i <= k) /\ i - k + 1 = j
  <2>1. ASSUME NEW k \in Nat, NEW n \in Nat, NEW j \in 1..n, j # 1
        PROVE  j + k - 1 \in 1..(k + n - 1) /\ ~(j + k - 1 <= k) /\ j + k - 1 - k + 1 = j
    BY <2>1
  <2> QED
    BY <2>1
<1>6. ASSUME NEW i \in DOMAIN task'[t], task'[t][i] \in LabelOps
      PROVE  \E j \in DOMAIN task[t] : task[t][j] = task'[t][i]
  <2>1. ~(i <= Len(ops))
    <3>1. SUFFICES ASSUME i <= Len(ops) PROVE FALSE
      OBVIOUS
    <3>2. i \in DOMAIN ops /\ task'[t][i] = ops[i]
      BY <1>1, <3>1
    <3> QED
      BY <1>3, <1>6, <3>2 DEF LabelOps
  <2>2. i - Len(ops) + 1 \in 1..Len(task[t])
    BY <1>1, <1>4, <2>1
  <2> QED
    BY <1>1, <2>1, <2>2
<1>7. ASSUME NEW j \in DOMAIN task[t], j # 1
      PROVE  \E i \in DOMAIN task'[t] : task'[t][i] = task[t][j]
  <2>0. j \in 1..Len(task[t]) /\ j \in Int
    BY <1>1, <1>7
  <2>1. PICK i \in 1..(Len(ops) + Len(task[t]) - 1) : ~(i <= Len(ops)) /\ i - Len(ops) + 1 = j
    BY <1>1, <1>5, <1>7, <2>0
  <2> QED
    BY <1>1, <2>1
<1>8. Pending(p)' \subseteq Pending(p)
  BY <1>6 DEF Pending
<1>9. ASSUME Op(t) \notin LabelOps \/ Op(t).pr # p, NEW o \in Pending(p) PROVE o \in Pending(p)'
  <2>1. o \in LabelOps /\ o.pr = p
    BY <1>9 DEF Pending
  <2>2. PICK u \in Handlers : \E j \in DOMAIN task[u] : task[u][j] = o
    BY <1>9 DEF Pending
  <2>3. \E i \in DOMAIN task'[u] : task'[u][i] = o
    <3>1. CASE u = t
      BY <1>2, <1>7, <1>9, <2>1, <2>2, <3>1
    <3>2. CASE u # t
      BY <2>2, <3>2
    <3> QED
      BY <3>1, <3>2
  <2> QED
    BY <2>1, <2>3 DEF Pending
<1> QED
  BY <1>8, <1>9

(* What leads to the truth does so once the answer is stored. *)
LEMMA StepLeads ==
    ASSUME UNCHANGED <<github, webhooks>>, NEW p, Sent(p), NEW r, Leads(p, r), NEW s,
           s.review = r.review, s.life = r.life,
           \/ Pending(p)' = Pending(p) /\ s.ready = r.ready
           \/ \E o \in Pending(p) : s.ready = o.ready,
           \/ Asking(p, {"recheck"}) = {} /\ s.failing = r.failing
           \/ \E u \in Asking(p, {"recheck"}) : Op(u).answer # None /\ s.failing = Op(u).answer.row.failing,
           \/ Asking(p, {"threads", "rethread"}) = {} /\ s.resolved = r.resolved
           \/ \E u \in Asking(p, {"threads", "rethread"}) :
                Op(u).answer # None /\ s.resolved = Op(u).answer.row.resolved,
           Asking(p, {"recheck"})' = {}, Asking(p, {"threads", "rethread"})' = {},
           Pending(p)' \subseteq Pending(p)
    PROVE  Leads(p, s)'
<1>1. (\A kind : Same(p, kind)) /\ Truth(p)' = Truth(p)
  BY StillUnasked
<1>2. \A kind : About(p, kind)' = About(p, kind)
  BY <1>1 DEF Same
<1>3. Threaded(p)' = Threaded(p)
  BY <1>2 DEF Threaded
<1>4. ReviewLeads(p, s.review)' /\ LifeLeads(p, s.life)'
  BY <1>1, StillReview, StillLife DEF Leads
<1>5. ReadyLeads(p, s.ready)'
  <2>1. CASE Pending(p)' = Pending(p) /\ s.ready = r.ready
    BY <1>1, <1>2, <2>1 DEF Leads, ReadyLeads
  <2>2. CASE \E o \in Pending(p) : s.ready = o.ready
    BY <1>1, <1>2, <2>2 DEF Sent, ReadySent, ReadyLeads
  <2> QED
    BY <2>1, <2>2
<1>6. FailingLeads(p, s.failing)'
  BY <1>1, <1>2 DEF Leads, FailingLeads
<1>7. ResolvedLeads(p, s.resolved)'
  BY <1>1, <1>3 DEF Leads, ResolvedLeads
<1> QED
  BY <1>4, <1>5, <1>6, <1>7 DEF Leads

(* The PRs fetched stay fetched, and a fetched PR has a row. *)
LEMMA StepFills ==
    ASSUME Typed, FillInv, NEW t \in Tasks, task[t] # <<>>, Step(t), trust' # "broken",
           FetchAndStore(t) \/ PollPR(t) => row'[Op(t).pr] # None
    PROVE  /\ FillInv' /\ filled' \subseteq filled \cup {Op(t).pr}
           /\ ~FetchAndStore(t) /\ ~PollPR(t) => filled' \subseteq filled
<1>1. StepFrame(t) /\ filled \subseteq PRs
  BY StepFrames DEF Typed, HistoryOK
<1>2. \A p \in filled : row'[p] # None
  <2>1. row' = row \/ \A p \in PRs : row[p] # None => row'[p] # None
    BY <1>1, StepRow DEF StepFrame, Typed
  <2> QED
    BY <1>1, <2>1 DEF FillInv
<1>3. CASE Fill({})
  <2>1. FillInv' /\ filled' \subseteq filled
    BY <1>2, <1>3, FillFrom
  <2> QED
    BY <2>1
<1>4. CASE (FetchAndStore(t) \/ PollPR(t)) /\ Fill({Op(t).pr})
  <2>1. FillInv' /\ filled' \subseteq filled \cup {Op(t).pr}
    <3>1. PICK p : p = Op(t).pr
      OBVIOUS
    <3> QED
      BY <1>2, <1>4, <3>1, FillFrom
  <2> QED
    BY <1>4, <2>1
<1>5. CASE UNCHANGED filled /\ (UpdateDone(t) \/ UNCHANGED message)
  <2>1. \A p : MessagesFor(p) \subseteq MessagesFor(p)'
    <3>1. CASE UNCHANGED message
      BY <3>1 DEF MessagesFor, Tracked
    <3>2. CASE UpdateDone(t)
      <4>1. PICK m : m = Op(t).message
        OBVIOUS
      <4>2. \/ message' = message
            \/ \E d \in BOOLEAN : m \in Tracked /\ message' = [message EXCEPT ![m] = [links |-> message[m].links, done |-> d]]
        BY <3>2, <4>1 DEF UpdateDone
      <4>3. CASE message' = message
        BY <4>3 DEF MessagesFor, Tracked
      <4>4. CASE \E d \in BOOLEAN : m \in Tracked /\ message' = [message EXCEPT ![m] = [links |-> message[m].links, done |-> d]]
        <5>1. PICK d \in BOOLEAN : message' = [message EXCEPT ![m] = [links |-> message[m].links, done |-> d]]
          BY <4>4
        <5>2. m \in Messages /\ message[m].links \subseteq PRs
          BY <4>4 DEF Tracked, Typed, TablesOK, Entries
        <5> DEFINE x == [links |-> message[m].links, done |-> d]
        <5>3. x # None /\ x.links = message[m].links
          <6>1. x \in [links: SUBSET PRs, done: BOOLEAN]
            BY <5>2
          <6> QED
            BY <6>1, PrBotAssumption
        <5>4. \A n \in Messages : message'[n] = IF n = m THEN x ELSE message[n]
          BY <5>1 DEF Typed, TablesOK
        <5> HIDE DEF x
        <5> QED
          BY <5>3, <5>4 DEF MessagesFor, Tracked
      <4> QED
        BY <4>2, <4>3, <4>4
    <3> QED
      BY <1>5, <3>1, <3>2
  <2>2. FillInv'
    <3>1. ASSUME NEW p \in filled' PROVE row'[p] # None /\ MessagesFor(p)' # {}
      BY <1>2, <1>5, <2>1, <3>1 DEF FillInv
    <3> QED
      BY <3>1 DEF FillInv
  <2> QED
    BY <1>5, <2>2
<1>6. Fill({}) \/ ((FetchAndStore(t) \/ PollPR(t)) /\ Fill({Op(t).pr})) \/ (UNCHANGED filled /\ (UpdateDone(t) \/ UNCHANGED message))
  <2>1. (\E lost \in Lost(Op(t).op) : Answer(t, lost)) \/ IngestMessage(t) \/ DiscordFails(t) \/ ListActivePRs(t)
        \/ (\E emoji \in Emoji, fails \in BOOLEAN : React(t, emoji, fails)) => Fill({})
    BY DEF Answer, IngestMessage, DiscordFails, ListActivePRs, React, Trusting
  <2>6. AutopostUnanswered(t) => Fill({})
    BY DEF AutopostUnanswered, Trusting
  <2>2. FetchAndStore(t) \/ PollPR(t) => Fill({Op(t).pr})
    BY DEF FetchAndStore, PollPR, Trusting
  <2>3. StartupComplete(t) \/ FetchAuthor(t) \/ Autopost(t) \/ DmUser(t) => UNCHANGED filled
    BY DEF StartupComplete, FetchAuthor, Autopost, DmUser, history
  <2>4. LookUpState(t) \/ ReadRows(t) \/ FetchMessage(t) \/ UpdateDone(t) \/ Sleep(t) \/ ReadThreads(t)
        \/ NotifyMessages(t) \/ RecheckThreads(t) \/ RecheckChecks(t) \/ Unguard(t) \/ StoreLabels(t)
        \/ RereadMessage(t) \/ ScanHistory(t) \/ SweepMessages(t) => UNCHANGED filled
    BY DEF LookUpState, ReadRows, FetchMessage, UpdateDone, Sleep, ReadThreads, NotifyMessages, RecheckThreads,
       RecheckChecks, Unguard, StoreLabels, RereadMessage, ScanHistory, SweepMessages, history
  <2>5. IngestMessage(t) \/ UpdateDone(t) \/ UNCHANGED message
    BY <1>1 DEF StepFrame
  <2> QED
    BY <2>1, <2>2, <2>3, <2>4, <2>5, <2>6 DEF Step
<1> QED
  BY <1>3, <1>4, <1>5, <1>6

(* An answer is the truth of its moment, and only the head is any different. *)
LEMMA AnswerHead ==
    ASSUME Typed, NEW t \in Tasks, task[t] # <<>>, Answer(t, {}), NEW o, o = Op(t)
    PROVE  /\ o.op \in GitHubOps /\ o.answer = None /\ o.pr \in PRs /\ Truth(o.pr) \in Row
           /\ task'[t] # <<>> /\ Op(t)'.op = o.op /\ Op(t)'.pr = o.pr /\ Op(t)'.known = o.known
           /\ Op(t)'.answer = [row |-> Truth(o.pr), lost |-> {}]
           /\ UNCHANGED <<github, webhooks, row, message>>
           /\ DOMAIN task'[t] = DOMAIN task[t] /\ \A i \in DOMAIN task[t] : i # 1 => task'[t][i] = task[t][i]
           /\ 1 \in DOMAIN task[t] /\ task'[t][1] = Op(t)' /\ task[t][1] = o
           /\ \A u \in Tasks : u # t => task'[u] = task[u]
<1> DEFINE a == [row |-> Truth(o.pr), lost |-> {}]
           x == [o EXCEPT !.answer = a]
<1>0. /\ TasksOK /\ GitHubOK /\ o \in OpSet /\ o.op \in GitHubOps /\ o.answer = None
      /\ UNCHANGED <<github, webhooks, row, message>> /\ Then(t, <<x>>)
  BY OpTyped DEF Typed, Answer, env, queues, tables
<1>1. o.pr \in PRs /\ Truth(o.pr) \in Row
  BY <1>0, AwaitFields, TruthTyped
<1>2. a \in Answers
  <2>1. a \in [row: Row, lost: SUBSET {"all", "failing", "resolved"}]
    BY <1>1
  <2> HIDE DEF a
  <2> QED
    BY <2>1 DEF Answers
<1> HIDE DEF a
<1>3. x \in OpSet /\ x.op = o.op /\ x.pr = o.pr /\ x.known = o.known /\ x.answer = a
  <2>1. x \in OpSet
    BY <1>0, <1>2, AnswerGiven, GivenOpSet DEF Given
  <2>2. o \in Fetches \/ o \in Threads \/ o \in Rethreads \/ o \in Rechecks \/ o \in Polls
    BY <1>0, OpFields DEF GitHubOps
  <2>3. x.op = o.op /\ x.pr = o.pr /\ x.known = o.known /\ x.answer = a
    BY <2>2 DEF Fetches, Threads, Rethreads, Rechecks, Polls
  <2> QED
    BY <2>1, <2>3
<1> HIDE DEF x
<1>4. <<x>> \in Seq(OpSet) /\ Len(<<x>>) = 1 /\ DOMAIN <<x>> = {1} /\ <<x>>[1] = x
  BY <1>3, OneOp
<1>5. /\ task'[t] \in Seq(OpSet) /\ Len(task[t]) \in Nat \ {0} /\ DOMAIN task[t] = 1..Len(task[t])
      /\ DOMAIN task'[t] = 1..(Len(<<x>>) + Len(task[t]) - 1)
      /\ \A i \in DOMAIN task'[t] :
           task'[t][i] = IF i <= Len(<<x>>) THEN <<x>>[i] ELSE task[t][i - Len(<<x>>) + 1]
      /\ \A u \in Tasks : u # t => task'[u] = task[u]
  BY <1>0, <1>4, TaskAfter
<1>6. \A n \in Nat \ {0} : 1 + n - 1 = n /\ 1 \in 1..n /\ 1 <= 1 /\ \A i \in 1..n : i # 1 => ~(i <= 1) /\ i - 1 + 1 = i
  OBVIOUS
<1>7. DOMAIN task'[t] = DOMAIN task[t] /\ 1 \in DOMAIN task[t]
  BY <1>4, <1>5, <1>6
<1>8. task'[t][1] = x
  BY <1>4, <1>5, <1>6, <1>7
<1>9. \A i \in DOMAIN task[t] : i # 1 => task'[t][i] = task[t][i]
  <2>1. ASSUME NEW i \in DOMAIN task[t], i # 1 PROVE task'[t][i] = task[t][i]
    <3>1. ~(i <= 1) /\ i - 1 + 1 = i
      BY <1>5, <1>6, <2>1
    <3> QED
      BY <1>4, <1>5, <1>7, <3>1
  <2> QED
    BY <2>1
<1>10. task'[t] # <<>> /\ Op(t)' = task'[t][1]
  BY <1>5, <1>7, EmptySeq DEF Op
<1>11. task[t][1] = o
  BY <1>0, TaskFields
<1> QED
  BY <1>0, <1>1, <1>2, <1>3, <1>5, <1>7, <1>8, <1>9, <1>10, <1>11 DEF a

LEMMA AnswerLeads ==
    ASSUME Typed, NEW t \in Handlers, task[t] # <<>>, Answer(t, {}),
           \A u \in Handlers : u # t => task[u] = <<>> /\ task'[u] = <<>>, NEW p, Sent(p)
    PROVE  /\ Sent(p)' /\ \A r : Leads(p, r) => Leads(p, r)'
           /\ Op(t).op = "fetch" => Leads(p, Truth(p))'
<1>1. PICK o : o = Op(t)
  OBVIOUS
<1>2. /\ o.op \in GitHubOps /\ task'[t] # <<>> /\ Op(t)'.op = o.op /\ Op(t)'.pr = o.pr
      /\ Op(t)'.answer = [row |-> Truth(o.pr), lost |-> {}]
      /\ UNCHANGED <<github, webhooks>>
  BY <1>1, AnswerHead DEF Tasks
<1>3. Pending(p)' = Pending(p)
  <2>1. o \notin LabelOps
    BY <1>2 DEF LabelOps, GitHubOps
  <2>2. /\ DOMAIN task'[t] = DOMAIN task[t] /\ 1 \in DOMAIN task[t]
        /\ \A i \in DOMAIN task[t] : i # 1 => task'[t][i] = task[t][i]
        /\ task[t][1] = o /\ task'[t][1] = Op(t)'
    BY <1>1, AnswerHead DEF Tasks
  <2>3. task'[t][1] \notin LabelOps
    <3>1. task'[t][1].op = o.op
      BY <1>2, <2>2
    <3> QED
      BY <1>2, <3>1 DEF LabelOps, GitHubOps
  <2>4. \A u \in Handlers : u # t => task'[u] = task[u]
    OBVIOUS
  <2>5. \A u \in Handlers : DOMAIN task'[u] = DOMAIN task[u]
    BY <2>2, <2>4
  <2>6. ASSUME NEW x \in LabelOps, NEW u \in Handlers, NEW i \in DOMAIN task[u]
        PROVE  task'[u][i] = x <=> task[u][i] = x
    BY <2>1, <2>2, <2>3, <2>4, <2>6
  <2> QED
    BY <2>5, <2>6 DEF Pending
<1>4. /\ \A kind : Same(p, kind)
      /\ Truth(p)' = Truth(p)
  BY <1>2, StillUnasked
<1>5. ASSUME NEW kinds
      PROVE  /\ Asking(p, kinds)' = Asking(p, kinds) /\ Asking(p, kinds) \subseteq {t}
             /\ Asking(p, kinds) = {} <=> o.op \notin kinds \/ o.pr # p
  BY <1>1, <1>2 DEF Asking
<1>6. Sent(p)'
  BY <1>2, <1>3, StillSent
<1>7. (\A kind : About(p, kind)' = About(p, kind)) /\ Threaded(p)' = Threaded(p)
  BY <1>2 DEF About, Threaded
<1>8. ASSUME NEW r, Leads(p, r) PROVE Leads(p, r)'
  <2>1. ReviewLeads(p, r.review)' /\ LifeLeads(p, r.life)' /\ ReadyLeads(p, r.ready)'
    BY <1>3, <1>4, <1>8, StillReview, StillLife, StillReady DEF Leads
  <2>2. FailingLeads(p, r.failing)'
    <3>1. CASE Asking(p, {"recheck"}) = {}
      BY <1>4, <1>5, <1>7, <1>8, <3>1 DEF Leads, FailingLeads
    <3>2. CASE Asking(p, {"recheck"}) # {}
      <4>1. o.pr = p /\ \A u \in Asking(p, {"recheck"})' : Op(u)'.answer.row.failing = Truth(p).failing
        BY <1>2, <1>5, <3>2
      <4>2. Asking(p, {"recheck"})' # {}
        BY <1>5, <3>2
      <4> QED
        BY <1>4, <4>1, <4>2 DEF FailingLeads
    <3> QED
      BY <3>1, <3>2
  <2>3. ResolvedLeads(p, r.resolved)'
    <3>1. CASE Asking(p, {"threads", "rethread"}) = {}
      BY <1>4, <1>5, <1>7, <1>8, <3>1 DEF Leads, ResolvedLeads
    <3>2. CASE Asking(p, {"threads", "rethread"}) # {}
      <4>1. o.pr = p /\ \A u \in Asking(p, {"threads", "rethread"})' : Op(u)'.answer.row.resolved = Truth(p).resolved
        BY <1>2, <1>5, <3>2
      <4>2. Asking(p, {"threads", "rethread"})' # {}
        BY <1>5, <3>2
      <4> QED
        BY <1>4, <4>1, <4>2 DEF ResolvedLeads
    <3> QED
      BY <3>1, <3>2
  <2> QED
    BY <2>1, <2>2, <2>3 DEF Leads
<1>9. ASSUME o.op = "fetch" PROVE Leads(p, Truth(p))
  <2>1. ReviewLeads(p, Truth(p).review)
    BY DEF Sent, ReviewSent, ReviewLeads
  <2>2. Asking(p, {"recheck"}) = {} /\ Asking(p, {"threads", "rethread"}) = {}
    BY <1>5, <1>9
  <2> QED
    BY <2>1, <2>2 DEF Leads, LifeLeads, ReadyLeads, FailingLeads, ResolvedLeads
<1>10. Op(t).op = "fetch" => Leads(p, Truth(p))'
  <2>1. SUFFICES ASSUME o.op = "fetch" PROVE Leads(p, Truth(p))'
    BY <1>1
  <2>2. PICK r : r = Truth(p)
    OBVIOUS
  <2>3. Leads(p, r)'
    BY <1>8, <1>9, <2>1, <2>2
  <2> QED
    BY <1>4, <2>2, <2>3
<1> QED
  BY <1>6, <1>8, <1>10

(* A step of the one handler alive, while nothing goes wrong. *)
LEMMA HandlerRows ==
    ASSUME Typed, TrustInv, ShapeInv, AwaitInv, FillInv, RowsInv, trust = "whole", trust' = "whole",
           NEW t \in Handlers, task[t] # <<>>, Step(t)
    PROVE  FillInv' /\ RowsInv'
<1>0. /\ TasksOK /\ TablesOK /\ t \in Tasks /\ filled \subseteq PRs
      /\ Op(t) \in OpSet /\ Op(t).op # "poll" /\ ~PollPR(t)
  <2>1. TasksOK /\ TablesOK /\ t \in Tasks /\ filled \subseteq PRs
    BY DEF Typed, Tasks, HistoryOK
  <2>2. Op(t) \in OpSet /\ Op(t) = task[t][1] /\ 1 \in DOMAIN task[t]
    BY <2>1, OpTyped, TaskFields
  <2>3. Op(t).op # "poll"
    BY <2>1, <2>2 DEF ShapeInv, GitHubOps
  <2> QED
    BY <2>1, <2>2, <2>3 DEF PollPR, Answered, At
<1>1. /\ UNCHANGED <<github, webhooks>> /\ StepAdds(t) /\ ~GivesUp(t)
      /\ \A u \in Handlers : u # t => task[u] = <<>> /\ task'[u] = <<>>
  BY StepAwaits
<1>2. PICK ops \in Seq(OpSet) : Then(t, ops) /\ Adds(Op(t), ops)
  BY <1>1 DEF StepAdds
<1>3. ASSUME NEW p
      PROVE  /\ Pending(p)' \subseteq Pending(p)
             /\ Op(t) \notin LabelOps \/ Op(t).pr # p => Pending(p)' = Pending(p)
  BY <1>0, <1>1, <1>2, StepPending
<1>4. ASSUME NEW p, NEW kinds
      PROVE  /\ Asking(p, kinds) \subseteq {t}
             /\ Asking(p, kinds) = {} <=> Op(t).op \notin kinds \/ Op(t).pr # p
  BY <1>1 DEF Asking
<1>5. \A p \in PRs : Sent(p) /\ Sent(p)'
  <2>1. ASSUME NEW p \in PRs PROVE Sent(p) /\ Sent(p)'
    BY <1>1, <1>3, StillSent DEF RowsInv
  <2> QED
    BY <2>1
<1>6. CASE \E lost : Answer(t, lost)
  <2>1. Answer(t, {})
    BY <1>6, StepMoves
  <2>2. PICK o : o = Op(t)
    OBVIOUS
  <2>3. /\ o.op \in GitHubOps /\ o.pr \in PRs
        /\ Op(t)'.op = o.op /\ Op(t)'.pr = o.pr /\ Op(t)'.known = o.known
        /\ Op(t)'.answer = [row |-> Truth(o.pr), lost |-> {}]
        /\ row' = row /\ message' = message /\ Truth(o.pr)' = Truth(o.pr)
    BY <1>0, <1>1, <2>1, <2>2, AnswerHead DEF Truth
  <2>4. FillInv' /\ filled' \subseteq filled
    <3>1. Fill({})
      BY <2>1 DEF Answer, Trusting
    <3> QED
      BY <2>3, <3>1, FillFrom DEF FillInv
  <2>5. ASSUME NEW p \in PRs
        PROVE (\A r : Leads(p, r) => Leads(p, r)') /\ (o.op = "fetch" => Leads(p, Truth(p))')
    BY <1>1, <1>5, <2>1, <2>2, AnswerLeads
  <2>6. ASSUME NEW p \in filled' PROVE Leads(p, RowOr(p))'
    <3>1. PICK r : r = RowOr(p)
      OBVIOUS
    <3>2. RowOr(p)' = RowOr(p)
      BY <2>3 DEF RowOr
    <3>3. Leads(p, r)'
      BY <1>0, <2>4, <2>5, <2>6, <3>1 DEF RowsInv
    <3> QED
      BY <3>1, <3>2, <3>3
  <2>7. (Op(t).op = "fetch" => Leads(Op(t).pr, Op(t).answer.row))'
    <3>1. PICK p : p = o.pr
      OBVIOUS
    <3>2. PICK r : r = Truth(p)
      OBVIOUS
    <3>3. Op(t)'.pr = p /\ Op(t)'.answer.row = r /\ Truth(p)' = r
      BY <2>3, <3>1, <3>2
    <3>4. o.op = "fetch" => Leads(p, r)'
      BY <2>3, <2>5, <3>1, <3>3
    <3> QED
      BY <2>3, <3>3, <3>4
  <2>8. (Op(t).op = "threads" => Op(t).known = RowOr(Op(t).pr).resolved)'
    <3>1. o.op = "threads" => o.known = RowOr(o.pr).resolved
      BY <2>2 DEF RowsInv
    <3> QED
      BY <2>3, <3>1 DEF RowOr
  <2>9. \A u \in Handlers : task'[u] # <<>> => u = t
    BY <1>1
  <2> QED
    BY <1>5, <2>4, <2>6, <2>7, <2>8, <2>9 DEF RowsInv
<1>7. CASE ~\E lost : Answer(t, lost)
  <2>1. PICK o : o = Op(t)
    OBVIOUS
  <2>2. PICK p, r, a : p = o.pr /\ r = RowOr(p) /\ a = o.answer
    OBVIOUS
  <2>3. \/ FetchAndStore(t) /\ o.op = "fetch" /\ p \in PRs /\ a # None /\ OnlySets(p, a.row) /\ row'[p] # None
        \/ /\ o.op \in {"threads", "rethread"} /\ p \in PRs /\ a # None
           /\ OnlySets(p, [r EXCEPT !.resolved = a.row.resolved])
        \/ /\ o.op = "recheck" /\ p \in PRs /\ a # None
           /\ OnlySets(p, [r EXCEPT !.failing = a.row.failing])
        \/ o \in LabelOps /\ p \in PRs /\ OnlySets(p, [r EXCEPT !.ready = o.ready])
        \/ o.op \notin (GitHubOps \ {"author"}) \cup {"labels"} /\ \A q \in PRs : RowOr(q)' = RowOr(q)
    BY <1>0, <1>7, <2>1, <2>2, StepColumns
  <2>4. /\ FillInv' /\ filled' \subseteq filled \cup {p}
        /\ ~FetchAndStore(t) => filled' \subseteq filled
    <3>1. FetchAndStore(t) => o.op = "fetch"
      BY <2>1 DEF FetchAndStore, Answered, At
    <3>2. FetchAndStore(t) => row'[Op(t).pr] # None
      BY <2>1, <2>2, <2>3, <3>1 DEF GitHubOps, LabelOps
    <3> QED
      BY <1>0, <2>1, <2>2, <3>2, StepFills
  <2>5. task'[t] # <<>> /\ Op(t)'.op \in GitHubOps => Op(t)' = Await("fetch", o.pr, None)
    BY <1>7, <2>1, HeadAfter
  <2>6. ASSUME NEW q PROVE Asking(q, {"recheck"})' = {} /\ Asking(q, {"threads", "rethread"})' = {}
    <3>1. task'[t] # <<>> => Op(t)'.op \notin {"recheck", "threads", "rethread"}
      BY <2>5 DEF GitHubOps, Await
    <3> QED
      BY <1>1, <3>1 DEF Asking
  <2>7. ASSUME NEW q \in PRs, NEW b, Leads(q, b), NEW s, s.review = b.review, s.life = b.life,
               o \notin LabelOps \/ q # p => s.ready = b.ready,
               o \in LabelOps /\ q = p => s.ready = o.ready,
               o.op # "recheck" \/ q # p => s.failing = b.failing,
               o.op = "recheck" /\ q = p => a # None /\ s.failing = a.row.failing,
               o.op \notin {"threads", "rethread"} \/ q # p => s.resolved = b.resolved,
               o.op \in {"threads", "rethread"} /\ q = p => a # None /\ s.resolved = a.row.resolved
        PROVE  Leads(q, s)'
    <3>1. \/ Pending(q)' = Pending(q) /\ s.ready = b.ready
          \/ \E x \in Pending(q) : s.ready = x.ready
      <4>1. CASE o \notin LabelOps \/ q # p
        BY <1>3, <2>1, <2>2, <2>7, <4>1
      <4>2. CASE o \in LabelOps /\ q = p
        <5>1. o = task[t][1] /\ 1 \in DOMAIN task[t]
          BY <1>0, <2>1, TaskFields
        <5>2. o \in Pending(q)
          BY <2>2, <4>2, <5>1 DEF Pending
        <5> QED
          BY <2>7, <4>2, <5>2
      <4> QED
        BY <4>1, <4>2
    <3>2. \/ Asking(q, {"recheck"}) = {} /\ s.failing = b.failing
          \/ \E u \in Asking(q, {"recheck"}) : Op(u).answer # None /\ s.failing = Op(u).answer.row.failing
      BY <1>4, <2>1, <2>2, <2>7
    <3>3. \/ Asking(q, {"threads", "rethread"}) = {} /\ s.resolved = b.resolved
          \/ \E u \in Asking(q, {"threads", "rethread"}) :
               Op(u).answer # None /\ s.resolved = Op(u).answer.row.resolved
      BY <1>4, <2>1, <2>2, <2>7
    <3>4. Sent(q) /\ Pending(q)' \subseteq Pending(q)
      BY <1>3, <1>5
    <3> QED
      BY <1>1, <2>6, <2>7, <3>1, <3>2, <3>3, <3>4, StepLeads
  <2>8. ASSUME NEW q \in filled' PROVE Leads(q, RowOr(q))'
    <3>1. q \in PRs
      <4>1. CASE FetchAndStore(t)
        <5>1. o.op = "fetch"
          BY <2>1, <4>1 DEF FetchAndStore, Answered, At
        <5>2. p \in PRs
          BY <2>3, <5>1 DEF GitHubOps, LabelOps
        <5> QED
          BY <1>0, <2>4, <2>8, <5>2
      <4>2. CASE ~FetchAndStore(t)
        BY <1>0, <2>4, <2>8, <4>2
      <4> QED
        BY <4>1, <4>2
    <3>2. PICK b, s : b = RowOr(q) /\ s = RowOr(q)'
      OBVIOUS
    <3>3. CASE FetchAndStore(t) /\ q = p
      <4>1. o.op = "fetch" /\ a # None /\ s = a.row
        <5>1. o.op = "fetch"
          BY <2>1, <3>3 DEF FetchAndStore, Answered, At
        <5> QED
          BY <2>3, <3>2, <3>3, <5>1 DEF GitHubOps, LabelOps, OnlySets
      <4>2. Leads(q, s)
        BY <2>1, <2>2, <3>3, <4>1 DEF RowsInv
      <4>3. Leads(q, s)'
        BY <2>7, <3>1, <4>1, <4>2 DEF LabelOps
      <4> QED
        BY <3>2, <4>3
    <3>4. CASE ~(FetchAndStore(t) /\ q = p)
      <4>1. q \in filled
        BY <2>4, <2>8, <3>4
      <4>2. Leads(q, b)
        BY <3>2, <4>1 DEF RowsInv
      <4>3. b \in Row
        BY <1>0, <3>1, <3>2, RowOrTyped
      <4>4. CASE q # p
        <5>1. s = b
          BY <2>3, <3>1, <3>2, <4>4 DEF OnlySets
        <5>2. Leads(q, s)'
          BY <2>7, <3>1, <4>2, <4>4, <5>1
        <5> QED
          BY <3>2, <5>2
      <4>5. CASE q = p
        <5>1. b = r
          BY <2>2, <3>2, <4>5
        <5>2. \/ o.op \in {"threads", "rethread"} /\ a # None /\ s = [b EXCEPT !.resolved = a.row.resolved]
              \/ o.op = "recheck" /\ a # None /\ s = [b EXCEPT !.failing = a.row.failing]
              \/ o \in LabelOps /\ s = [b EXCEPT !.ready = o.ready]
              \/ o.op \notin (GitHubOps \ {"author"}) \cup {"labels"} /\ s = b
          BY <2>3, <3>1, <3>2, <3>4, <4>5, <5>1 DEF OnlySets
        <5>3. Leads(q, s)'
          BY <2>7, <3>1, <4>2, <4>3, <4>5, <5>2 DEF Row, LabelOps, GitHubOps
        <5> QED
          BY <3>2, <5>3
      <4> QED
        BY <4>4, <4>5
    <3> QED
      BY <3>3, <3>4
  <2>9. ASSUME NEW u \in Handlers, task'[u] # <<>>
        PROVE  Op(u)'.op # "threads" /\ (Op(u)'.op = "fetch" => Op(u)'.answer = None)
    <3>1. u = t
      BY <1>1, <2>9
    <3> QED
      BY <2>5, <2>9, <3>1 DEF GitHubOps, Await
  <2> QED
    BY <1>5, <2>4, <2>8, <2>9 DEF RowsInv
<1> QED
  BY <1>6, <1>7
-----------------------------------------------------------------------------
(* The startup pass. *)
LEMMA HealsOn ==
    ASSUME Typed, HealOps, NEW t, t = "startup", task[t] # <<>>, NEW ops \in Seq(OpSet), Then(t, ops),
           github' = github,
           \A p \in PRs : row'[p] = row[p] \/ row[p] = None \/ row'[p] = Truth(p),
           \A i \in DOMAIN ops :
             /\ ops[i].op \in GitHubOps => ops[i].answer = None
             /\ ops[i].op = "fetch" => i = 1 /\ row'[ops[i].pr] = None
             /\ ops[i].op = "poll" => row'[ops[i].pr] = ops[i].known
             /\ ops[i].op \notin {"labels", "author", "threads", "rethread", "recheck"}
    PROVE  HealOps'
<1>0. t \in Tasks /\ TasksOK /\ \A p : Truth(p)' = Truth(p)
  BY DEF Typed, Tasks, Truth
<1>1. /\ task'[t] \in Seq(OpSet) /\ Len(ops) \in Nat /\ Len(task[t]) \in Nat \ {0} /\ DOMAIN ops = 1..Len(ops)
      /\ DOMAIN task[t] = 1..Len(task[t])
      /\ DOMAIN task'[t] = 1..(Len(ops) + Len(task[t]) - 1)
      /\ \A i \in DOMAIN task'[t] :
           task'[t][i] = IF i <= Len(ops) THEN ops[i] ELSE task[t][i - Len(ops) + 1]
  BY <1>0, TaskAfter
<1>2. \A k, n \in Nat, i \in Int : i \in 1..(k + n - 1) /\ ~(i <= k) => i - k + 1 \in 1..n /\ i - k + 1 # 1
  OBVIOUS
<1>3. \A k, n \in Nat, i \in Int : i \in 1..(k + n - 1) /\ i <= k => i \in 1..k
  OBVIOUS
<1>4. ASSUME NEW i \in DOMAIN task'[t], NEW o, o = task'[t][i]
      PROVE  /\ o.op \in GitHubOps => o.answer = None
             /\ o.op = "fetch" => i = 1 /\ row'[o.pr] = None
             /\ o.op = "poll" => row'[o.pr] \in {o.known, Truth(o.pr)}
             /\ o.op \notin {"labels", "author", "threads", "rethread", "recheck"}
  <2>1. CASE i <= Len(ops)
    BY <1>1, <1>3, <1>4, <2>1
  <2>2. CASE ~(i <= Len(ops))
    <3>0. i \in 1..(Len(ops) + Len(task[t]) - 1) /\ i \in Int
      BY <1>1
    <3>1. PICK j : j = i - Len(ops) + 1 /\ j \in 1..Len(task[t]) /\ j # 1
      BY <1>1, <1>2, <2>2, <3>0
    <3>2. j \in DOMAIN task[t] /\ j # 1 /\ o = task[t][j] /\ o \in OpSet
      <4>1. j \in DOMAIN task[t] /\ o = task[t][j]
        BY <1>1, <1>4, <2>2, <3>1
      <4> QED
        BY <1>0, <3>1, <4>1, TaskFields
    <3>3. /\ o.op \in GitHubOps => o.answer = None
          /\ o.op # "fetch" /\ o.op \notin {"labels", "author", "threads", "rethread", "recheck"}
          /\ o.op = "poll" => row[o.pr] \in {o.known, Truth(o.pr)}
      BY <3>2 DEF HealOps
    <3>4. ASSUME o.op = "poll" PROVE row'[o.pr] \in {o.known, Truth(o.pr)}
      <4>1. o.pr \in PRs /\ o.known \in Row
        BY <3>2, <3>4, OpFields DEF Polls
      <4>2. Truth(o.pr) \in Row
        BY <4>1, TruthTyped DEF Typed
      <4>3. row[o.pr] # None
        BY <3>3, <3>4, <4>1, <4>2, RowIsSome
      <4> QED
        BY <3>3, <3>4, <4>1, <4>3
    <3> QED
      BY <3>3, <3>4
  <2> QED
    BY <2>1, <2>2
<1> QED
  BY <1>0, <1>4 DEF HealOps

LEMMA StepOfPolls ==
    ASSUME NEW t, Step(t), Op(t).op = "polls"
    PROVE  ListActivePRs(t)
  BY DEF Step, Answer, GitHubOps, IngestMessage, LookUpState, FetchAndStore, ReadRows, FetchMessage, UpdateDone,
     React, DmUser, Sleep, DiscordFails, ReadThreads, NotifyMessages, RecheckThreads, RecheckChecks, FetchAuthor,
     AutopostLands, Autopost, AutopostUnanswered, Unguard, RereadMessage, ScanHistory, StoreLabels, PollPR, SweepMessages, StartupComplete, Answered, At

(* A PR is polled with its row as it is listed. *)
LEMMA PollsAre ==
    ASSUME Typed, NEW t, ListActivePRs(t)
    PROVE  \E ops \in Seq(OpSet) :
             /\ Then(t, ops)
             /\ \A i \in DOMAIN ops :
                  /\ ops[i].op \in {"poll", "sleep", "sweep"}
                  /\ ops[i].op = "poll" => ops[i].answer = None /\ row[ops[i].pr] = ops[i].known
<1> DEFINE n == Cardinality(ActivePRs)
           Active(i) == SetToSeq(ActivePRs)[i]
           polls == [i \in 1..n |-> Await("poll", Active(i), row[Active(i)])]
           ops == Paced(polls, "sweep")
<1>1. Then(t, ops)
  BY DEF ListActivePRs
<1>2. n \in Nat /\ SetToSeq(ActivePRs) \in [1..n -> ActivePRs]
  <2>1. IsFiniteSet(ActivePRs)
    BY PrBotAssumption, FS_Subset DEF ActivePRs
  <2> QED
    BY <2>1, SetToSeqInto
<1>3. ASSUME NEW p \in ActivePRs
      PROVE  LET o == Await("poll", p, row[p]) IN
             o \in OpSet /\ o.op = "poll" /\ o.answer = None /\ row[o.pr] = o.known
  <2>1. p \in PRs /\ row[p] \in Row
    BY <1>3 DEF ActivePRs, Typed, TablesOK
  <2>2. PICK r : r = row[p]
    OBVIOUS
  <2> DEFINE o == Await("poll", p, r)
  <2>3. o \in OpSet
    BY <2>1, <2>2, AwaitGiven DEF Given
  <2>4. o.op = "poll" /\ o.answer = None /\ o.pr = p /\ o.known = r
    BY DEF Await
  <2> QED
    BY <2>2, <2>3, <2>4
<1> DEFINE Is(o) == o \in OpSet /\ o.op = "poll" /\ o.answer = None /\ row[o.pr] = o.known
<1>4. \A i \in 1..n : Is(polls[i])
  <2>1. ASSUME NEW i \in 1..n PROVE Is(polls[i])
    <3>1. Active(i) \in ActivePRs
      BY <1>2, <2>1
    <3>2. PICK p \in ActivePRs : p = Active(i)
      BY <3>1
    <3>3. polls[i] = Await("poll", p, row[p])
      BY <2>1, <3>2
    <3> QED
      BY <1>3, <3>2, <3>3
  <2> QED
    BY <2>1
<1>5. polls \in Seq(OpSet) /\ Len(polls) = n
  <2>1. polls \in [1..n -> OpSet]
    BY <1>4
  <2> HIDE DEF polls
  <2> QED
    BY <1>2, <2>1, FunctionIsSeq, LenProperties
<1> HIDE DEF polls
<1>6. /\ ops \in Seq(OpSet) /\ Len(ops) = 2 * n + 1 /\ DOMAIN ops = 1..(2 * n + 1)
      /\ ops[2 * n + 1] = [op |-> "sweep"]
      /\ \A i \in 1..(2 * n) : ops[i] = IF i % 2 = 1 THEN polls[(i + 1) \div 2] ELSE Pause
  BY <1>5, PacedAre, LenProperties
<1> HIDE DEF ops, n
<1>7. \A i \in 1..(2 * n) : i % 2 = 1 => (i + 1) \div 2 \in 1..n
  BY <1>2
<1>8. ASSUME NEW i \in DOMAIN ops
      PROVE  /\ ops[i].op \in {"poll", "sleep", "sweep"}
             /\ ops[i].op = "poll" => ops[i].answer = None /\ row[ops[i].pr] = ops[i].known
  <2>1. i \in 1..(2 * n) \/ i = 2 * n + 1
    BY <1>2, <1>6
  <2>2. CASE i = 2 * n + 1
    BY <1>6, <2>2
  <2>3. CASE i \in 1..(2 * n) /\ i % 2 = 1
    <3>1. PICK j \in 1..n : ops[i] = polls[j]
      BY <1>6, <1>7, <2>3
    <3> QED
      BY <1>4, <3>1
  <2>4. CASE i \in 1..(2 * n) /\ i % 2 # 1
    BY <1>6, <2>4 DEF Pause
  <2> QED
    BY <2>1, <2>2, <2>3, <2>4
<1> QED
  BY <1>1, <1>6, <1>8

(* What the poll stores is the truth, and it asks nothing more. *)
LEMMA PollRows ==
    ASSUME Typed, NEW t \in Tasks, task[t] # <<>>, PollPR(t), NEW o, o = Op(t), NEW p, p = o.pr,
           o.answer = [row |-> Truth(p), lost |-> {}], row[p] \in {o.known, Truth(p)}
    PROVE  /\ p \in PRs /\ OnlySets(p, Truth(p)) /\ row'[p] = Truth(p) /\ \A q \in PRs : q # p => row'[q] = row[q]
           /\ \E ops \in Seq(OpSet) : Then(t, ops) /\ Only(ops, {"reconcile", "dm"})
<1> DEFINE ms == MessagesFor(p)
           new == Read(t, o.known)
<1>1. /\ TasksOK /\ TablesOK /\ GitHubOK /\ Answered(t, "poll") /\ p \in PRs /\ o.known \in Row
      /\ Truth(p) \in Row /\ ms \in SUBSET Messages
  BY AnswerTyped, TruthTyped, MessagesOfPR DEF Typed, PollPR, GitHubOps
<1>2. new = Truth(p) /\ ~Unread(t, "failing") /\ "all" \notin o.answer.lost
  <2>1. PICK a : a = o.answer
    OBVIOUS
  <2>2. PICK tr : tr = Truth(p)
    OBVIOUS
  <2>3. a.lost = {} /\ a.row = tr /\ tr \in Row
    BY <1>1, <2>1, <2>2
  <2>4. ~Unread(t, "failing") /\ ~Unread(t, "resolved") /\ "all" \notin a.lost
    BY <2>1, <2>3 DEF Unread
  <2>5. new = [tr EXCEPT !.failing = @, !.resolved = @]
    BY <2>1, <2>3, <2>4 DEF Read
  <2> HIDE DEF new
  <2>6. new = tr
    BY <2>3, <2>5 DEF Row
  <2> QED
    BY <2>1, <2>2, <2>4, <2>6
<1> HIDE DEF new
<1>3. [new EXCEPT !.failing = new.failing] = new
  BY <1>1, <1>2 DEF Row
<1>4. PICK transitions \in SUBSET Transitions :
        \/ Then(t, <<>>) /\ row' = row /\ new = o.known
        \/ /\ row' = [row EXCEPT ![p] = new]
           /\ Then(t, Reconciles(ms) \o (IF NotDone(ms) = {} THEN <<>> ELSE Dms(p, transitions)))
  <2> DEFINE was == o.known
             trs == ({new.life} \cap Terminal)
                    \cup (IF new.review # was.review THEN {new.review} \ {"none"} ELSE {})
                    \cup (IF new.failing /\ ~was.failing THEN {"checks_failed"} ELSE {})
  <2>1. trs \in SUBSET Transitions
    BY <1>1, <1>2 DEF Row, Transitions, ReviewTransitions, Terminal
  <2>2. \/ Then(t, <<>>) /\ row' = row /\ new = was
        \/ /\ row' = [row EXCEPT ![p] = [new EXCEPT !.failing = new.failing]]
           /\ Then(t, Reconciles(ms) \o (IF NotDone(ms) = {} THEN <<>> ELSE Dms(p, trs)))
    BY <1>2 DEF PollPR, Missed, new
  <2> HIDE DEF trs
  <2> QED
    BY <1>3, <2>1, <2>2
<1>5. row'[p] = Truth(p) /\ \A q \in PRs : q # p => row'[q] = row[q]
  BY <1>1, <1>2, <1>4 DEF TablesOK
<1>6. \E ops \in Seq(OpSet) : Then(t, ops) /\ Only(ops, {"reconcile", "dm"})
  <2>1. CASE Then(t, <<>>)
    BY <2>1, NoOps
  <2>2. CASE Then(t, Reconciles(ms) \o (IF NotDone(ms) = {} THEN <<>> ELSE Dms(p, transitions)))
    <3> DEFINE ds == IF NotDone(ms) = {} THEN <<>> ELSE Dms(p, transitions)
    <3>1. ds \in Seq(OpSet) /\ Only(ds, {"reconcile", "dm"})
      BY <1>1, NoOps, DmsAre DEF Only
    <3>2. Reconciles(ms) \in Seq(OpSet) /\ Only(Reconciles(ms), {"reconcile", "dm"})
      BY <1>1, ReconcilesAre DEF Only
    <3> HIDE DEF ds
    <3>3. Then(t, Reconciles(ms) \o ds)
      BY <2>2 DEF ds
    <3> QED
      BY <3>1, <3>2, <3>3, BothAre, OnlyBoth
  <2> QED
    BY <1>4, <2>1, <2>2
<1>7. OnlySets(p, Truth(p))
  BY <1>1, <1>5, RowIsSome DEF OnlySets, RowOr
<1> QED
  BY <1>1, <1>5, <1>6, <1>7

(* What the pass leaves to do when it neither asks GitHub nor is told. *)
LEMMA PassAdds ==
    ASSUME Typed, ShapeInv, NEW t, t = "startup", task[t] # <<>>, Step(t), ~GivesUp(t),
           Op(t).op \notin GitHubOps \cup {"polls"}
    PROVE  \E ops \in Seq(OpSet) :
             /\ Then(t, ops)
             /\ \A i \in DOMAIN ops :
                  /\ ops[i].op \in GitHubOps =>
                       /\ Op(t).op = "state" /\ ops[i].op = "fetch" /\ ops[i].answer = None
                       /\ i = 1 /\ row[ops[i].pr] = None
                  /\ ops[i].op # "labels"
<1>0. t \in Tasks /\ TasksOK /\ Op(t) \in OpSet
  BY OpTyped DEF Typed, Tasks
<1>1. CASE Op(t).op = "state"
  <2>1. LookUpState(t) /\ Op(t).pr \in PRs
    BY <1>0, <1>1, StepOfHead, OpFields DEF PrOps
  <2>2. PICK p : p = Op(t).pr
    OBVIOUS
  <2>3. \/ Then(t, <<Await("fetch", p, None)>>) /\ row[p] = None
        \/ Then(t, <<>>) \/ Then(t, <<Pause>>)
    BY <2>1, <2>2 DEF LookUpState
  <2>4. Await("fetch", p, None) \in OpSet /\ Pause \in OpSet /\ Pause.op = "sleep"
    BY <2>1, <2>2, AwaitGiven, GivenOps DEF Given, Pause
  <2>5. Await("fetch", p, None).op = "fetch" /\ Await("fetch", p, None).answer = None /\ Await("fetch", p, None).pr = p
    BY DEF Await
  <2>6. CASE Then(t, <<Await("fetch", p, None)>>) /\ row[p] = None
    <3>1. PICK x : x = Await("fetch", p, None)
      OBVIOUS
    <3>2. <<x>> \in Seq(OpSet) /\ DOMAIN <<x>> = {1} /\ <<x>>[1] = x
      BY <2>4, <3>1, OneOp
    <3>3. Then(t, <<x>>)
      BY <2>6, <3>1
    <3> QED
      BY <1>1, <2>5, <2>6, <3>1, <3>2, <3>3
  <2>7. CASE Then(t, <<>>)
    BY <2>7, NoOps
  <2>8. CASE Then(t, <<Pause>>)
    <3>1. <<Pause>> \in Seq(OpSet) /\ DOMAIN <<Pause>> = {1} /\ <<Pause>>[1] = Pause
      BY <2>4, OneOp
    <3> QED
      BY <2>4, <2>8, <3>1 DEF GitHubOps
  <2> QED
    BY <2>3, <2>6, <2>7, <2>8
<1>2. CASE Op(t).op # "state"
  <2>1. PICK ops \in Seq(OpSet) : Then(t, ops) /\ Adds(Op(t), ops)
    BY <1>0, StepsAdd DEF StepAdds
  <2> QED
    BY <1>2, <2>1 DEF Adds, OnLabel
<1> QED
  BY <1>1, <1>2

(* A row of the pass is as it was, or the truth, or new. *)
Heals == /\ github' = github
         /\ \A p \in PRs : row'[p] = row[p] \/ row[p] = None \/ row'[p] = Truth(p)

LEMMA HealsRows ==
    ASSUME Typed, FillInv, HealInv, trust = "healing", Heals, NEW q, filled' \subseteq filled \cup {q},
           q \in filled \/ row'[q] = Truth(q)
    PROVE  \A p \in filled' : row'[p] = Truth(p)'
<1>1. ASSUME NEW p \in filled' PROVE row'[p] = Truth(p)'
  <2>1. Truth(p)' = Truth(p)
    BY DEF Heals, Truth
  <2>2. CASE p \in filled
    BY <2>1, <2>2 DEF FillInv, HealInv, Heals, Typed, HistoryOK
  <2>3. CASE p \notin filled
    BY <1>1, <2>1, <2>3
  <2> QED
    BY <2>2, <2>3
<1> QED
  BY <1>1

(* What the pass stores of a PR it fetched is the truth. *)
LEMMA FetchRows ==
    ASSUME Typed, NEW t \in Tasks, task[t] # <<>>, FetchAndStore(t), NEW o, o = Op(t), NEW p, p = o.pr,
           o.answer = [row |-> Truth(p), lost |-> {}], row[p] = None
    PROVE  Then(t, <<>>) /\ row'[p] = Truth(p) /\ \A q \in PRs : q # p => row'[q] = row[q]
<1>1. /\ TasksOK /\ TablesOK /\ GitHubOK /\ Answered(t, "fetch") /\ p \in PRs /\ Truth(p) \in Row
  BY AnswerTyped, TruthTyped DEF Typed, FetchAndStore, GitHubOps
<1>2. PICK tr : tr = Truth(p)
  OBVIOUS
<1>3. o.answer.lost = {} /\ o.answer.row = tr /\ tr \in Row
  BY <1>1, <1>2
<1>4. ~Unread(t, "failing") /\ ~Unread(t, "resolved") /\ ~Unread(t, "review")
  BY <1>3 DEF Unread
<1>5. PICK new : new = Read(t, RowOr(p))
  OBVIOUS
<1>6. new = [tr EXCEPT !.failing = @, !.resolved = @]
  BY <1>3, <1>4, <1>5 DEF Read
<1>7. new = tr
  BY <1>3, <1>6 DEF Row
<1>8. row' = [row EXCEPT ![p] = new]
  BY <1>4, <1>5 DEF FetchAndStore
<1>9. row'[p] = tr /\ \A q \in PRs : q # p => row'[q] = row[q]
  BY <1>1, <1>7, <1>8 DEF TablesOK
<1> QED
  BY <1>2, <1>9 DEF FetchAndStore

(* A step of the pass before its end. *)
LEMMA PassRows ==
    ASSUME Typed, TrustInv, ShapeInv, FillInv, HealInv, trust = "healing", trust' = "healing",
           NEW t, t = "startup", task[t] # <<>>, Step(t)
    PROVE  FillInv' /\ HealInv'
<1>0. /\ t \in Tasks /\ TasksOK /\ TablesOK /\ filled \subseteq PRs /\ HealOps /\ github' = github
      /\ Op(t) \in OpSet /\ Op(t) = task[t][1] /\ 1 \in DOMAIN task[t]
  <2>1. t \in Tasks /\ TasksOK /\ TablesOK /\ filled \subseteq PRs /\ HealOps
    BY DEF Typed, Tasks, HistoryOK, HealInv
  <2>2. github' = github
    BY StepFrames DEF StepFrame
  <2> QED
    BY <2>1, <2>2, OpTyped, TaskFields
<1>1. PICK o : o = Op(t)
  OBVIOUS
<1>2. PICK p : p = o.pr
  OBVIOUS
<1>3. /\ o.op \in GitHubOps /\ o.answer # None => o.answer = [row |-> Truth(p), lost |-> {}]
      /\ o.op = "fetch" => row[p] = None
      /\ o.op = "poll" => row[p] \in {o.known, Truth(p)}
      /\ o.op \notin {"labels", "author", "threads", "rethread", "recheck"}
  BY <1>0, <1>1, <1>2 DEF HealOps
<1>4. CASE \E lost : Answer(t, lost)
  <2>1. Answer(t, {})
    BY <1>4, StepMoves
  <2>2. /\ o.op \in GitHubOps /\ Truth(p) \in Row /\ Op(t)'.op = o.op /\ Op(t)'.pr = p /\ Op(t)'.known = o.known
        /\ Op(t)'.answer = [row |-> Truth(p), lost |-> {}]
        /\ UNCHANGED <<webhooks, row, message>>
        /\ DOMAIN task'[t] = DOMAIN task[t] /\ \A i \in DOMAIN task[t] : i # 1 => task'[t][i] = task[t][i]
        /\ task'[t][1] = Op(t)'
    BY <1>0, <1>1, <1>2, <2>1, AnswerHead
  <2>3. \A q : Truth(q)' = Truth(q)
    BY <1>0 DEF Truth
  <2>4. FillInv' /\ filled' \subseteq filled
    <3>1. Fill({})
      BY <2>1 DEF Answer, Trusting
    <3> QED
      BY <2>2, <3>1, FillFrom DEF FillInv
  <2>5. HealOps'
    <3>1. ASSUME NEW i \in DOMAIN task'[t], NEW x, x = task'[t][i]
          PROVE  /\ x.op \in GitHubOps /\ x.answer # None =>
                      i = 1 /\ x.answer = [row |-> Truth(x.pr), lost |-> {}]
                 /\ x.op = "fetch" => i = 1 /\ row'[x.pr] = None
                 /\ x.op = "poll" => row'[x.pr] \in {x.known, Truth(x.pr)}
                 /\ x.op \notin {"labels", "author", "threads", "rethread", "recheck"}
      <4>1. CASE i = 1
        BY <1>3, <2>2, <3>1, <4>1
      <4>2. CASE i # 1
        <5>1. i \in DOMAIN task[t] /\ x = task[t][i]
          BY <2>2, <3>1, <4>2
        <5> QED
          BY <1>0, <2>2, <4>2, <5>1 DEF HealOps
      <4> QED
        BY <4>1, <4>2
    <3> QED
      BY <2>3, <3>1 DEF HealOps
  <2>6. \A q \in filled' : row'[q] = Truth(q)'
    BY <2>2, <2>3, <2>4 DEF HealInv
  <2> QED
    BY <2>4, <2>5, <2>6 DEF HealInv
<1>5. CASE FetchAndStore(t) \/ PollPR(t)
  <2>1. o.op \in GitHubOps /\ o.answer # None /\ (FetchAndStore(t) => o.op = "fetch") /\ (PollPR(t) => o.op = "poll")
    BY <1>1, <1>5 DEF FetchAndStore, PollPR, Answered, At, GitHubOps
  <2>2. /\ p \in PRs /\ row'[p] = Truth(p) /\ \A q \in PRs : q # p => row'[q] = row[q]
        /\ \E ops \in Seq(OpSet) : Then(t, ops) /\ Only(ops, {"reconcile", "dm"})
    <3>1. p \in PRs
      BY <1>0, <1>1, <1>2, <2>1, AwaitFields
    <3>2. CASE FetchAndStore(t)
      <4>1. Then(t, <<>>) /\ row'[p] = Truth(p) /\ \A q \in PRs : q # p => row'[q] = row[q]
        BY <1>0, <1>1, <1>2, <1>3, <2>1, <3>2, FetchRows
      <4> QED
        BY <3>1, <4>1, NoOps
    <3>3. CASE PollPR(t)
      BY <1>0, <1>1, <1>2, <1>3, <2>1, <3>3, PollRows
    <3> QED
      BY <1>5, <3>2, <3>3
  <2>3. PICK ops \in Seq(OpSet) : Then(t, ops) /\ Only(ops, {"reconcile", "dm"})
    BY <2>2
  <2>4. Heals
    BY <1>0, <2>2 DEF Heals
  <2>5. HealOps'
    <3>1. \A i \in DOMAIN ops : ops[i].op \in {"reconcile", "dm"}
      BY <2>3 DEF Only
    <3>2. \A i \in DOMAIN ops :
             /\ ops[i].op \in GitHubOps => ops[i].answer = None
             /\ ops[i].op = "fetch" => i = 1 /\ row'[ops[i].pr] = None
             /\ ops[i].op = "poll" => row'[ops[i].pr] = ops[i].known
             /\ ops[i].op \notin {"labels", "author", "threads", "rethread", "recheck"}
      BY <3>1 DEF GitHubOps
    <3> QED
      BY <1>0, <2>3, <2>4, <3>2, HealsOn DEF Heals
  <2>6. FillInv' /\ filled' \subseteq filled \cup {p}
    <3>1. row'[Op(t).pr] # None
      <4>1. Truth(p) # None
        BY <2>2, TruthTyped, RowIsSome DEF Typed
      <4> QED
        BY <1>1, <1>2, <2>2, <4>1
    <3> QED
      BY <1>0, <1>1, <1>2, <3>1, StepFills
  <2>7. \A q \in filled' : row'[q] = Truth(q)'
    BY <2>2, <2>4, <2>6, HealsRows
  <2> QED
    BY <2>5, <2>6, <2>7 DEF HealInv
<1>6. CASE (~\E lost : Answer(t, lost)) /\ ~FetchAndStore(t) /\ ~PollPR(t)
  <2>1. o.op \notin GitHubOps
    <3>1. ~ReadThreads(t) /\ ~RecheckThreads(t) /\ ~RecheckChecks(t) /\ ~FetchAuthor(t)
      BY <1>1, <1>3 DEF ReadThreads, RecheckThreads, RecheckChecks, FetchAuthor, Answered, At
    <3> QED
      BY <1>1, <1>6, <3>1, StepOfHead
  <2>2. Heals /\ (o.op = "state" => row' = row) /\ \A q \in PRs : row[q] # None => row'[q] = row[q]
    <3>1. ~ReadThreads(t) /\ ~RecheckThreads(t) /\ ~RecheckChecks(t) /\ ~StoreLabels(t)
      BY <1>1, <1>3 DEF ReadThreads, RecheckThreads, RecheckChecks, StoreLabels, Answered, At
    <3>2. CASE ReadRows(t)
      <4>1. PICK links : row' = [q \in PRs |-> IF q \in links THEN RowOr(q) ELSE row[q]]
        BY <3>2 DEF ReadRows
      <4>2. o.op = "reconcile"
        BY <1>1, <3>2 DEF ReadRows, At
      <4>3. \A q \in PRs : row[q] # None => row'[q] = row[q]
        BY <4>1 DEF RowOr
      <4> QED
        BY <1>0, <4>2, <4>3 DEF Heals
    <3>3. CASE row' = row
      BY <1>0, <3>3 DEF Heals
    <3> QED
      BY <1>6, <3>1, <3>2, <3>3, StepFrames DEF StepFrame, ChangesRow
  <2>3. \E ops \in Seq(OpSet) : Then(t, ops) /\ \A i \in DOMAIN ops :
             /\ ops[i].op \in GitHubOps => ops[i].answer = None
             /\ ops[i].op = "fetch" => i = 1 /\ row'[ops[i].pr] = None
             /\ ops[i].op = "poll" => row'[ops[i].pr] = ops[i].known
             /\ ops[i].op \notin {"labels", "author", "threads", "rethread", "recheck"}
    <3>1. CASE o.op = "polls"
      <4>1. ListActivePRs(t)
        BY <1>1, <3>1, StepOfPolls
      <4>2. PICK ops \in Seq(OpSet) : Then(t, ops) /\ \A i \in DOMAIN ops :
                  /\ ops[i].op \in {"poll", "sleep", "sweep"}
                  /\ ops[i].op = "poll" => ops[i].answer = None /\ row[ops[i].pr] = ops[i].known
        BY <4>1, PollsAre
      <4>3. row' = row
        BY <4>1 DEF ListActivePRs, tables
      <4> QED
        BY <4>2, <4>3 DEF GitHubOps
    <3>2. CASE o.op # "polls"
      <4>1. ~GivesUp(t)
        BY StepMoves DEF GivesUp
      <4>2. PICK ops \in Seq(OpSet) : Then(t, ops) /\ \A i \in DOMAIN ops :
                  /\ ops[i].op \in GitHubOps =>
                       /\ Op(t).op = "state" /\ ops[i].op = "fetch" /\ ops[i].answer = None
                       /\ i = 1 /\ row[ops[i].pr] = None
                  /\ ops[i].op # "labels"
        BY <1>1, <2>1, <3>2, <4>1, PassAdds
      <4> QED
        BY <1>1, <2>2, <4>2 DEF GitHubOps
    <3> QED
      BY <3>1, <3>2
  <2>4. HealOps'
    BY <1>0, <2>2, <2>3, HealsOn DEF Heals
  <2>5. FillInv' /\ filled' \subseteq filled
    BY <1>0, <1>6, StepFills
  <2>6. \A q \in filled' : row'[q] = Truth(q)'
    <3>1. ASSUME NEW q \in filled' PROVE row'[q] = Truth(q)'
      <4>1. q \in filled /\ filled' \subseteq filled \cup {q}
        BY <2>5, <3>1
      <4> QED
        BY <2>2, <3>1, <4>1, HealsRows
    <3> QED
      BY <3>1
  <2> QED
    BY <2>4, <2>5, <2>6 DEF HealInv
<1> QED
  BY <1>4, <1>5, <1>6

(* The pass ends: nothing is on its way, and the rows are the truth. *)
LEMMA CompleteRows ==
    ASSUME Typed, TrustInv, FillInv, HealInv, trust = "healing", NEW t, t = "startup", task[t] # <<>>,
           Step(t), StartupComplete(t)
    PROVE  FillInv' /\ RowsInv' /\ HealInv'
<1>1. /\ trust' = "whole" /\ UNCHANGED <<github, webhooks, row, message, filled>>
      /\ webhooks = <<>> /\ \A u \in Handlers : task'[u] = <<>>
  <2>1. \A u \in Handlers : task[u] = <<>> /\ u # t
    BY PrBotAssumption DEF TrustInv
  <2>2. task' = [task EXCEPT ![t] = <<>> \o Tail(@)]
    BY DEF StartupComplete, Then
  <2>3. \A u \in Handlers : task'[u] = <<>>
    BY <2>1, <2>2 DEF Typed, TasksOK, Tasks
  <2> QED
    BY <2>3 DEF StartupComplete, TrustInv, env, queues, tables
<1>2. \A p : Truth(p)' = Truth(p) /\ RowOr(p)' = RowOr(p)
  BY <1>1 DEF Truth, RowOr
<1>3. FillInv'
  BY <1>1 DEF FillInv, MessagesFor, Tracked
<1>4. \A p, kind : About(p, kind)' = {}
  BY <1>1 DEF About
<1>5. \A p : Pending(p)' = {} /\ \A ops : Asking(p, ops)' = {}
  BY <1>1 DEF Pending, Asking
<1>6. \A p : Decisions(p)' = {} /\ Threaded(p)' = {} /\ ~Commented(p, 0)'
  BY <1>4 DEF Decisions, Threaded, Commented
<1>7. \A p : Sent(p)'
  BY <1>1, <1>4, <1>5, <1>6 DEF Sent, ReviewSent, LifeSent, ReadySent, IsLast
<1>8. \A p \in filled : Leads(p, RowOr(p))'
  <2>1. ASSUME NEW p \in filled PROVE Leads(p, RowOr(p))'
    <3>1. PICK r : r = Truth(p)
      OBVIOUS
    <3>2. RowOr(p)' = r /\ Truth(p)' = r
      BY <1>2, <2>1, <3>1 DEF HealInv, FillInv, RowOr
    <3>3. Leads(p, r)'
      BY <1>4, <1>5, <1>6, <3>2 DEF Leads, ReviewLeads, LifeLeads, ReadyLeads, FailingLeads, ResolvedLeads
    <3> QED
      BY <3>2, <3>3
  <2> QED
    BY <2>1
<1> QED
  BY <1>1, <1>3, <1>7, <1>8 DEF RowsInv, HealInv

LEMMA StartupRows ==
    ASSUME Typed, TrustInv, ShapeInv, FillInv, HealInv, trust = "healing", trust' # "broken",
           NEW t, t = "startup", task[t] # <<>>, Step(t)
    PROVE  FillInv' /\ RowsInv' /\ HealInv'
<1>1. CASE StartupComplete(t)
  BY <1>1, CompleteRows
<1>2. CASE ~StartupComplete(t)
  <2>1. trust' = "healing"
    BY <1>2, StepMoves DEF Moves
  <2> QED
    BY <2>1, PassRows DEF RowsInv
<1> QED
  BY <1>1, <1>2
-----------------------------------------------------------------------------
(* What else happens while no task is alive, and the steps of all. *)
LEMMA SameLeads ==
    ASSUME UNCHANGED <<github, webhooks, task>>, NEW p
    PROVE  (Sent(p) => Sent(p)') /\ \A r : Leads(p, r) => Leads(p, r)'
<1>1. Truth(p)' = Truth(p) /\ \A kind : About(p, kind)' = About(p, kind)
  BY DEF Truth, About
<1>2. Pending(p)' = Pending(p) /\ \A ops : Asking(p, ops)' = Asking(p, ops)
  BY DEF Pending, Asking, Op
<1>3. Decisions(p)' = Decisions(p) /\ Threaded(p)' = Threaded(p) /\ \A i : Commented(p, i)' <=> Commented(p, i)
  BY <1>1 DEF Decisions, Threaded, Commented
<1>4. Sent(p) => Sent(p)'
  BY <1>1, <1>2, <1>3 DEF Sent, ReviewSent, LifeSent, ReadySent
<1>5. ASSUME NEW r, Leads(p, r) PROVE Leads(p, r)'
  BY <1>1, <1>2, <1>3, <1>5
     DEF Leads, ReviewLeads, LifeLeads, ReadyLeads, FailingLeads, ResolvedLeads, Op
<1> QED
  BY <1>4, <1>5

LEMMA AsideRows ==
    ASSUME FillInv, RowsInv, HealInv, UNCHANGED <<github, webhooks, row, message, task, trust, filled>>
    PROVE  FillInv' /\ RowsInv' /\ HealInv'
<1>1. \A p : Truth(p)' = Truth(p) /\ RowOr(p)' = RowOr(p)
  BY DEF Truth, RowOr
<1>2. FillInv' /\ HealInv'
  BY <1>1 DEF FillInv, MessagesFor, Tracked, HealInv, HealOps
<1>3. \A t \in Handlers : task'[t] = task[t] /\ Op(t)' = Op(t)
  BY DEF Op
<1>4. ASSUME NEW p PROVE (Sent(p) => Sent(p)') /\ \A r : Leads(p, r) => Leads(p, r)'
  BY SameLeads
<1>5. ASSUME NEW p, Leads(p, RowOr(p)) PROVE Leads(p, RowOr(p))'
  <2>1. PICK r : r = RowOr(p)
    OBVIOUS
  <2> QED
    BY <1>1, <1>4, <1>5, <2>1
<1>6. ASSUME NEW t \in Handlers, Leads(Op(t).pr, Op(t).answer.row) PROVE Leads(Op(t).pr, Op(t).answer.row)'
  <2>1. PICK p, r : p = Op(t).pr /\ r = Op(t).answer.row
    OBVIOUS
  <2> QED
    BY <1>3, <1>4, <1>6, <2>1
<1>7. ASSUME trust' = "whole"
      PROVE  /\ \A p \in PRs : Sent(p)'
             /\ \A p \in filled' : Leads(p, RowOr(p))'
             /\ \A t \in Handlers : task'[t] # <<>> =>
                  /\ (Op(t).op = "fetch" /\ Op(t).answer # None => Leads(Op(t).pr, Op(t).answer.row))'
                  /\ (Op(t).op = "threads" => Op(t).known = RowOr(Op(t).pr).resolved)'
  <2>1. trust = "whole" /\ filled' = filled
    BY <1>7
  <2>2. (\A p \in PRs : Sent(p)') /\ \A p \in filled' : Leads(p, RowOr(p))'
    BY <1>4, <1>5, <2>1 DEF RowsInv
  <2>3. \A t \in Handlers : task'[t] # <<>> =>
                  /\ (Op(t).op = "fetch" /\ Op(t).answer # None => Leads(Op(t).pr, Op(t).answer.row))'
                  /\ (Op(t).op = "threads" => Op(t).known = RowOr(Op(t).pr).resolved)'
    BY <1>1, <1>3, <1>6, <2>1 DEF RowsInv
  <2> QED
    BY <2>2, <2>3
<1> QED
  BY <1>2, <1>7 DEF RowsInv

(* A PR whose messages are all gone is not filled any more. *)
LEMMA CleanupRows ==
    ASSUME Typed, TrustInv, FillInv, RowsInv, OnDelete \/ RunCleanup, trust' # "broken"
    PROVE  FillInv' /\ RowsInv' /\ HealInv'
<1>1. /\ trust = "whole" /\ trust' = "whole" /\ Alone /\ Fill({})
      /\ UNCHANGED <<github, webhooks, task>>
  <2>1. /\ trust' = trust /\ Alone /\ Fill({}) /\ UNCHANGED <<github, webhooks, task>>
    BY DEF OnDelete, RunCleanup, TakesEvent, Trusting, env, queues
  <2>2. trust # "healing"
    BY <2>1 DEF TrustInv, Alone, Idle, Tasks
  <2> QED
    BY <2>1, <2>2 DEF Typed, HistoryOK
<1>2. \A t \in Handlers : task'[t] = <<>>
  BY <1>1 DEF Alone, Idle, Tasks
<1>3. filled \subseteq PRs /\ filled' = {p \in filled : \E m \in Messages : message'[m] # None /\ p \in message'[m].links}
  BY <1>1 DEF Fill, Typed, HistoryOK
<1>4. \A p \in filled' : row'[p] = row[p]
  <2>1. CASE OnDelete
    BY <2>1 DEF OnDelete
  <2>2. CASE RunCleanup
    <3>1. PICK kept : /\ message' = kept
                      /\ row' = [p \in PRs |-> IF \E m \in Messages : kept[m] # None /\ p \in kept[m].links
                                               THEN row[p] ELSE None]
      BY <2>2 DEF RunCleanup, Cleaned
    <3> QED
      BY <1>3, <3>1
  <2> QED
    BY <2>1, <2>2
<1>5. FillInv'
  <2>1. \A p \in filled' : MessagesFor(p)' # {}
    BY <1>3 DEF MessagesFor, Tracked
  <2> QED
    BY <1>3, <1>4, <2>1 DEF FillInv
<1>6. ASSUME NEW p PROVE (Sent(p) => Sent(p)') /\ \A r : Leads(p, r) => Leads(p, r)'
  BY <1>1, SameLeads
<1>7. ASSUME NEW p \in filled' PROVE Leads(p, RowOr(p))'
  <2>1. PICK r : r = RowOr(p)
    OBVIOUS
  <2>2. RowOr(p)' = r
    BY <1>4, <1>7, <2>1 DEF RowOr
  <2>3. Leads(p, r)'
    BY <1>1, <1>3, <1>6, <1>7, <2>1 DEF RowsInv
  <2> QED
    BY <2>2, <2>3
<1>8. \A p \in PRs : Sent(p)'
  BY <1>1, <1>6 DEF RowsInv
<1> QED
  BY <1>1, <1>2, <1>5, <1>7, <1>8 DEF RowsInv, HealInv

LEMMA RestartRows ==
    ASSUME Typed, TrustInv, FillInv, Restart
    PROVE  FillInv' /\ RowsInv' /\ HealInv'
<1>1. trust' = "healing" /\ filled' = {}
  BY DEF Restart, TrustInv
<1>2. PICK settled : task' = [task EXCEPT !["startup"] = <<[op |-> "history", skip |-> settled]>>]
  BY DEF Restart
<1>3. task'["startup"] = <<[op |-> "history", skip |-> settled]>>
  BY <1>2 DEF Typed, TasksOK, Tasks
<1>4. DOMAIN task'["startup"] = {1} /\ task'["startup"][1].op = "history"
  BY <1>3
<1>5. HealOps'
  BY <1>4 DEF HealOps, GitHubOps
<1> QED
  BY <1>1, <1>5 DEF FillInv, RowsInv, HealInv

LEMMA InitRows == Init => FillInv /\ RowsInv /\ HealInv
<1>1. SUFFICES ASSUME Init PROVE FillInv /\ RowsInv /\ HealInv
  OBVIOUS
<1>2. trust = "whole" /\ filled = {} /\ webhooks = <<>> /\ \A t \in Handlers : task[t] = <<>>
  BY <1>1 DEF Init, Tasks
<1>3. \A p, kind : About(p, kind) = {}
  BY <1>2 DEF About
<1>4. \A p : Decisions(p) = {} /\ ~Commented(p, 0) /\ Pending(p) = {}
  BY <1>2, <1>3 DEF Decisions, Commented, Pending
<1>5. \A p : Sent(p)
  BY <1>2, <1>3, <1>4 DEF Sent, ReviewSent, LifeSent, ReadySent, IsLast
<1> QED
  BY <1>2, <1>5 DEF FillInv, RowsInv, HealInv

LEMMA NextRows ==
    ASSUME Typed, TrustInv, TrustInv', ShapeInv, DueInv, FillInv, RowsInv, HealInv, [Next]_vars
    PROVE  FillInv' /\ RowsInv' /\ HealInv'
<1>1. CASE trust' = "broken"
  BY <1>1 DEF TrustInv, FillInv, RowsInv, HealInv
<1>2. CASE trust' # "broken"
  <2>1. ASSUME NEW t \in Tasks \ Idle, Step(t) PROVE FillInv' /\ RowsInv' /\ HealInv'
    <3>0. t \in Tasks /\ task[t] # <<>>
      BY <2>1 DEF Idle
    <3>1. trust \in {"whole", "healing"} /\ (trust' = trust \/ StartupComplete(t))
      <4>1. trust' \in {trust, "broken"} \/ StartupComplete(t)
        BY <2>1, StepMoves DEF Moves
      <4>2. StartupComplete(t) => (trust' = "whole" /\ trust = "healing") \/ trust' = trust
        BY DEF StartupComplete
      <4> QED
        BY <1>2, <4>1, <4>2 DEF Typed, HistoryOK
    <3>2. CASE trust = "whole"
      <4>1. t \in Handlers
        BY <3>0, <3>2 DEF TrustInv, Tasks
      <4>2. trust' = "whole"
        BY <3>1, <3>2 DEF StartupComplete
      <4>3. FillInv' /\ RowsInv'
        BY <2>1, <3>0, <3>2, <4>1, <4>2, HandlerRows DEF DueInv
      <4> QED
        BY <4>2, <4>3 DEF HealInv
    <3>3. CASE trust = "healing"
      <4>1. t = "startup"
        BY <3>0, <3>3 DEF TrustInv, Tasks
      <4> QED
        BY <1>2, <2>1, <3>0, <3>3, <4>1, StartupRows
    <3> QED
      BY <3>1, <3>2, <3>3
  <2>2. ASSUME NEW t \in Handlers \cap Idle, Receive(t) PROVE FillInv' /\ RowsInv' /\ HealInv'
    BY <1>2, <2>2, ReceiveRows
  <2>3. CASE OnDelete \/ RunCleanup
    BY <1>2, <2>3, CleanupRows
  <2>4. CASE Crash
    BY <1>2, <2>4 DEF Crash, Trusting
  <2>5. CASE Restart
    BY <2>5, RestartRows
  <2>6. ASSUME NEW p \in PRs, GitHubChanges(p) PROVE FillInv' /\ RowsInv' /\ HealInv'
    BY <1>2, <2>6, GitHubRows
  <2>7. ASSUME \/ \E links \in Links : PostMessage(links) \/ \E m \in Messages : EditMessage(m, links)
               \/ \E m \in Messages : DeleteMessage(m) \/ GrowOld(m)
        PROVE  FillInv' /\ RowsInv' /\ HealInv'
    <3>1. UNCHANGED <<github, webhooks, row, task, up, trust, filled, owed>>
      BY <2>7, UsersAside
    <3>2. message' = message
      BY <2>7 DEF PostMessage, EditMessage, DeleteMessage, GrowOld, UserActs, tables
    <3> QED
      BY <3>1, <3>2, AsideRows
  <2>8. CASE UNCHANGED vars
    BY <2>8, AsideRows DEF vars, env, queues, tables, history
  <2> QED
    BY <2>1, <2>2, <2>3, <2>4, <2>5, <2>6, <2>7, <2>8 DEF Next
<1> QED
  BY <1>1, <1>2

LEMMA RowsStand == Spec => [](FillInv /\ RowsInv /\ HealInv)
<1>1. Init => FillInv /\ RowsInv /\ HealInv
  BY InitRows
<1>2. /\ Typed /\ TrustInv /\ TrustInv' /\ ShapeInv /\ DueInv /\ FillInv /\ RowsInv /\ HealInv /\ [Next]_vars
      => FillInv' /\ RowsInv' /\ HealInv'
  BY NextRows
<1> QED
  BY <1>1, <1>2, TypedStands, TrustStands, DueStands, PTL DEF Spec

(* Whether threads are resolved matters to a PR that was commented on. *)
LEMMA SameDesired ==
    ASSUME NEW a, NEW b, a.review = b.review, a.life = b.life, a.ready = b.ready, a.failing = b.failing,
           a.review = "commented" => a.resolved = b.resolved
    PROVE  Desired({a}) = Desired({b})
<1>1. IsTerminal(a) <=> IsTerminal(b)
  BY DEF IsTerminal
<1>2. NeedsChanges(a) <=> NeedsChanges(b)
  BY DEF NeedsChanges
<1>3. CASE IsTerminal(a)
  <2>1. {r \in {a} : ~IsTerminal(r)} = {} /\ {r \in {b} : ~IsTerminal(r)} = {}
    BY <1>1, <1>3
  <2> QED
    BY <2>1 DEF Desired
<1>4. CASE ~IsTerminal(a)
  <2>1. {r \in {a} : ~IsTerminal(r)} = {a} /\ {r \in {b} : ~IsTerminal(r)} = {b}
    BY <1>1, <1>4
  <2> QED
    BY <1>2, <2>1 DEF Desired
<1> QED
  BY <1>3, <1>4

(* Once every task has ended and no webhook is on its way, the row of a PR *)
(* that was fetched whole while a message tracks it calls for the emoji    *)
(* GitHub's state of the PR calls for: the handlers of the webhooks keep   *)
(* it so while they take turns, and after any disturbance the poll of the  *)
(* next startup pass makes it so (handle_pr_event, _startup_poll_pr and    *)
(* _fetch_and_store_pr in pr-bot/bot.py).                                  *)
THEOREM RowsTrueCorrect == Spec => []RowsTrue
<1>1. Typed /\ FillInv /\ RowsInv => RowsTrue
  <2>1. SUFFICES ASSUME Typed, FillInv, RowsInv, Quiet, trust = "whole", NEW p \in filled
                 PROVE  row[p] # None /\ Desired({row[p]}) = Desired({Truth(p)})
    BY DEF RowsTrue
  <2>2. PICK r, tr : r = RowOr(p) /\ tr = Truth(p)
    OBVIOUS
  <2>3. row[p] # None /\ r = row[p]
    BY <2>1, <2>2 DEF FillInv, RowOr
  <2>4. Leads(p, r)
    BY <2>1, <2>2 DEF RowsInv
  <2>5. \A t \in Handlers : task[t] = <<>>
    BY <2>1 DEF Quiet, Alone, Idle, Tasks
  <2>6. \A kind : About(p, kind) = {}
    BY <2>1 DEF Quiet, About
  <2>7. Decisions(p) = {} /\ Threaded(p) = {} /\ ~Commented(p, 0)
    BY <2>6 DEF Decisions, Threaded, Commented
  <2>8. Pending(p) = {} /\ \A ops : Asking(p, ops) = {}
    BY <2>5 DEF Pending, Asking
  <2>9. /\ r.review = tr.review /\ r.life = tr.life /\ r.ready = tr.ready /\ r.failing = tr.failing
        /\ tr.review = "commented" => r.resolved = tr.resolved
    BY <2>2, <2>4, <2>6, <2>7, <2>8
       DEF Leads, ReviewLeads, LifeLeads, ReadyLeads, FailingLeads, ResolvedLeads
  <2> QED
    BY <2>2, <2>3, <2>9, SameDesired
<1> QED
  BY <1>1, RowsStand, TypedStands, PTL
-----------------------------------------------------------------------------
(* What the messages show.  A message fits its rows, or the task alive has *)
(* still an operation that will put it right.                              *)

Fits(m) ==
    /\ \A p \in message[m].links : row[p] # None
    /\ ~message[m].done => reactions[m] = Desired(RowsOf(m))
    /\ RowsOf(m) # {} => message[m].done = AllTerminal(RowsOf(m))
    /\ message[m].done /\ RowsOf(m) # {} =>
           reactions[m] \cap Terminal = Desired(RowsOf(m)) \cap Terminal

Looking == {"look", "react"}
Redoes(o, m) ==
    \/ o.op \in {"reconcile"} \cup Looking /\ o.message = m
    \/ /\ o.op = "notify" /\ o.pr \in message[m].links
       /\ o.transitions \cap Terminal # {} \/ ~message[m].done
Serves(t, m) == \E i \in DOMAIN task[t] : Redoes(task[t][i], m)
Covered == \A m \in Shown : Fits(m) \/ \E t \in Tasks : Serves(t, m)

(* What a reconciliation read before its await still holds after it.       *)
Corrects(o, m) ==
    /\ \A p \in message[m].links : row[p] # None
    /\ o.mark = Mark(RowsOf(m), m)
    /\ o.op = "look" => o.want = Desired(RowsOf(m))
    /\ o.op = "react" => /\ o.add \cap o.remove = {}
                         /\ (reactions[m] \cup o.add) \ o.remove = Desired(RowsOf(m))
Keen(t) ==
    /\ \A i \in DOMAIN task[t] : task[t][i].op \in Looking => i = 1
    /\ task[t] # <<>> /\ Op(t).op \in Looking /\ Op(t).message \in Shown => Corrects(Op(t), Op(t).message)

(* The emoji of an end, and whether all PRs have ended, depend on how the  *)
(* PRs have ended only.                                                    *)
LEMMA SameLives ==
    ASSUME NEW R, NEW S, \A r \in R : \E s \in S : s.life = r.life, \A s \in S : \E r \in R : r.life = s.life
    PROVE  /\ AllTerminal(R) = AllTerminal(S) /\ (R = {} <=> S = {})
           /\ Desired(R) \cap Terminal = Desired(S) \cap Terminal
<1>1. AllTerminal(R) = AllTerminal(S) /\ (R = {} <=> S = {})
  BY DEF AllTerminal, IsTerminal
<1>2. ASSUME NEW T, NEW e \in Terminal
      PROVE  e \in Desired(T) <=> AllTerminal(T) /\ \E x \in T : x.life = e
  BY <1>2 DEF Desired, AllTerminal, IsTerminal, Emoji, Terminal
<1>3. ASSUME NEW e \in Terminal
      PROVE  e \in Desired(R) <=> e \in Desired(S)
  <2>1. (\E x \in R : x.life = e) <=> (\E x \in S : x.life = e)
    OBVIOUS
  <2> QED
    BY <1>1, <1>2, <2>1, <1>3
<1> QED
  BY <1>1, <1>3

LEMMA SameRows ==
    ASSUME NEW m, message'[m].links = message[m].links, \A p \in message[m].links : row'[p] = row[p]
    PROVE  RowsOf(m)' = RowsOf(m)
  BY DEF RowsOf, RowOr

LEMMA StillFits ==
    ASSUME NEW m, message'[m] = message[m], reactions'[m] = reactions[m],
           \A p \in message[m].links : row'[p] = row[p], Fits(m)
    PROVE  Fits(m)'
<1>1. RowsOf(m)' = RowsOf(m)
  BY SameRows
<1>2. PICK rows : rows = RowsOf(m)
  OBVIOUS
<1> QED
  BY <1>1, <1>2 DEF Fits

(* A message all of whose PRs have ended does not follow them any more.    *)
LEMMA DoneFits ==
    ASSUME NEW m, message'[m] = message[m], reactions'[m] = reactions[m], message[m].done,
           \A p \in message[m].links : row'[p] # None /\ row'[p].life = row[p].life, Fits(m)
    PROVE  Fits(m)'
<1>1. PICK R : R = RowsOf(m)
  OBVIOUS
<1>2. PICK S : S = RowsOf(m)'
  OBVIOUS
<1>3. R = {row[p] : p \in message[m].links} /\ S = {row'[p] : p \in message[m].links}
  BY <1>1, <1>2 DEF Fits, RowsOf, RowOr
<1>4. AllTerminal(R) = AllTerminal(S) /\ (R = {} <=> S = {})
      /\ Desired(R) \cap Terminal = Desired(S) \cap Terminal
  <2>1. \A r \in R : \E s \in S : s.life = r.life
    BY <1>3
  <2>2. \A s \in S : \E r \in R : r.life = s.life
    BY <1>3
  <2> QED
    BY <2>1, <2>2, SameLives
<1> QED
  BY <1>1, <1>2, <1>4 DEF Fits
-----------------------------------------------------------------------------
(* What a step leaves to the task. *)

LEMMA TailStays ==
    ASSUME TasksOK, NEW t \in Tasks, task[t] # <<>>, NEW ops \in Seq(OpSet), Then(t, ops),
           NEW i \in DOMAIN task[t], i # 1
    PROVE  \E j \in DOMAIN task'[t] : task'[t][j] = task[t][i]
<1>1. PICK n \in Nat : n = Len(ops)
  BY TaskAfter
<1>2. PICK k \in Nat \ {0} : k = Len(task[t])
  BY TaskAfter
<1>3. /\ DOMAIN task[t] = 1..k /\ DOMAIN task'[t] = 1..(n + k - 1)
      /\ \A j \in DOMAIN task'[t] : task'[t][j] = IF j <= n THEN ops[j] ELSE task[t][j - n + 1]
  BY <1>1, <1>2, TaskAfter
<1>4. i \in 1..k /\ i # 1
  BY <1>3
<1>5. i + n - 1 \in 1..(n + k - 1) /\ ~(i + n - 1 <= n) /\ (i + n - 1) - n + 1 = i
  BY <1>4
<1> QED
  BY <1>3, <1>5

LEMMA OpsCome ==
    ASSUME TasksOK, NEW t \in Tasks, task[t] # <<>>, NEW ops \in Seq(OpSet), Then(t, ops), NEW i \in DOMAIN ops
    PROVE  i \in DOMAIN task'[t] /\ task'[t][i] = ops[i]
<1>1. PICK n \in Nat : n = Len(ops)
  BY TaskAfter
<1>2. PICK k \in Nat \ {0} : k = Len(task[t])
  BY TaskAfter
<1>3. /\ DOMAIN ops = 1..n /\ DOMAIN task'[t] = 1..(n + k - 1)
      /\ \A j \in DOMAIN task'[t] : task'[t][j] = IF j <= n THEN ops[j] ELSE task[t][j - n + 1]
  BY <1>1, <1>2, TaskAfter
<1>4. i \in 1..n
  BY <1>3
<1>5. i \in 1..(n + k - 1) /\ i <= n
  BY <1>4
<1> QED
  BY <1>3, <1>5

LEMMA TaskIs ==
    ASSUME TasksOK, NEW t \in Tasks, task[t] # <<>>, NEW ops \in Seq(OpSet), Then(t, ops), NEW j \in DOMAIN task'[t]
    PROVE  \/ j \in DOMAIN ops /\ task'[t][j] = ops[j]
           \/ \E i \in DOMAIN task[t] : i # 1 /\ task'[t][j] = task[t][i]
<1>1. PICK n \in Nat : n = Len(ops)
  BY TaskAfter
<1>2. PICK k \in Nat \ {0} : k = Len(task[t])
  BY TaskAfter
<1>3. /\ DOMAIN ops = 1..n /\ DOMAIN task[t] = 1..k /\ DOMAIN task'[t] = 1..(n + k - 1)
      /\ \A i \in DOMAIN task'[t] : task'[t][i] = IF i <= n THEN ops[i] ELSE task[t][i - n + 1]
  BY <1>1, <1>2, TaskAfter
<1>4. j \in 1..(n + k - 1)
  BY <1>3
<1>5. CASE j <= n
  <2>1. j \in 1..n
    BY <1>4, <1>5
  <2> QED
    BY <1>3, <1>5, <2>1
<1>6. CASE ~(j <= n)
  <2>1. j - n + 1 \in 1..k /\ j - n + 1 # 1
    BY <1>4, <1>6
  <2> QED
    BY <1>3, <1>6, <2>1
<1> QED
  BY <1>5, <1>6

(* The one task alive, and it alone, puts right what is to be put right.   *)
LEMMA OneServes ==
    ASSUME TasksOK, NEW t \in Tasks, \A u \in Tasks : u # t => task[u] = <<>>, NEW u \in Tasks, NEW m, Serves(u, m)
    PROVE  u = t
<1>1. CASE task[u] = <<>>
  <2>1. DOMAIN task[u] = {}
    BY <1>1
  <2> QED
    BY <2>1 DEF Serves
<1> QED
  BY <1>1

LEMMA CoveredAfter ==
    ASSUME TasksOK, NEW t \in Tasks, task[t] # <<>>, \A u \in Tasks : u # t => task[u] = <<>>, Covered,
           NEW ops \in Seq(OpSet), Then(t, ops),
           \A m \in Shown' :
             \/ Fits(m)' \/ \E i \in DOMAIN ops : Redoes(ops[i], m)'
             \/ /\ m \in Shown /\ message'[m] = message[m] /\ ~Redoes(Op(t), m)
                /\ Fits(m) => Fits(m)' \/ \E i \in DOMAIN task[t] : i # 1 /\ Redoes(task[t][i], m)
    PROVE  Covered'
<1>1. SUFFICES ASSUME NEW m \in Shown'
               PROVE  Fits(m)' \/ Serves(t, m)'
  BY DEF Covered
<1>2. ASSUME NEW i \in DOMAIN ops, Redoes(ops[i], m)'
      PROVE  Serves(t, m)'
  <2>1. i \in DOMAIN task'[t] /\ task'[t][i] = ops[i]
    BY OpsCome
  <2> QED
    BY <1>2, <2>1 DEF Serves
<1>3. ASSUME message'[m] = message[m], NEW i \in DOMAIN task[t], i # 1, Redoes(task[t][i], m)
      PROVE  Serves(t, m)'
  <2>1. PICK j \in DOMAIN task'[t] : task'[t][j] = task[t][i]
    BY <1>3, TailStays
  <2>2. PICK o : o = task[t][i]
    OBVIOUS
  <2>3. Redoes(o, m)'
    BY <1>3, <2>2 DEF Redoes
  <2> QED
    BY <2>1, <2>2, <2>3 DEF Serves
<1>4. ASSUME m \in Shown, message'[m] = message[m], ~Redoes(Op(t), m), ~Fits(m)
      PROVE  Serves(t, m)'
  <2>1. PICK u \in Tasks : Serves(u, m)
    BY <1>4 DEF Covered
  <2>2. Serves(t, m)
    BY <2>1, OneServes
  <2>3. PICK i \in DOMAIN task[t] : Redoes(task[t][i], m)
    BY <2>2 DEF Serves
  <2>4. task[t][1] = Op(t)
    BY TaskFields
  <2>5. i # 1
    BY <1>4, <2>3, <2>4
  <2> QED
    BY <1>3, <1>4, <2>3, <2>5
<1> QED
  BY <1>1, <1>2, <1>3, <1>4

LEMMA KeenAfter ==
    ASSUME TasksOK, NEW t \in Tasks, task[t] # <<>>, Keen(t), NEW ops \in Seq(OpSet), Then(t, ops),
           \A i \in DOMAIN ops : ops[i].op \in Looking =>
             i = 1 /\ (ops[1].message \in Shown' => Corrects(ops[1], ops[1].message)')
    PROVE  Keen(t)'
<1>1. ASSUME NEW j \in DOMAIN task'[t], task'[t][j].op \in Looking
      PROVE  j \in DOMAIN ops /\ task'[t][j] = ops[j]
  BY <1>1, TaskIs DEF Keen
<1>2. TasksOK'
  BY TaskAfter DEF TasksOK
<1>3. ASSUME task'[t] # <<>>, Op(t)'.op \in Looking, Op(t)'.message \in Shown'
      PROVE  Corrects(Op(t), Op(t).message)'
  <2>1. 1 \in DOMAIN task'[t] /\ task'[t][1] = Op(t)'
    <3>1. task'[t] \in Seq(OpSet)
      BY <1>2 DEF TasksOK
    <3> QED
      BY <1>3, <3>1 DEF Op
  <2>2. 1 \in DOMAIN ops /\ Op(t)' = ops[1]
    BY <1>1, <1>3, <2>1
  <2> QED
    BY <1>3, <2>2
<1> QED
  BY <1>1, <1>3 DEF Keen
-----------------------------------------------------------------------------
(* Only a reconciliation looks at a message, and a question to GitHub is   *)
(* asked before it is answered.                                            *)

Calm == {"sleep", "polls", "sweep", "complete", "state", "dm", "reconcile", "reread", "ingest", "post", "unguard"}
Calms(ops) ==
    \A i \in DOMAIN ops : ops[i].op \notin Looking /\ (ops[i].op \in GitHubOps => ops[i].answer = None)

LEMMA CalmOps ==
    ASSUME NEW ops \in Seq(OpSet), Only(ops, Calm)
    PROVE  Calms(ops)
  BY DEF Only, Calm, Calms, Looking, GitHubOps

(* A paced sequence holds the operations it paces, and pauses. *)
LEMMA PacedHolds ==
    ASSUME NEW ops \in Seq(OpSet), NEW next \in {"polls", "sweep", "complete"}, NEW kinds, Only(ops, kinds),
           "sleep" \in kinds, next \in kinds
    PROVE  /\ Paced(ops, next) \in Seq(OpSet) /\ Only(Paced(ops, next), kinds)
           /\ \A i \in DOMAIN ops : \E j \in DOMAIN Paced(ops, next) : Paced(ops, next)[j] = ops[i]
           /\ \E n \in Nat \ {0} : /\ Len(Paced(ops, next)) = n /\ DOMAIN Paced(ops, next) = 1..n
                                  /\ Paced(ops, next)[n] = [op |-> next]
<1>1. PICK n \in Nat : n = Len(ops)
  BY PacedAre
<1>2. /\ Paced(ops, next) \in Seq(OpSet) /\ Len(Paced(ops, next)) = 2 * n + 1
      /\ Paced(ops, next)[2 * n + 1] = [op |-> next]
      /\ \A i \in 1..(2 * n) : Paced(ops, next)[i] = IF i % 2 = 1 THEN ops[(i + 1) \div 2] ELSE Pause
  BY <1>1, PacedAre
<1>3. DOMAIN ops = 1..n /\ DOMAIN Paced(ops, next) = 1..(2 * n + 1)
  BY <1>1, <1>2
<1>4. PICK ps : ps = Paced(ops, next)
  OBVIOUS
<1>5. ASSUME NEW i \in 1..(2 * n + 1)
      PROVE  ps[i].op \in kinds
  <2>1. CASE i = 2 * n + 1
    BY <1>2, <1>4, <2>1
  <2>2. CASE i # 2 * n + 1 /\ i % 2 = 1
    <3>1. i \in 1..(2 * n) /\ (i + 1) \div 2 \in 1..n
      BY <2>2
    <3> QED
      BY <1>2, <1>3, <1>4, <2>2, <3>1 DEF Only
  <2>3. CASE i # 2 * n + 1 /\ i % 2 # 1
    <3>1. i \in 1..(2 * n)
      BY <2>3
    <3> QED
      BY <1>2, <1>4, <2>3, <3>1 DEF Pause
  <2> QED
    BY <2>1, <2>2, <2>3
<1>6. ASSUME NEW i \in DOMAIN ops
      PROVE  \E j \in 1..(2 * n + 1) : ps[j] = ops[i]
  <2>1. i \in 1..n
    BY <1>3
  <2>2. /\ 2 * i - 1 \in 1..(2 * n) /\ 2 * i - 1 \in 1..(2 * n + 1)
        /\ (2 * i - 1) % 2 = 1 /\ ((2 * i - 1) + 1) \div 2 = i
    BY <2>1
  <2> QED
    BY <1>2, <1>4, <2>2
<1>7. 2 * n + 1 \in Nat \ {0}
  OBVIOUS
<1> QED
  BY <1>2, <1>3, <1>4, <1>5, <1>6, <1>7 DEF Only

LEMMA StepCalms ==
    ASSUME Typed, ShapeInv, NEW t \in Tasks, task[t] # <<>>, Step(t), ~\E lost : Answer(t, lost),
           Op(t).op \notin {"reconcile"} \cup Looking
    PROVE  GivesUp(t) \/ \E ops \in Seq(OpSet) : Then(t, ops) /\ Calms(ops)
<1> DEFINE o == Op(t)
           Done == GivesUp(t) \/ \E ops \in Seq(OpSet) : Then(t, ops) /\ Calms(ops)
<1>0. /\ o \in OpSet /\ GitHubOK /\ ChannelOK /\ ReactionsOK /\ TablesOK /\ TasksOK
      /\ o.op = "notify" => \A x, y \in o.transitions : x = y
  <2>1. GitHubOK /\ ChannelOK /\ ReactionsOK /\ TablesOK /\ TasksOK
    BY DEF Typed
  <2>2. o = task[t][1] /\ 1 \in DOMAIN task[t]
    BY <2>1, TaskFields
  <2> QED
    BY <2>1, <2>2, OpTyped DEF ShapeInv
<1>1. ASSUME NEW ops \in Seq(OpSet), Then(t, ops), Only(ops, Calm)
      PROVE  Done
  BY <1>1, CalmOps
<1>2. ASSUME NEW x \in OpSet, Then(t, <<x>>), x.op \in Calm
      PROVE  Done
  BY <1>1, <1>2, OneOp
<1>3. ASSUME Then(t, <<>>)
      PROVE  Done
  BY <1>1, <1>3, NoOps
<1>6. ASSUME IngestMessage(t) PROVE Done
  <2>1. o \in Ingestions /\ o.op = "ingest"
    BY <1>0, <1>6, OpFields DEF IngestMessage, At
  <2>2. o.message \in Messages /\ o.links \in SUBSET PRs
    BY <2>1 DEF Ingestions
  <2>3. Reconcile(o.message) \in OpSet /\ Reconcile(o.message).op = "reconcile"
    BY <2>2, GivenOps DEF Reconcile, Given
  <2>4. <<Reconcile(o.message)>> \in Seq(OpSet) /\ Only(<<Reconcile(o.message)>>, Calm)
    BY <2>3, OneOp DEF Calm
  <2>5. States(o.links) \in Seq(OpSet) /\ Only(States(o.links), Calm)
    BY <2>2, StatesAre DEF Calm, Only
  <2>6. IngestOps(o.message, o.links) \in Seq(OpSet) /\ Only(IngestOps(o.message, o.links), Calm)
    BY <2>4, <2>5, BothAre, OnlyBoth DEF IngestOps
  <2>7. Then(t, IngestOps(o.message, o.links))
    BY <1>6 DEF IngestMessage
  <2> QED
    BY <1>1, <2>6, <2>7
<1>7. ASSUME LookUpState(t) PROVE Done
  <2>1. o \in PrOps
    BY <1>0, <1>7, OpFields DEF LookUpState, At
  <2>2. o.pr \in PRs
    BY <2>1 DEF PrOps
  <2>3. Await("fetch", o.pr, None) \in OpSet /\ Pause \in OpSet /\ Pause.op = "sleep"
    BY <2>2, AwaitGiven, GivenOps DEF Given, Pause
  <2>4. Then(t, <<Await("fetch", o.pr, None)>>) \/ Then(t, <<>>) \/ Then(t, <<Pause>>)
    BY <1>7 DEF LookUpState
  <2>5. CASE Then(t, <<Await("fetch", o.pr, None)>>)
    <3>1. PICK x \in OpSet : x = Await("fetch", o.pr, None)
      BY <2>3
    <3>2. x.op = "fetch" /\ x.answer = None
      BY <3>1 DEF Await
    <3>3. Calms(<<x>>)
      BY <3>2, OneOp DEF Calms, Looking
    <3>4. <<x>> \in Seq(OpSet) /\ Then(t, <<x>>)
      BY <2>5, <3>1, OneOp
    <3> QED
      BY <3>3, <3>4
  <2> QED
    BY <1>2, <1>3, <2>3, <2>4, <2>5 DEF Calm
<1>8. ASSUME FetchAndStore(t) \/ UpdateDone(t) \/ DmUser(t) \/ Sleep(t) \/ ReadThreads(t)
             \/ AutopostUnanswered(t) \/ Unguard(t) \/ StartupComplete(t)
      PROVE  Done
  <2>1. Then(t, <<>>)
    BY <1>8 DEF FetchAndStore, UpdateDone, DmUser, Sleep, ReadThreads, AutopostUnanswered, Unguard, StartupComplete
  <2> QED
    BY <1>3, <2>1
<1>9. ASSUME ReadRows(t) \/ FetchMessage(t) \/ \E emoji, fails : React(t, emoji, fails) PROVE Done
  BY <1>9 DEF ReadRows, FetchMessage, React, At, Looking
<1>12. ASSUME DiscordFails(t) PROVE Done
  <2>1. Then(t, <<>>) \/ GivesUp(t)
    BY <1>12 DEF DiscordFails, GivesUp
  <2> QED
    BY <1>3, <2>1
<1>13. ASSUME NotifyMessages(t) PROVE Done
  <2> DEFINE ends == o.transitions \cap Terminal # {}
             ms == IF ends THEN MessagesFor(o.pr) ELSE NotDone(MessagesFor(o.pr))
  <2>1. o \in Notices /\ o.op = "notify"
    BY <1>0, <1>13, OpFields DEF NotifyMessages, At
  <2>2. o.pr \in PRs /\ o.transitions \in SUBSET Transitions /\ ms \in SUBSET Messages
    BY <2>1, MessagesOfPR DEF Notices
  <2>3. PICK ds \in {<<>>, Dms(o.pr, o.transitions)} : Then(t, Reconciles(ms) \o ds)
    BY <1>13 DEF NotifyMessages
  <2>4. ds \in Seq(OpSet) /\ Only(ds, Calm)
    <3>1. CASE ds = <<>>
      BY <3>1, NoOps
    <3>2. CASE ds = Dms(o.pr, o.transitions)
      BY <2>2, <3>2, DmsAre DEF Only, Calm
    <3> QED
      BY <3>1, <3>2
  <2> HIDE DEF ms
  <2>5. Reconciles(ms) \in Seq(OpSet) /\ Only(Reconciles(ms), Calm)
    BY <2>2, ReconcilesAre DEF Only, Calm
  <2>6. Reconciles(ms) \o ds \in Seq(OpSet) /\ Only(Reconciles(ms) \o ds, Calm)
    BY <2>4, <2>5, BothAre, OnlyBoth
  <2> QED
    BY <1>1, <2>3, <2>6
<1>14. ASSUME RecheckThreads(t) PROVE Done
  <2>1. o.known \in SUBSET Messages
    BY <1>0, <1>14, AnswerTyped DEF RecheckThreads, GitHubOps, Answered, At
  <2>2. Reconciles(o.known) \in Seq(OpSet) /\ Only(Reconciles(o.known), Calm)
    BY <2>1, ReconcilesAre DEF Calm, Only
  <2>3. Then(t, <<>>) \/ Then(t, Reconciles(o.known))
    BY <1>14 DEF RecheckThreads
  <2> QED
    BY <1>1, <1>3, <2>2, <2>3
<1>15. ASSUME RecheckChecks(t) PROVE Done
  <2>1. o.known.messages \in SUBSET Messages /\ o.pr \in PRs
    BY <1>0, <1>15, AnswerTyped DEF RecheckChecks, GitHubOps, Answered, At
  <2>2. PICK ds \in {<<>>, Dms(o.pr, {"checks_failed"})} :
           Then(t, <<>>) \/ Then(t, Reconciles(o.known.messages) \o ds)
    BY <1>15 DEF RecheckChecks
  <2>3. {"checks_failed"} \in SUBSET Transitions
    BY DEF Transitions
  <2>4. ds \in Seq(OpSet) /\ Only(ds, Calm)
    <3>1. CASE ds = <<>>
      BY <3>1, NoOps
    <3>2. CASE ds = Dms(o.pr, {"checks_failed"})
      BY <2>1, <2>3, <3>2, DmsAre DEF Only, Calm
    <3> QED
      BY <3>1, <3>2
  <2>5. Reconciles(o.known.messages) \in Seq(OpSet) /\ Only(Reconciles(o.known.messages), Calm)
    BY <2>1, ReconcilesAre DEF Only, Calm
  <2>6. Reconciles(o.known.messages) \o ds \in Seq(OpSet) /\ Only(Reconciles(o.known.messages) \o ds, Calm)
    BY <2>4, <2>5, BothAre, OnlyBoth
  <2> QED
    BY <1>1, <1>3, <2>2, <2>6
<1>16. ASSUME Autopost(t) PROVE Done
  <2>1. o \in PostOps
    BY <1>0, <1>16, OpFields DEF Autopost, AutopostLands, At
  <2>2. o.pr \in PRs /\ posted + 1 \in Messages
    BY <1>0, <1>16, <2>1, PrBotAssumption DEF PostOps, Autopost, AutopostLands, ChannelOK, Messages
  <2>3. Ingest(posted + 1, {o.pr}) \in OpSet /\ Ingest(posted + 1, {o.pr}).op \in Calm
    <3>1. Ingest(posted + 1, {o.pr}) \in Ingestions
      BY <2>2 DEF Ingest, Ingestions
    <3> QED
      BY <3>1 DEF OpSet, Ingest, Calm
  <2>4. Then(t, <<Ingest(posted + 1, {o.pr})>>)
    BY <1>16 DEF Autopost
  <2> QED
    BY <1>2, <2>3, <2>4
<1>23. ASSUME FetchAuthor(t) PROVE Done
  <2>1. o.pr \in PRs
    BY <1>0, <1>23, AnswerTyped DEF FetchAuthor, GitHubOps
  <2>2. PICK tracked \in BOOLEAN : Then(t, <<>>) \/ Then(t, Posts(o.pr, tracked))
    BY <1>23 DEF FetchAuthor
  <2>3. PICK ops : ops = Posts(o.pr, tracked)
    OBVIOUS
  <2>4. ops \in Seq(OpSet) /\ \A i \in DOMAIN ops : ops[i].op \in {"post", "unguard"}
    BY <2>1, <2>3, AutopostsAre
  <2>5. Only(ops, Calm)
    BY <2>4 DEF Only, Calm
  <2> QED
    BY <1>1, <1>3, <2>2, <2>3, <2>4, <2>5
<1>17. ASSUME StoreLabels(t) PROVE Done
  <2> DEFINE rs == Reconciles(NotDone(MessagesFor(o.pr)))
  <2>1. rs \in Seq(OpSet) /\ Only(rs, Calm)
    BY MessagesOfPR, ReconcilesAre DEF Calm, Only
  <2>2. Then(t, <<>>) \/ Then(t, rs)
    BY <1>17 DEF StoreLabels
  <2> HIDE DEF rs
  <2> QED
    BY <1>1, <1>3, <2>1, <2>2
<1>18. ASSUME RereadMessage(t) PROVE Done
  <2>1. o \in MessageOps
    BY <1>0, <1>18, OpFields DEF RereadMessage, At
  <2>2. o.message \in Messages
    BY <2>1 DEF MessageOps
  <2>3. content[o.message] # None =>
          Ingest(o.message, content[o.message]) \in OpSet /\ Ingest(o.message, content[o.message]).op \in Calm
    <3>1. content[o.message] # None => Ingest(o.message, content[o.message]) \in Ingestions
      BY <1>0, <2>2 DEF Ingest, Ingestions, ChannelOK
    <3> QED
      BY <3>1 DEF OpSet, Ingest, Calm
  <2>4. Then(t, <<>>) \/ (content[o.message] # None /\ Then(t, <<Ingest(o.message, content[o.message])>>))
    BY <1>18 DEF RereadMessage
  <2> QED
    BY <1>2, <1>3, <2>3, <2>4
<1>19. ASSUME ScanHistory(t) PROVE Done
  <2> DEFINE found == {m \in Messages : content[m] # None} \ (old \cup o.skip)
             n == Cardinality(found)
             f == InOrder(found)
             is == [i \in 1..n |-> Ingest(f[i], content[f[i]])]
  <2>1. n \in Nat /\ f \in [1..n -> found]
    BY MessagesFinite, InOrderInto
  <2>2. \A m \in found : m \in Messages /\ content[m] \in SUBSET PRs
    BY <1>0 DEF ChannelOK
  <2>3. Then(t, Paced(is, "polls"))
    BY <1>19 DEF ScanHistory
  <2> HIDE DEF found, n, f
  <2>4. \A i \in 1..n : Ingest(f[i], content[f[i]]) \in OpSet /\ Ingest(f[i], content[f[i]]).op = "ingest"
    <3>1. \A m \in found : Ingest(m, content[m]) \in Ingestions
      BY <2>2 DEF Ingest, Ingestions
    <3> QED
      BY <2>1, <3>1 DEF OpSet, Ingest
  <2>5. is \in [1..n -> OpSet] /\ \A i \in 1..n : is[i].op = "ingest"
    BY <2>4
  <2>6. is \in Seq(OpSet) /\ DOMAIN is = 1..n
    BY <2>1, <2>5, FunctionIsSeq
  <2> HIDE DEF is
  <2>7. Only(is, Calm)
    BY <2>5, <2>6 DEF Only, Calm
  <2>8. Paced(is, "polls") \in Seq(OpSet) /\ Only(Paced(is, "polls"), Calm)
    <3>1. "sleep" \in Calm /\ "polls" \in Calm
      BY DEF Calm
    <3> QED
      BY <2>6, <2>7, <3>1, PacedHolds
  <2> QED
    BY <1>1, <2>3, <2>8
<1>20. ASSUME ListActivePRs(t) PROVE Done
  <2>1. PICK ops \in Seq(OpSet) :
             /\ Then(t, ops)
             /\ \A i \in DOMAIN ops :
                  /\ ops[i].op \in {"poll", "sleep", "sweep"}
                  /\ ops[i].op = "poll" => ops[i].answer = None
    BY <1>20, PollsAre
  <2>2. Calms(ops)
    BY <2>1 DEF Calms, Looking, GitHubOps
  <2> QED
    BY <2>1, <2>2
<1>21. ASSUME PollPR(t) PROVE Done
  <2> DEFINE was == o.known
             new == Read(t, was)
             transitions == ({new.life} \cap Terminal)
                            \cup (IF new.review # was.review THEN {new.review} \ {"none"} ELSE {})
                            \cup (IF new.failing /\ ~was.failing THEN {"checks_failed"} ELSE {})
             rs == Reconciles(MessagesFor(o.pr))
             ds == IF NotDone(MessagesFor(o.pr)) = {} THEN <<>> ELSE Dms(o.pr, transitions)
  <2>1. o.pr \in PRs /\ was \in Row
    BY <1>0, <1>21, AnswerTyped DEF PollPR, GitHubOps, Answered, At
  <2>2. new \in Row
    BY <1>0, <1>21, <2>1, ReadTyped DEF PollPR, GitHubOps
  <2>3. transitions \in SUBSET Transitions
    <3>1. new.review \in Statuses
      BY <2>2 DEF Row
    <3> HIDE DEF new, was
    <3> QED
      BY <3>1 DEF Transitions, ReviewTransitions
  <2>4. Then(t, <<>>) \/ Then(t, rs \o ds)
    BY <1>21 DEF PollPR
  <2>5. rs \in Seq(OpSet) /\ Only(rs, Calm)
    BY MessagesOfPR, ReconcilesAre DEF Only, Calm
  <2> HIDE DEF transitions
  <2>6. ds \in Seq(OpSet) /\ Only(ds, Calm)
    <3>1. CASE ds = <<>>
      BY <3>1, NoOps
    <3>2. CASE ds = Dms(o.pr, transitions)
      BY <2>1, <2>3, <3>2, DmsAre DEF Only, Calm
    <3> QED
      BY <3>1, <3>2
  <2> HIDE DEF rs, ds
  <2>7. rs \o ds \in Seq(OpSet) /\ Only(rs \o ds, Calm)
    BY <2>5, <2>6, BothAre, OnlyBoth
  <2> QED
    BY <1>1, <1>3, <2>4, <2>7
<1>22. ASSUME SweepMessages(t) PROVE Done
  <2> DEFINE rs == Reconciles(ToSweep)
  <2>1. rs \in Seq(OpSet) /\ Only(rs, Calm)
    BY MessagesOfPR, ReconcilesAre DEF Calm, Only
  <2>2. Then(t, Paced(rs, "complete"))
    BY <1>22 DEF SweepMessages
  <2> HIDE DEF rs
  <2>3. Paced(rs, "complete") \in Seq(OpSet) /\ Only(Paced(rs, "complete"), Calm)
    <3>1. "sleep" \in Calm /\ "complete" \in Calm
      BY DEF Calm
    <3> QED
      BY <2>1, <3>1, PacedHolds
  <2> QED
    BY <1>1, <2>2, <2>3
<1> HIDE DEF o
<1> QED
  BY <1>6, <1>7, <1>8, <1>9, <1>12, <1>13, <1>14, <1>15, <1>16, <1>17, <1>18,
     <1>19, <1>20, <1>21, <1>22, <1>23 DEF Step
-----------------------------------------------------------------------------
(* The reconciliations of some messages leave none of them out. *)
LEMMA ReconcilesReach ==
    ASSUME NEW ms \in SUBSET Messages, NEW m \in ms
    PROVE  \E i \in DOMAIN Reconciles(ms) : Reconciles(ms)[i] = Reconcile(m)
<1>1. PICK n : n = Cardinality(ms)
  OBVIOUS
<1>2. PICK f : f = InOrder(ms)
  OBVIOUS
<1>3. n \in Nat /\ f \in [1..n -> ms] /\ \A i, j \in 1..n : i < j => f[i] < f[j]
  <2>1. Cardinality(ms) \in Nat
    BY MessagesFinite, InOrderInto
  <2>2. \E g \in [1..Cardinality(ms) -> ms] : \A i, j \in 1..Cardinality(ms) : i < j => g[i] < g[j]
    BY MessagesFinite, AscendingExists DEF Ascends
  <2> QED
    BY <1>1, <1>2, <2>1, <2>2 DEF InOrder
<1>4. \E i \in 1..n : f[i] = m
  <2>1. SUFFICES ASSUME \A i \in 1..n : f[i] # m
                 PROVE  FALSE
    OBVIOUS
  <2>2. f \in [1..n -> ms \ {m}]
    BY <1>3, <2>1
  <2>3. IsFiniteSet(ms) /\ IsFiniteSet(ms \ {m}) /\ Cardinality(ms \ {m}) = n - 1
    BY <1>1, MessagesFinite, FS_Subset, FS_RemoveElement
  <2>4. IsFiniteSet(1..n) /\ Cardinality(1..n) = n
    BY <1>3, FS_Interval
  <2>5. Cardinality(ms \ {m}) < Cardinality(1..n)
    BY <1>3, <2>3, <2>4
  <2>6. PICK left : left = ms \ {m}
    OBVIOUS
  <2>7. PICK places : places = 1..n
    OBVIOUS
  <2>8. /\ IsFiniteSet(places) /\ IsFiniteSet(left) /\ Cardinality(left) < Cardinality(places)
         /\ f \in [places -> left]
    BY <2>2, <2>3, <2>4, <2>5, <2>6, <2>7
  <2>9. \E i, j \in places : i # j /\ f[i] = f[j]
    BY <2>8, FS_PigeonHole
  <2>10. PICK i, j \in 1..n : i # j /\ f[i] = f[j]
    BY <2>7, <2>9
  <2>11. f[i] \in Nat
    BY <1>3, MessagesFinite DEF AreNumbers
  <2>12. i < j \/ j < i
    BY <2>10, <1>3
  <2> QED
    BY <1>3, <2>10, <2>11, <2>12
<1>5. PICK i \in 1..n : f[i] = m
  BY <1>4
<1>6. Reconciles(ms) = [k \in 1..n |-> Reconcile(f[k])]
  BY <1>1, <1>2 DEF Reconciles
<1> QED
  BY <1>5, <1>6

LEMMA ReconcilesRedo ==
    ASSUME NEW ms \in SUBSET Messages, NEW m \in ms
    PROVE  \E i \in DOMAIN Reconciles(ms) : Redoes(Reconciles(ms)[i], m)
<1>1. PICK i \in DOMAIN Reconciles(ms) : Reconciles(ms)[i] = Reconcile(m)
  BY ReconcilesReach
<1>2. Redoes(Reconcile(m), m)
  BY DEF Redoes, Reconcile
<1> QED
  BY <1>1, <1>2

(* What stands in one of two sequences stands in both together. *)
LEMMA BothRedo ==
    ASSUME NEW a \in Seq(OpSet), NEW b \in Seq(OpSet), NEW m
    PROVE  /\ (\E i \in DOMAIN a : Redoes(a[i], m)) => \E i \in DOMAIN (a \o b) : Redoes((a \o b)[i], m)
           /\ (\E i \in DOMAIN b : Redoes(b[i], m)) => \E i \in DOMAIN (a \o b) : Redoes((a \o b)[i], m)
<1>1. PICK ab : ab = a \o b
  OBVIOUS
<1>2. PICK k \in Nat : k = Len(a)
  BY BothAre
<1>3. PICK n \in Nat : n = Len(b)
  BY BothAre
<1>4. /\ DOMAIN a = 1..k /\ DOMAIN b = 1..n /\ DOMAIN ab = 1..(k + n)
      /\ \A i \in 1..(k + n) : ab[i] = IF i <= k THEN a[i] ELSE b[i - k]
  BY <1>1, <1>2, <1>3, BothAre
<1>5. ASSUME NEW i \in DOMAIN a
      PROVE  i \in DOMAIN ab /\ ab[i] = a[i]
  BY <1>4
<1>6. ASSUME NEW i \in DOMAIN b
      PROVE  \E j \in DOMAIN ab : ab[j] = b[i]
  <2>1. i \in 1..n
    BY <1>4
  <2>2. i + k \in 1..(k + n) /\ ~(i + k <= k) /\ (i + k) - k = i
    BY <2>1
  <2> QED
    BY <1>4, <2>2
<1> QED
  BY <1>1, <1>5, <1>6
-----------------------------------------------------------------------------
(* The steps that leave the messages and their reactions alone.            *)

LEMMA RowCovers ==
    ASSUME TasksOK, NEW t \in Tasks, task[t] # <<>>, \A u \in Tasks : u # t => task[u] = <<>>, Covered,
           NEW ops \in Seq(OpSet), Then(t, ops), UNCHANGED <<message, reactions>>, Shown' \subseteq Shown,
           Op(t).op \notin {"reconcile", "notify"} \cup Looking,
           \A m \in Shown : Fits(m) =>
             \/ \A p \in message[m].links : row'[p] = row[p]
             \/ message[m].done /\ \A p \in message[m].links : row'[p] # None /\ row'[p].life = row[p].life
             \/ \E i \in DOMAIN ops : Redoes(ops[i], m)
             \/ \E i \in DOMAIN task[t] : i # 1 /\ Redoes(task[t][i], m)
    PROVE  Covered'
<1>1. ASSUME NEW m \in Shown'
      PROVE  \/ Fits(m)' \/ \E i \in DOMAIN ops : Redoes(ops[i], m)'
             \/ /\ m \in Shown /\ message'[m] = message[m] /\ ~Redoes(Op(t), m)
                /\ Fits(m) => Fits(m)' \/ \E i \in DOMAIN task[t] : i # 1 /\ Redoes(task[t][i], m)
  <2>1. m \in Shown /\ message'[m] = message[m] /\ reactions'[m] = reactions[m] /\ ~Redoes(Op(t), m)
    BY DEF Redoes
  <2>2. CASE ~Fits(m)
    BY <2>1, <2>2
  <2>3. CASE Fits(m) /\ \A p \in message[m].links : row'[p] = row[p]
    BY <2>1, <2>3, StillFits
  <2>4. CASE Fits(m) /\ message[m].done /\ \A p \in message[m].links : row'[p] # None /\ row'[p].life = row[p].life
    BY <2>1, <2>4, DoneFits
  <2>5. CASE \E i \in DOMAIN ops : Redoes(ops[i], m)
    BY <2>1, <2>5 DEF Redoes
  <2> QED
    BY <2>1, <2>2, <2>3, <2>4, <2>5
<1> QED
  BY <1>1, CoveredAfter

LEMMA QuietCovers ==
    ASSUME TasksOK, NEW t \in Tasks, task[t] # <<>>, \A u \in Tasks : u # t => task[u] = <<>>, Covered,
           NEW ops \in Seq(OpSet), Then(t, ops), UNCHANGED <<row, message, reactions>>, Shown' \subseteq Shown,
           Op(t).op \notin {"reconcile", "notify"} \cup Looking
    PROVE  Covered'
  BY RowCovers

(* A column of a row that says nothing of the PR's end matters to the      *)
(* messages that are not done.                                             *)
LEMMA ColumnSet ==
    ASSUME TablesOK, NEW p \in PRs, NEW r \in Row, r.life = RowOr(p).life, row' = [row EXCEPT ![p] = r],
           NEW m \in Shown, Fits(m)
    PROVE  \/ \A q \in message[m].links : row'[q] = row[q]
           \/ p \in message[m].links /\ \A q \in message[m].links : row'[q] # None /\ row'[q].life = row[q].life
<1>1. message[m].links \subseteq PRs /\ \A q \in message[m].links : row[q] # None
  BY DEF TablesOK, Shown, Tracked, Entries, Fits
<1>2. \A q \in PRs : row'[q] = IF q = p THEN r ELSE row[q]
  BY DEF TablesOK
<1>3. CASE p \notin message[m].links
  BY <1>1, <1>2, <1>3
<1>4. CASE p \in message[m].links
  <2>1. r # None /\ RowOr(p) = row[p]
    BY <1>1, <1>4, RowIsSome DEF RowOr
  <2> QED
    BY <1>1, <1>2, <1>4, <2>1
<1> QED
  BY <1>3, <1>4

LEMMA ShownFields ==
    ASSUME TablesOK, NEW m \in Shown
    PROVE  /\ m \in Messages /\ m \in Tracked /\ m \notin old /\ content[m] # None /\ message[m] # None
           /\ message[m] \in Entries /\ message[m].links \subseteq PRs /\ message[m].done \in BOOLEAN
  BY DEF TablesOK, Shown, Tracked, Entries
-----------------------------------------------------------------------------
(* The steps of the one task alive that store what GitHub answered.        *)
Alive(t) == t \in Tasks /\ task[t] # <<>> /\ \A u \in Tasks : u # t => task[u] = <<>>

(* What a handler knew before its await is still so after it. *)
Knows(t) ==
    task[t] # <<>> =>
        LET o == Op(t) IN
        /\ o.op = "rethread" => o.known = NotDone(MessagesFor(o.pr))
        /\ o.op = "recheck" => o.known.messages = NotDone(MessagesFor(o.pr))
        /\ o.op = "threads" => \E i \in DOMAIN task[t] : task[t][i].op = "notify" /\ task[t][i].pr = o.pr

LEMMA SameShown ==
    ASSUME UNCHANGED <<message, content, old>>
    PROVE  Shown' = Shown
  BY DEF Shown, Tracked

LEMMA FetchCovers ==
    ASSUME Typed, Covered, NEW t, Alive(t), FetchAndStore(t), row[Op(t).pr] = None
    PROVE  Covered'
<1>1. TasksOK /\ TablesOK /\ Op(t).op = "fetch" /\ Then(t, <<>>) /\ UNCHANGED <<message, reactions, content, old>>
  BY DEF Typed, FetchAndStore, Answered, At, env
<1>2. \A q \in PRs : q # Op(t).pr => row'[q] = row[q]
  BY <1>1 DEF FetchAndStore, TablesOK
<1>3. ASSUME NEW m \in Shown, Fits(m)
      PROVE  \A p \in message[m].links : row'[p] = row[p]
  <2>1. message[m].links \subseteq PRs /\ \A p \in message[m].links : row[p] # None
    BY <1>1, <1>3, ShownFields DEF Fits
  <2> QED
    BY <1>2, <2>1
<1>4. t \in Tasks /\ task[t] # <<>> /\ \A u \in Tasks : u # t => task[u] = <<>>
  BY DEF Alive
<1>5. Op(t).op \notin {"reconcile", "notify"} \cup Looking
  BY <1>1 DEF Looking
<1>6. Shown' \subseteq Shown
  BY <1>1, SameShown
<1> QED
  BY <1>1, <1>3, <1>4, <1>5, <1>6, NoOps, RowCovers

LEMMA ThreadsCover ==
    ASSUME Typed, Covered, NEW t, Alive(t), Knows(t), ReadThreads(t)
    PROVE  Covered'
<1>1. TasksOK /\ TablesOK /\ Op(t).op = "threads" /\ Then(t, <<>>) /\ UNCHANGED <<message, reactions, content, old>>
  BY DEF Typed, ReadThreads, Answered, At, env
<1>2. t \in Tasks /\ task[t] # <<>> /\ \A u \in Tasks : u # t => task[u] = <<>>
  BY DEF Alive
<1>3. PICK p \in PRs : p = Op(t).pr
  BY <1>1, <1>2, AnswerTyped DEF ReadThreads, GitHubOps
<1>4. Op(t).answer.row.resolved \in BOOLEAN
  BY <1>1, <1>2, AnswerTyped DEF ReadThreads, GitHubOps, Row
<1>5. PICK r : r = [RowOr(p) EXCEPT !.resolved = Op(t).answer.row.resolved]
  OBVIOUS
<1>6. r \in Row /\ r.life = RowOr(p).life
  BY <1>1, <1>4, <1>5, RowOrTyped DEF Row
<1>7. row' = row \/ row' = [row EXCEPT ![p] = r]
  BY <1>3, <1>5 DEF ReadThreads
<1>8. PICK k \in DOMAIN task[t] : task[t][k].op = "notify" /\ task[t][k].pr = p
  BY <1>1, <1>2, <1>3 DEF Knows
<1>9. k # 1
  BY <1>1, <1>2, <1>8, TaskFields
<1>10. ASSUME NEW m \in Shown, Fits(m)
       PROVE  \/ \A q \in message[m].links : row'[q] = row[q]
              \/ message[m].done /\ \A q \in message[m].links : row'[q] # None /\ row'[q].life = row[q].life
              \/ \E i \in DOMAIN <<>> : Redoes(<<>>[i], m)
              \/ \E i \in DOMAIN task[t] : i # 1 /\ Redoes(task[t][i], m)
  <2>1. CASE row' = row
    BY <2>1
  <2>2. CASE row' = [row EXCEPT ![p] = r]
    <3>1. \/ \A q \in message[m].links : row'[q] = row[q]
          \/ p \in message[m].links /\ \A q \in message[m].links : row'[q] # None /\ row'[q].life = row[q].life
      BY <1>1, <1>6, <1>10, <2>2, ColumnSet
    <3>2. ASSUME p \in message[m].links, ~message[m].done
          PROVE  Redoes(task[t][k], m)
      BY <1>8, <3>2 DEF Redoes
    <3> QED
      BY <1>9, <3>1, <3>2
  <2> QED
    BY <1>7, <2>1, <2>2
<1>11. Op(t).op \notin {"reconcile", "notify"} \cup Looking
  BY <1>1 DEF Looking
<1>12. Shown' \subseteq Shown
  BY <1>1, SameShown
<1> QED
  BY <1>1, <1>2, <1>10, <1>11, <1>12, NoOps, RowCovers

(* A column is stored, and the messages that are not done reconciled.      *)
LEMMA ColumnCovers ==
    ASSUME Typed, Covered, NEW t, Alive(t), NEW p \in PRs, NEW r \in Row, r.life = RowOr(p).life,
           row' = [row EXCEPT ![p] = r], UNCHANGED <<message, reactions, content, old>>,
           NEW ds \in Seq(OpSet), Then(t, Reconciles(NotDone(MessagesFor(p))) \o ds),
           Op(t).op \notin {"reconcile", "notify"} \cup Looking
    PROVE  Covered'
<1>1. TasksOK /\ TablesOK /\ task[t] # <<>> /\ t \in Tasks /\ \A u \in Tasks : u # t => task[u] = <<>>
  BY DEF Typed, Alive
<1>2. PICK rs : rs = Reconciles(NotDone(MessagesFor(p)))
  OBVIOUS
<1>3. PICK ops : ops = rs \o ds
  OBVIOUS
<1>4. rs \in Seq(OpSet) /\ ops \in Seq(OpSet) /\ Then(t, ops)
  BY <1>2, <1>3, MessagesOfPR, ReconcilesAre, BothAre
<1>5. ASSUME NEW m \in Shown, Fits(m)
      PROVE  \/ \A q \in message[m].links : row'[q] = row[q]
             \/ message[m].done /\ \A q \in message[m].links : row'[q] # None /\ row'[q].life = row[q].life
             \/ \E i \in DOMAIN ops : Redoes(ops[i], m)
             \/ \E i \in DOMAIN task[t] : i # 1 /\ Redoes(task[t][i], m)
  <2>1. \/ \A q \in message[m].links : row'[q] = row[q]
        \/ p \in message[m].links /\ \A q \in message[m].links : row'[q] # None /\ row'[q].life = row[q].life
    BY <1>1, <1>5, ColumnSet
  <2>2. ASSUME p \in message[m].links, ~message[m].done
        PROVE  \E i \in DOMAIN ops : Redoes(ops[i], m)
    <3>1. m \in NotDone(MessagesFor(p))
      BY <1>1, <2>2, ShownFields DEF NotDone, MessagesFor
    <3>2. \E i \in DOMAIN rs : Redoes(rs[i], m)
      BY <1>2, <3>1, MessagesOfPR, ReconcilesRedo
    <3> QED
      BY <1>3, <1>4, <3>2, BothRedo
  <2> QED
    BY <2>1, <2>2
<1>6. Shown' \subseteq Shown
  BY SameShown
<1> QED
  BY <1>1, <1>4, <1>5, <1>6, RowCovers

LEMMA NoneAfter ==
    ASSUME NEW s \in Seq(OpSet)
    PROVE  s \o <<>> = s
  OBVIOUS

LEMMA RethreadCovers ==
    ASSUME Typed, Covered, NEW t, Alive(t), Knows(t), RecheckThreads(t)
    PROVE  Covered'
<1>1. /\ TasksOK /\ TablesOK /\ Op(t).op = "rethread" /\ UNCHANGED <<message, reactions, content, old>>
      /\ t \in Tasks /\ task[t] # <<>> /\ \A u \in Tasks : u # t => task[u] = <<>>
  BY DEF Typed, Alive, RecheckThreads, Answered, At, env
<1>2. Op(t).op \notin {"reconcile", "notify"} \cup Looking
  BY <1>1 DEF Looking
<1>3. PICK p \in PRs : p = Op(t).pr
  BY <1>1, AnswerTyped DEF RecheckThreads, GitHubOps
<1>4. Op(t).answer.row.resolved \in BOOLEAN
  BY <1>1, AnswerTyped DEF RecheckThreads, GitHubOps, Row
<1>5. CASE Then(t, <<>>) /\ UNCHANGED row
  <2>1. Shown' \subseteq Shown
    BY <1>1, SameShown
  <2> QED
    BY <1>1, <1>2, <1>5, <2>1, NoOps, QuietCovers
<1>6. CASE /\ row' = [row EXCEPT ![p] = [RowOr(p) EXCEPT !.resolved = Op(t).answer.row.resolved]]
           /\ Then(t, Reconciles(Op(t).known))
  <2>1. PICK r : r = [RowOr(p) EXCEPT !.resolved = Op(t).answer.row.resolved]
    OBVIOUS
  <2>2. r \in Row /\ r.life = RowOr(p).life
    BY <1>1, <1>4, <2>1, RowOrTyped DEF Row
  <2>3. Op(t).known = NotDone(MessagesFor(p))
    BY <1>1, <1>3 DEF Knows
  <2>4. Reconciles(NotDone(MessagesFor(p))) \in Seq(OpSet)
    BY MessagesOfPR, ReconcilesAre
  <2>5. Then(t, Reconciles(NotDone(MessagesFor(p))) \o <<>>)
    BY <1>6, <2>3, <2>4, NoneAfter
  <2>6. row' = [row EXCEPT ![p] = r]
    BY <1>6, <2>1
  <2> QED
    BY <1>1, <1>2, <2>2, <2>5, <2>6, NoOps, ColumnCovers
<1> QED
  BY <1>3, <1>5, <1>6 DEF RecheckThreads

LEMMA RecheckCovers ==
    ASSUME Typed, Covered, NEW t, Alive(t), Knows(t), RecheckChecks(t)
    PROVE  Covered'
<1>1. /\ TasksOK /\ TablesOK /\ Op(t).op = "recheck" /\ UNCHANGED <<message, reactions, content, old>>
      /\ t \in Tasks /\ task[t] # <<>> /\ \A u \in Tasks : u # t => task[u] = <<>>
  BY DEF Typed, Alive, RecheckChecks, Answered, At, env
<1>2. Op(t).op \notin {"reconcile", "notify"} \cup Looking
  BY <1>1 DEF Looking
<1>3. PICK p \in PRs : p = Op(t).pr
  BY <1>1, AnswerTyped DEF RecheckChecks, GitHubOps
<1>4. PICK v : v = IF Unread(t, "failing") THEN Op(t).known.failing ELSE Op(t).answer.row.failing
  OBVIOUS
<1>5. v \in BOOLEAN
  <2>1. Op(t).known.failing \in BOOLEAN /\ Op(t).answer.row.failing \in BOOLEAN
    BY <1>1, AnswerTyped DEF RecheckChecks, GitHubOps, Row
  <2> QED
    BY <1>4, <2>1
<1>6. CASE Then(t, <<>>) /\ UNCHANGED row
  <2>1. Shown' \subseteq Shown
    BY <1>1, SameShown
  <2> QED
    BY <1>1, <1>2, <1>6, <2>1, NoOps, QuietCovers
<1>7. ASSUME NEW ds \in {<<>>, Dms(p, {"checks_failed"})},
             row' = [row EXCEPT ![p] = [RowOr(p) EXCEPT !.failing = v]],
             Then(t, Reconciles(Op(t).known.messages) \o ds)
      PROVE  Covered'
  <2>1. PICK r : r = [RowOr(p) EXCEPT !.failing = v]
    OBVIOUS
  <2>2. r \in Row /\ r.life = RowOr(p).life
    BY <1>1, <1>5, <2>1, RowOrTyped DEF Row
  <2>3. Op(t).known.messages = NotDone(MessagesFor(p))
    BY <1>1, <1>3 DEF Knows
  <2>4. ds \in Seq(OpSet)
    <3>1. PICK trs \in SUBSET Transitions : trs = {"checks_failed"}
      BY DEF Transitions
    <3>2. Dms(p, trs) \in Seq(OpSet)
      BY <3>1, DmsAre
    <3>3. ds = <<>> \/ ds = Dms(p, trs)
      BY <1>7, <3>1
    <3> QED
      BY <3>2, <3>3, NoOps
  <2>5. Then(t, Reconciles(NotDone(MessagesFor(p))) \o ds)
    BY <1>7, <2>3
  <2>6. row' = [row EXCEPT ![p] = r]
    BY <1>7, <2>1
  <2> QED
    BY <1>1, <1>2, <2>2, <2>4, <2>5, <2>6, ColumnCovers
<1>8. \/ Then(t, <<>>) /\ UNCHANGED row
      \/ /\ row' = [row EXCEPT ![p] = [RowOr(p) EXCEPT !.failing = v]]
         /\ \E ds \in {<<>>, Dms(p, {"checks_failed"})} : Then(t, Reconciles(Op(t).known.messages) \o ds)
  BY <1>3, <1>4 DEF RecheckChecks
<1> QED
  BY <1>6, <1>7, <1>8

LEMMA LabelsCover ==
    ASSUME Typed, Covered, NEW t, Alive(t), StoreLabels(t)
    PROVE  Covered'
<1>1. /\ TasksOK /\ TablesOK /\ Op(t).op = "labels" /\ UNCHANGED <<message, reactions, content, old>>
      /\ t \in Tasks /\ task[t] # <<>> /\ \A u \in Tasks : u # t => task[u] = <<>>
  BY DEF Typed, Alive, StoreLabels, At, env
<1>2. Op(t).op \notin {"reconcile", "notify"} \cup Looking
  BY <1>1 DEF Looking
<1>3. Op(t) \in LabelOps
  BY <1>1, OpTyped, OpFields
<1>4. PICK p \in PRs : p = Op(t).pr
  BY <1>3 DEF LabelOps
<1>5. PICK v \in BOOLEAN : v = Op(t).ready
  BY <1>3 DEF LabelOps
<1>6. CASE Then(t, <<>>) /\ UNCHANGED row
  <2>1. Shown' \subseteq Shown
    BY <1>1, SameShown
  <2> QED
    BY <1>1, <1>2, <1>6, <2>1, NoOps, QuietCovers
<1>7. CASE /\ row' = [row EXCEPT ![p] = [RowOr(p) EXCEPT !.ready = v]]
           /\ Then(t, Reconciles(NotDone(MessagesFor(p))))
  <2>1. PICK r : r = [RowOr(p) EXCEPT !.ready = v]
    OBVIOUS
  <2>2. r \in Row /\ r.life = RowOr(p).life
    BY <1>1, <1>5, <2>1, RowOrTyped DEF Row
  <2>3. Reconciles(NotDone(MessagesFor(p))) \in Seq(OpSet)
    BY MessagesOfPR, ReconcilesAre
  <2>4. Then(t, Reconciles(NotDone(MessagesFor(p))) \o <<>>)
    BY <1>7, <2>3, NoneAfter
  <2>5. row' = [row EXCEPT ![p] = r]
    BY <1>7, <2>1
  <2> QED
    BY <1>1, <1>2, <2>2, <2>4, <2>5, NoOps, ColumnCovers
<1> QED
  BY <1>4, <1>5, <1>6, <1>7 DEF StoreLabels
-----------------------------------------------------------------------------
(* The steps of the one task alive that concern a message. *)

(* The message of an ingestion is reconciled at its end. *)
LEMMA IngestRedoes ==
    ASSUME NEW m \in Messages, NEW links \in SUBSET PRs
    PROVE  /\ IngestOps(m, links) \in Seq(OpSet)
           /\ \E i \in DOMAIN IngestOps(m, links) : Redoes(IngestOps(m, links)[i], m)
           /\ \E i \in DOMAIN IngestOps(m, links) : IngestOps(m, links)[i] = Reconcile(m)
<1>1. PICK x \in OpSet : x = Reconcile(m)
  BY GivenOps DEF Given
<1>2. <<x>> \in Seq(OpSet) /\ DOMAIN <<x>> = {1} /\ <<x>>[1] = x
  BY OneOp
<1>3. Redoes(x, m)
  BY <1>1 DEF Redoes, Reconcile
<1>4. States(links) \in Seq(OpSet)
  BY StatesAre
<1>5. IngestOps(m, links) = States(links) \o <<x>>
  BY <1>1 DEF IngestOps
<1>6. \E i \in DOMAIN <<x>> : Redoes(<<x>>[i], m)
  BY <1>2, <1>3
<1>7. \E i \in DOMAIN (States(links) \o <<x>>) : (States(links) \o <<x>>)[i] = x
  <2>1. PICK a : a = States(links)
    OBVIOUS
  <2>2. PICK ab : ab = a \o <<x>>
    OBVIOUS
  <2>3. PICK k \in Nat : k = Len(a)
    BY <1>2, <1>4, <2>1, BothAre
  <2>4. DOMAIN ab = 1..(k + 1) /\ \A i \in 1..(k + 1) : ab[i] = IF i <= k THEN a[i] ELSE <<x>>[i - k]
    BY <1>2, <1>4, <2>1, <2>2, <2>3, BothAre, OneOp
  <2>5. k + 1 \in 1..(k + 1) /\ ~(k + 1 <= k) /\ (k + 1) - k = 1
    OBVIOUS
  <2> QED
    BY <1>2, <2>1, <2>2, <2>4, <2>5
<1> QED
  BY <1>1, <1>2, <1>4, <1>5, <1>6, <1>7, BothAre, BothRedo

LEMMA IngestCovers ==
    ASSUME Typed, Covered, NEW t, Alive(t), IngestMessage(t)
    PROVE  Covered'
<1>1. /\ TasksOK /\ TablesOK /\ UNCHANGED <<row, reactions, content, old>>
      /\ t \in Tasks /\ task[t] # <<>> /\ \A u \in Tasks : u # t => task[u] = <<>>
  BY DEF Typed, Alive, IngestMessage, env
<1>2. Op(t) \in Ingestions /\ Op(t).op = "ingest"
  BY <1>1, OpTyped, OpFields DEF IngestMessage, At
<1>3. PICK n \in Messages : n = Op(t).message
  BY <1>2 DEF Ingestions
<1>4. PICK links \in SUBSET PRs : links = Op(t).links
  BY <1>2 DEF Ingestions
<1>5. PICK ops : ops = IngestOps(n, links)
  OBVIOUS
<1>6. ops \in Seq(OpSet) /\ Then(t, ops) /\ \E i \in DOMAIN ops : ops[i] = Reconcile(n)
  BY <1>3, <1>4, <1>5, IngestRedoes DEF IngestMessage
<1>7. \A m \in Messages : m # n => message'[m] = message[m]
  BY <1>1, <1>3 DEF IngestMessage, Stored, TablesOK
<1>8. ASSUME NEW m \in Shown'
      PROVE  \/ Fits(m)' \/ \E i \in DOMAIN ops : Redoes(ops[i], m)'
             \/ /\ m \in Shown /\ message'[m] = message[m] /\ ~Redoes(Op(t), m)
                /\ Fits(m) => Fits(m)' \/ \E i \in DOMAIN task[t] : i # 1 /\ Redoes(task[t][i], m)
  <2>1. CASE m = n
    <3>1. Redoes(Reconcile(n), m)'
      BY <2>1 DEF Redoes, Reconcile
    <3> QED
      BY <1>6, <3>1
  <2>2. CASE m # n
    <3>1. m \in Messages /\ m \notin old /\ content[m] # None /\ message'[m] # None
      BY <1>1 DEF Shown, Tracked
    <3>2. message'[m] = message[m] /\ reactions'[m] = reactions[m] /\ \A p \in message[m].links : row'[p] = row[p]
      BY <1>1, <1>7, <2>2, <3>1
    <3>3. m \in Shown
      BY <3>1, <3>2 DEF Shown, Tracked
    <3>4. ~Redoes(Op(t), m)
      BY <1>2 DEF Redoes, Looking
    <3> QED
      BY <3>2, <3>3, <3>4, StillFits
  <2> QED
    BY <2>1, <2>2
<1> QED
  BY <1>1, <1>6, <1>8, CoveredAfter

LEMMA NotifyCovers ==
    ASSUME Typed, Covered, NEW t, Alive(t), NotifyMessages(t)
    PROVE  Covered'
<1>1. /\ TasksOK /\ TablesOK /\ UNCHANGED <<row, message, reactions, content, old>>
      /\ t \in Tasks /\ task[t] # <<>> /\ \A u \in Tasks : u # t => task[u] = <<>>
  BY DEF Typed, Alive, NotifyMessages, env, tables
<1>2. Op(t) \in Notices /\ Op(t).op = "notify"
  BY <1>1, OpTyped, OpFields DEF NotifyMessages, At
<1>3. PICK p \in PRs : p = Op(t).pr
  BY <1>2 DEF Notices
<1>4. PICK transitions \in SUBSET Transitions : transitions = Op(t).transitions
  BY <1>2 DEF Notices
<1>5. PICK ms : ms = IF transitions \cap Terminal # {} THEN MessagesFor(p) ELSE NotDone(MessagesFor(p))
  OBVIOUS
<1>6. ms \in SUBSET Messages
  BY <1>5, MessagesOfPR
<1>7. PICK ds \in {<<>>, Dms(p, transitions)} : Then(t, Reconciles(ms) \o ds)
  BY <1>3, <1>4, <1>5 DEF NotifyMessages
<1>8. ds \in Seq(OpSet)
  <2>1. Dms(p, transitions) \in Seq(OpSet)
    BY DmsAre
  <2> QED
    BY <1>7, <2>1, NoOps
<1>9. PICK rs : rs = Reconciles(ms)
  OBVIOUS
<1>10. PICK ops : ops = rs \o ds
  OBVIOUS
<1>11. rs \in Seq(OpSet) /\ ops \in Seq(OpSet) /\ Then(t, ops)
  BY <1>6, <1>7, <1>8, <1>9, <1>10, ReconcilesAre, BothAre
<1>12. ASSUME NEW m \in Shown'
       PROVE  \/ Fits(m)' \/ \E i \in DOMAIN ops : Redoes(ops[i], m)'
              \/ /\ m \in Shown /\ message'[m] = message[m] /\ ~Redoes(Op(t), m)
                 /\ Fits(m) => Fits(m)' \/ \E i \in DOMAIN task[t] : i # 1 /\ Redoes(task[t][i], m)
  <2>1. m \in Shown
    BY <1>1, SameShown
  <2>2. CASE Redoes(Op(t), m)
    <3>1. p \in message[m].links /\ (transitions \cap Terminal # {} \/ ~message[m].done)
      BY <1>2, <1>3, <1>4, <2>2 DEF Redoes, Looking
    <3>2. m \in ms
      BY <1>1, <1>5, <2>1, <3>1, ShownFields DEF MessagesFor, NotDone
    <3>3. \E i \in DOMAIN rs : Redoes(rs[i], m)
      BY <1>6, <1>9, <3>2, ReconcilesRedo
    <3>4. \E i \in DOMAIN ops : Redoes(ops[i], m)
      BY <1>8, <1>10, <1>11, <3>3, BothRedo
    <3> QED
      BY <1>1, <3>4 DEF Redoes
  <2>3. CASE ~Redoes(Op(t), m)
    BY <1>1, <2>1, <2>3, StillFits
  <2> QED
    BY <2>2, <2>3
<1> QED
  BY <1>1, <1>11, <1>12, CoveredAfter
(* The rows are read, and those a linked PR lacks are made.                *)
LEMMA ReadCovers ==
    ASSUME Typed, Covered, NEW t, Alive(t), Keen(t), ReadRows(t)
    PROVE  Covered' /\ Keen(t)' /\ \E ops \in Seq(OpSet) : Then(t, ops) /\ Only(ops, Looking)
<1>1. /\ TasksOK /\ TablesOK /\ UNCHANGED <<message, reactions, content, old>>
      /\ t \in Tasks /\ task[t] # <<>> /\ \A u \in Tasks : u # t => task[u] = <<>>
  BY DEF Typed, Alive, ReadRows, env
<1>2. Op(t) \in MessageOps /\ Op(t).op = "reconcile"
  BY <1>1, OpTyped, OpFields DEF ReadRows, At
<1>3. PICK n \in Messages : n = Op(t).message
  BY <1>2 DEF MessageOps
<1>4. PICK links : links = IF n \in Tracked THEN message[n].links ELSE {}
  OBVIOUS
<1>5. links \in SUBSET PRs
  BY <1>1, <1>3, <1>4 DEF TablesOK, Tracked, Entries
<1>6. PICK rows : rows = {RowOr(p) : p \in links}
  OBVIOUS
<1>7. /\ row' = [p \in PRs |-> IF p \in links THEN RowOr(p) ELSE row[p]]
      /\ Then(t, IF n \notin Tracked THEN <<>>
                 ELSE <<[op |-> "look", message |-> n, want |-> Desired(rows), mark |-> Mark(rows, n)]>>)
  BY <1>3, <1>4, <1>6 DEF ReadRows
<1>8. \A p \in PRs : (row[p] # None => row'[p] = row[p]) /\ (p \in links => row'[p] = RowOr(p) /\ row'[p] # None)
  BY <1>1, <1>7, RowOrTyped, RowIsSome DEF RowOr
<1>9. ASSUME NEW m \in Shown'
      PROVE  m \in Shown /\ message'[m] = message[m] /\ (Fits(m) => Fits(m)')
  <2>1. m \in Shown /\ message[m].links \subseteq PRs
    BY <1>1, SameShown, ShownFields
  <2>2. Fits(m) => \A p \in message[m].links : row'[p] = row[p]
    BY <1>8, <2>1 DEF Fits
  <2> QED
    BY <1>1, <2>1, <2>2, StillFits
<1>10. CASE n \notin Tracked
  <2>1. Then(t, <<>>)
    BY <1>7, <1>10
  <2>2. ASSUME NEW m \in Shown'
        PROVE  ~Redoes(Op(t), m)
    BY <1>1, <1>2, <1>3, <1>10, <2>2, SameShown DEF Redoes, Shown
  <2>3. Covered'
    BY <1>1, <1>9, <2>1, <2>2, NoOps, CoveredAfter
  <2>4. Keen(t)'
    BY <1>1, <2>1, NoOps, KeenAfter
  <2> QED
    BY <2>1, <2>3, <2>4, NoOps
<1>11. CASE n \in Tracked
  <2>1. PICK x : x = [op |-> "look", message |-> n, want |-> Desired(rows), mark |-> Mark(rows, n)]
    OBVIOUS
  <2>2. x \in OpSet /\ x.op = "look" /\ x.message = n /\ x.want = Desired(rows) /\ x.mark = Mark(rows, n)
    <3>1. Desired(rows) \in SUBSET Emoji /\ Mark(rows, n) \in Marks
      BY DEF Desired, Mark, Marks
    <3>2. x \in Looks
      BY <2>1, <3>1 DEF Looks
    <3>3. \A y \in Looks : y \in OpSet
      BY DEF OpSet
    <3> QED
      BY <2>1, <3>2, <3>3
  <2>3. PICK ops \in Seq(OpSet) : ops = <<x>>
    BY <2>2, OneOp
  <2>4. Then(t, ops) /\ DOMAIN ops = {1} /\ ops[1] = x
    BY <1>7, <1>11, <2>1, <2>2, <2>3, OneOp
  <2>5. ASSUME NEW m \in Shown'
        PROVE  (\E i \in DOMAIN ops : Redoes(ops[i], m)') \/ ~Redoes(Op(t), m)
    <3>1. CASE m = n
      <4>1. Redoes(x, m)'
        BY <2>2, <3>1 DEF Redoes, Looking
      <4> QED
        BY <2>4, <4>1
    <3>2. CASE m # n
      BY <1>2, <1>3, <3>2 DEF Redoes
    <3> QED
      BY <3>1, <3>2
  <2>6. Covered'
    BY <1>1, <1>9, <2>4, <2>5, CoveredAfter
  <2>7. Corrects(x, n)'
    <3>1. links = message'[n].links /\ message'[n] = message[n]
      BY <1>1, <1>4, <1>11
    <3>2. \A p \in links : row'[p] # None /\ row'[p] = RowOr(p)
      BY <1>5, <1>8
    <3>3. RowsOf(n)' = rows
      BY <1>6, <3>1, <3>2 DEF RowsOf, RowOr
    <3>4. Mark(rows, n)' = Mark(rows, n)
      BY <1>1 DEF Mark
    <3> QED
      BY <2>2, <3>1, <3>2, <3>3, <3>4 DEF Corrects
  <2>8. ASSUME NEW i \in DOMAIN ops, ops[i].op \in Looking
        PROVE  i = 1 /\ (ops[1].message \in Shown' => Corrects(ops[1], ops[1].message)')
    BY <2>2, <2>4, <2>7, <2>8
  <2>9. Keen(t)'
    BY <1>1, <2>4, <2>8, KeenAfter
  <2> QED
    BY <2>2, <2>4, <2>6, <2>9 DEF Only, Looking
<1> QED
  BY <1>10, <1>11

(* What is to be added and removed is reckoned from what the message has.  *)
LEMMA FetchMessageCovers ==
    ASSUME Typed, Covered, NEW t, Alive(t), Keen(t), FetchMessage(t)
    PROVE  Covered' /\ Keen(t)' /\ \E ops \in Seq(OpSet) : Then(t, ops) /\ Only(ops, Looking)
<1>1. /\ TasksOK /\ TablesOK /\ ReactionsOK /\ UNCHANGED <<row, message, reactions, content, old>>
      /\ t \in Tasks /\ task[t] # <<>> /\ \A u \in Tasks : u # t => task[u] = <<>>
  BY DEF Typed, Alive, FetchMessage, env, tables
<1>2. Op(t) \in Looks /\ Op(t).op = "look"
  BY <1>1, OpTyped, OpFields DEF FetchMessage, At
<1>3. PICK n \in Messages : n = Op(t).message
  BY <1>2 DEF Looks
<1>4. PICK want \in SUBSET Emoji : want = Op(t).want
  BY <1>2 DEF Looks
<1>5. PICK mark \in Marks : mark = Op(t).mark
  BY <1>2 DEF Looks
<1>6. PICK has \in SUBSET Emoji : has = reactions[n]
  BY <1>1, <1>3 DEF ReactionsOK
<1>7. Then(t, IF content[n] = None THEN <<>>
              ELSE <<[op |-> "react", message |-> n, mark |-> mark, add |-> want \ has, remove |-> has \ want]>>)
  BY <1>3, <1>4, <1>5, <1>6 DEF FetchMessage
<1>8. ASSUME NEW m \in Shown'
      PROVE  m \in Shown /\ message'[m] = message[m] /\ (Fits(m) => Fits(m)')
  BY <1>1, SameShown, StillFits
<1>9. CASE content[n] = None
  <2>1. Then(t, <<>>)
    BY <1>7, <1>9
  <2>2. ASSUME NEW m \in Shown'
        PROVE  ~Redoes(Op(t), m)
    BY <1>1, <1>2, <1>3, <1>9, <2>2, SameShown DEF Redoes, Shown
  <2>3. Covered'
    BY <1>1, <1>8, <2>1, <2>2, NoOps, CoveredAfter
  <2>4. Keen(t)'
    BY <1>1, <2>1, NoOps, KeenAfter
  <2> QED
    BY <2>1, <2>3, <2>4, NoOps
<1>10. CASE content[n] # None
  <2>1. PICK x : x = [op |-> "react", message |-> n, mark |-> mark, add |-> want \ has, remove |-> has \ want]
    OBVIOUS
  <2>2. /\ x \in OpSet /\ x.op = "react" /\ x.message = n /\ x.mark = mark
        /\ x.add = want \ has /\ x.remove = has \ want
    <3>1. x \in Reactions
      BY <2>1 DEF Reactions
    <3>2. \A y \in Reactions : y \in OpSet
      BY DEF OpSet
    <3> QED
      BY <2>1, <3>1, <3>2
  <2>3. PICK ops \in Seq(OpSet) : ops = <<x>>
    BY <2>2, OneOp
  <2>4. Then(t, ops) /\ DOMAIN ops = {1} /\ ops[1] = x
    BY <1>7, <1>10, <2>1, <2>2, <2>3, OneOp
  <2>5. ASSUME NEW m \in Shown'
        PROVE  (\E i \in DOMAIN ops : Redoes(ops[i], m)') \/ ~Redoes(Op(t), m)
    <3>1. CASE m = n
      <4>1. Redoes(x, m)'
        BY <2>2, <3>1 DEF Redoes, Looking
      <4> QED
        BY <2>4, <4>1
    <3>2. CASE m # n
      BY <1>2, <1>3, <3>2 DEF Redoes
    <3> QED
      BY <3>1, <3>2
  <2>6. Covered'
    BY <1>1, <1>8, <2>4, <2>5, CoveredAfter
  <2>7. ASSUME n \in Shown'
        PROVE  Corrects(x, n)'
    <3>1. n \in Shown /\ message'[n] = message[n] /\ reactions'[n] = has /\ row' = row
      BY <1>1, <1>6, <2>7, SameShown
    <3>2. PICK rows : rows = RowsOf(n)
      OBVIOUS
    <3>3. /\ \A p \in message[n].links : row[p] # None
          /\ mark = Mark(rows, n) /\ want = Desired(rows)
      BY <1>2, <1>3, <1>4, <1>5, <1>1, <3>1, <3>2 DEF Keen, Corrects, Looking
    <3>4. RowsOf(n)' = rows
      BY <3>1, <3>2, SameRows
    <3>5. Mark(rows, n)' = Mark(rows, n)
      BY <1>1 DEF Mark
    <3>6. (want \ has) \cap (has \ want) = {} /\ (has \cup (want \ has)) \ (has \ want) = want
      OBVIOUS
    <3> QED
      BY <2>2, <3>1, <3>3, <3>4, <3>5, <3>6 DEF Corrects
  <2>8. ASSUME NEW i \in DOMAIN ops, ops[i].op \in Looking
        PROVE  i = 1 /\ (ops[1].message \in Shown' => Corrects(ops[1], ops[1].message)')
    BY <2>2, <2>4, <2>7, <2>8
  <2>9. Keen(t)'
    BY <1>1, <2>4, <2>8, KeenAfter
  <2> QED
    BY <2>2, <2>4, <2>6, <2>9 DEF Only, Looking
<1> QED
  BY <1>9, <1>10
(* One reaction comes or goes. *)
LEMMA ReactCovers ==
    ASSUME Typed, Covered, NEW t, Alive(t), Keen(t), NEW emoji, React(t, emoji, FALSE)
    PROVE  Covered' /\ Keen(t)' /\ \E ops \in Seq(OpSet) : Then(t, ops) /\ Only(ops, Looking)
<1>1. /\ TasksOK /\ TablesOK /\ ReactionsOK /\ UNCHANGED <<row, message, content, old>>
      /\ t \in Tasks /\ task[t] # <<>> /\ \A u \in Tasks : u # t => task[u] = <<>>
  BY DEF Typed, Alive, React, tables
<1>2. Op(t) \in Reactions /\ Op(t).op = "react"
  BY <1>1, OpTyped, OpFields DEF React, At
<1>3. PICK n \in Messages : n = Op(t).message
  BY <1>2 DEF Reactions
<1>4. PICK add \in SUBSET Emoji : add = Op(t).add
  BY <1>2 DEF Reactions
<1>5. PICK remove \in SUBSET Emoji : remove = Op(t).remove
  BY <1>2 DEF Reactions
<1>6. PICK mark \in Marks : mark = Op(t).mark
  BY <1>2 DEF Reactions
<1>7. PICK has \in SUBSET Emoji : has = reactions[n]
  BY <1>1, <1>3 DEF ReactionsOK
<1>8. /\ emoji \in add \/ (add = {} /\ emoji \in remove)
      /\ reactions' = IF content[n] = None THEN reactions
                      ELSE [reactions EXCEPT ![n] = IF emoji \in add THEN @ \cup {emoji} ELSE @ \ {emoji}]
  BY <1>3, <1>4, <1>5 DEF React
<1>9. PICK x : x = [op |-> "react", message |-> n, mark |-> mark, add |-> add \ {emoji}, remove |-> remove \ {emoji}]
  OBVIOUS
<1>10. /\ x \in OpSet /\ x.op = "react" /\ x.message = n /\ x.mark = mark
       /\ x.add = add \ {emoji} /\ x.remove = remove \ {emoji}
  <2>1. x \in Reactions
    BY <1>9 DEF Reactions
  <2>2. \A y \in Reactions : y \in OpSet
    BY DEF OpSet
  <2> QED
    BY <1>9, <2>1, <2>2
<1>11. [Op(t) EXCEPT !.add = @ \ {emoji}, !.remove = @ \ {emoji}] = x
  <2>1. PICK o \in Reactions : o = Op(t)
    BY <1>2
  <2>2. o.op = "react" /\ o.message = n /\ o.mark = mark /\ o.add = add /\ o.remove = remove
    BY <1>2, <1>3, <1>4, <1>5, <1>6, <2>1
  <2>3. PICK y : y = [o EXCEPT !.add = @ \ {emoji}, !.remove = @ \ {emoji}]
    OBVIOUS
  <2>4. /\ y \in Reactions /\ y.op = "react" /\ y.message = n /\ y.mark = mark
        /\ y.add = add \ {emoji} /\ y.remove = remove \ {emoji}
    BY <2>1, <2>2, <2>3 DEF Reactions
  <2>5. y = [op |-> "react", message |-> n, mark |-> mark, add |-> add \ {emoji}, remove |-> remove \ {emoji}]
    BY <2>4 DEF Reactions
  <2> QED
    BY <1>9, <2>1, <2>3, <2>5
<1>12. PICK ops \in Seq(OpSet) : ops = <<x>>
  BY <1>10, OneOp
<1>13. Then(t, ops) /\ DOMAIN ops = {1} /\ ops[1] = x
  BY <1>10, <1>11, <1>12, OneOp DEF React
<1>14. ASSUME NEW m \in Shown'
       PROVE  \/ Fits(m)' \/ \E i \in DOMAIN ops : Redoes(ops[i], m)'
              \/ /\ m \in Shown /\ message'[m] = message[m] /\ ~Redoes(Op(t), m)
                 /\ Fits(m) => Fits(m)' \/ \E i \in DOMAIN task[t] : i # 1 /\ Redoes(task[t][i], m)
  <2>1. CASE m = n
    <3>1. Redoes(x, m)'
      BY <1>10, <2>1 DEF Redoes, Looking
    <3> QED
      BY <1>13, <3>1
  <2>2. CASE m # n
    <3>1. m \in Shown /\ m \in Messages /\ message'[m] = message[m]
      BY <1>1, SameShown, ShownFields
    <3>2. reactions'[m] = reactions[m]
      BY <1>1, <1>3, <1>8, <2>2, <3>1 DEF ReactionsOK
    <3>3. ~Redoes(Op(t), m)
      BY <1>2, <1>3, <2>2 DEF Redoes
    <3> QED
      BY <1>1, <3>1, <3>2, <3>3, StillFits
  <2> QED
    BY <2>1, <2>2
<1>15. Covered'
  BY <1>1, <1>13, <1>14, CoveredAfter
<1>16. ASSUME n \in Shown'
       PROVE  Corrects(x, n)'
  <2>1. n \in Shown /\ message'[n] = message[n] /\ row' = row /\ content[n] # None
    BY <1>1, <1>16, SameShown, ShownFields
  <2>2. PICK rows : rows = RowsOf(n)
    OBVIOUS
  <2>3. PICK want : want = Desired(rows)
    OBVIOUS
  <2>4. /\ \A p \in message[n].links : row[p] # None
        /\ mark = Mark(rows, n) /\ add \cap remove = {} /\ (has \cup add) \ remove = want
    BY <1>1, <1>2, <1>3, <1>4, <1>5, <1>6, <1>7, <2>1, <2>2, <2>3 DEF Keen, Corrects, Looking
  <2>5. RowsOf(n)' = rows
    BY <2>1, <2>2, SameRows
  <2>6. Mark(rows, n)' = Mark(rows, n)
    BY <1>1 DEF Mark
  <2>7. PICK have : have = reactions'[n]
    OBVIOUS
  <2>8. have = IF emoji \in add THEN has \cup {emoji} ELSE has \ {emoji}
    BY <1>1, <1>3, <1>7, <1>8, <2>1, <2>7 DEF ReactionsOK
  <2>9. (add \ {emoji}) \cap (remove \ {emoji}) = {} /\ (have \cup (add \ {emoji})) \ (remove \ {emoji}) = want
    <3>1. CASE emoji \in add
      BY <2>4, <2>8, <3>1
    <3>2. CASE emoji \notin add /\ add = {} /\ emoji \in remove
      BY <2>4, <2>8, <3>2
    <3> QED
      BY <1>8, <3>1, <3>2
  <2> QED
    BY <1>10, <2>1, <2>3, <2>4, <2>5, <2>6, <2>7, <2>9 DEF Corrects
<1>17. ASSUME NEW i \in DOMAIN ops, ops[i].op \in Looking
       PROVE  i = 1 /\ (ops[1].message \in Shown' => Corrects(ops[1], ops[1].message)')
  BY <1>10, <1>13, <1>16, <1>17
<1>18. Keen(t)'
  BY <1>1, <1>13, <1>17, KeenAfter
<1> QED
  BY <1>10, <1>13, <1>15, <1>18 DEF Only, Looking

(* The message fits its rows once done is written. *)
LEMMA DoneCovers ==
    ASSUME Typed, Covered, NEW t, Alive(t), Keen(t), UpdateDone(t)
    PROVE  Covered' /\ Keen(t)' /\ Then(t, <<>>)
<1>1. /\ TasksOK /\ TablesOK /\ ReactionsOK /\ UNCHANGED <<row, reactions, content, old>>
      /\ t \in Tasks /\ task[t] # <<>> /\ \A u \in Tasks : u # t => task[u] = <<>>
  BY DEF Typed, Alive, UpdateDone, env
<1>2. Op(t) \in Reactions /\ Op(t).op = "react" /\ Then(t, <<>>)
  BY <1>1, OpTyped, OpFields DEF UpdateDone, At
<1>3. PICK n \in Messages : n = Op(t).message
  BY <1>2 DEF Reactions
<1>4. PICK mark \in Marks : mark = Op(t).mark
  BY <1>2 DEF Reactions
<1>5. message' = IF n \in Tracked /\ mark # "keep"
                 THEN [message EXCEPT ![n] = [links |-> message[n].links, done |-> mark = "done"]]
                 ELSE message
  BY <1>3, <1>4 DEF UpdateDone
<1>6. Shown' = Shown /\ \A m \in Messages : m # n => message'[m] = message[m]
  <2>1. \A m \in Messages : m # n => message'[m] = message[m]
    BY <1>1, <1>3, <1>5 DEF TablesOK
  <2>2. [links |-> message[n].links, done |-> mark = "done"] # None \/ n \notin Tracked
    <3>1. ASSUME n \in Tracked
          PROVE  [links |-> message[n].links, done |-> mark = "done"] \in [links: SUBSET PRs, done: BOOLEAN]
      BY <1>1, <3>1 DEF TablesOK, Tracked, Entries
    <3> QED
      BY <3>1, PrBotAssumption
  <2>3. message[n] = None <=> message'[n] = None
    BY <1>1, <1>3, <1>5, <2>2 DEF TablesOK, Tracked
  <2> QED
    BY <1>1, <2>1, <2>3 DEF Shown, Tracked
<1>7. ASSUME n \in Shown
      PROVE  Fits(n)'
  <2>1. n \in Tracked /\ message[n].done \in BOOLEAN
    BY <1>1, <1>7, ShownFields
  <2>2. PICK rows : rows = RowsOf(n)
    OBVIOUS
  <2>3. /\ \A p \in message[n].links : row[p] # None
        /\ mark = Mark(rows, n) /\ reactions[n] = Desired(rows)
    <3>1. Corrects(Op(t), n) /\ Op(t).add = {} /\ Op(t).remove = {}
      BY <1>1, <1>2, <1>3, <1>7 DEF Keen, Looking, UpdateDone
    <3> QED
      BY <1>2, <1>4, <2>2, <3>1 DEF Corrects
  <2>4. message'[n].links = message[n].links /\ message'[n].done = IF mark = "keep" THEN message[n].done ELSE mark = "done"
    BY <1>1, <1>3, <1>5, <2>1 DEF TablesOK
  <2>5. RowsOf(n)' = rows
    BY <1>1, <2>2, <2>4, SameRows
  <2>6. rows # {} => message'[n].done = AllTerminal(rows)
    <3>1. CASE AllTerminal(rows) = message[n].done
      BY <2>3, <2>4, <3>1 DEF Mark
    <3>2. CASE AllTerminal(rows) # message[n].done
      BY <2>1, <2>3, <2>4, <3>2 DEF Mark, AllTerminal
    <3> QED
      BY <3>1, <3>2
  <2> QED
    BY <1>1, <2>3, <2>4, <2>5, <2>6 DEF Fits
<1>8. ASSUME NEW m \in Shown'
      PROVE  \/ Fits(m)' \/ \E i \in DOMAIN <<>> : Redoes(<<>>[i], m)'
             \/ /\ m \in Shown /\ message'[m] = message[m] /\ ~Redoes(Op(t), m)
                /\ Fits(m) => Fits(m)' \/ \E i \in DOMAIN task[t] : i # 1 /\ Redoes(task[t][i], m)
  <2>1. CASE m = n
    BY <1>6, <1>7, <2>1
  <2>2. CASE m # n
    <3>1. m \in Shown /\ m \in Messages /\ message'[m] = message[m]
      BY <1>1, <1>6, <2>2, ShownFields
    <3>2. ~Redoes(Op(t), m)
      BY <1>2, <1>3, <2>2 DEF Redoes
    <3> QED
      BY <1>1, <3>1, <3>2, StillFits
  <2> QED
    BY <2>1, <2>2
<1>9. Covered'
  BY <1>1, <1>2, <1>8, NoOps, CoveredAfter
<1>10. Keen(t)'
  BY <1>1, <1>2, NoOps, KeenAfter
<1> QED
  BY <1>2, <1>9, <1>10
-----------------------------------------------------------------------------
(* A message in the tables was posted. *)
TrackedInv == \A m \in Tracked : m <= posted

LEMMA CalmKeen ==
    ASSUME TasksOK, NEW t \in Tasks, task[t] # <<>>, Keen(t), NEW ops \in Seq(OpSet), Then(t, ops), Calms(ops)
    PROVE  Keen(t)'
  BY KeenAfter DEF Calms

LEMMA AnswerCovers ==
    ASSUME Typed, Covered, NEW t, Alive(t), Keen(t), Answer(t, {})
    PROVE  Covered' /\ Keen(t)'
<1>1. /\ TasksOK /\ TablesOK /\ GitHubOK /\ UNCHANGED <<row, message, reactions, content, old>>
      /\ t \in Tasks /\ task[t] # <<>> /\ \A u \in Tasks : u # t => task[u] = <<>>
  BY DEF Typed, Alive, Answer, env, tables
<1>2. Op(t) \in OpSet /\ Op(t).op \in GitHubOps
  BY <1>1, OpTyped DEF Answer
<1>3. PICK o \in OpSet : o = Op(t)
  BY <1>2
<1>4. PICK a : a = [row |-> Truth(o.pr), lost |-> {}]
  OBVIOUS
<1>5. a \in Answers
  BY <1>1, <1>2, <1>3, <1>4, AwaitFields, TruthTyped DEF Answers
<1>6. PICK x : x = [o EXCEPT !.answer = a]
  OBVIOUS
<1>7. x \in OpSet /\ Then(t, <<x>>)
  BY <1>2, <1>3, <1>4, <1>5, <1>6, AnswerGiven DEF Given, Answer
<1>8. x.op = o.op
  <2>1. o \in Fetches \/ o \in Threads \/ o \in Rethreads \/ o \in Rechecks \/ o \in Polls
    BY <1>2, <1>3, OpFields DEF GitHubOps
  <2> QED
    BY <1>6, <2>1 DEF Fetches, Threads, Rethreads, Rechecks, Polls
<1>9. PICK ops \in Seq(OpSet) : ops = <<x>>
  BY <1>7, OneOp
<1>10. Then(t, ops) /\ DOMAIN ops = {1} /\ ops[1] = x
  BY <1>7, <1>9, OneOp
<1>11. Op(t).op \notin {"reconcile", "notify"} \cup Looking
  BY <1>2 DEF GitHubOps, Looking
<1>12. Shown' \subseteq Shown
  BY <1>1, SameShown
<1>13. Covered'
  BY <1>1, <1>10, <1>11, <1>12, QuietCovers
<1>14. \A i \in DOMAIN ops : ops[i].op \notin Looking
  BY <1>2, <1>3, <1>8, <1>10 DEF GitHubOps, Looking
<1>15. Keen(t)'
  BY <1>1, <1>10, <1>14, KeenAfter
<1> QED
  BY <1>13, <1>15

Quiets(t) == \/ LookUpState(t) \/ DmUser(t) \/ Sleep(t) \/ FetchAuthor(t) \/ Autopost(t) \/ Unguard(t)
             \/ RereadMessage(t) \/ StartupComplete(t)

LEMMA QuietStep ==
    ASSUME Typed, ShapeInv, TrackedInv, Covered, NEW t, Alive(t), Keen(t), Step(t), Quiets(t),
           ~\E lost : Answer(t, lost), NEW ops \in Seq(OpSet), Then(t, ops), Calms(ops)
    PROVE  Covered' /\ Keen(t)'
<1>1. /\ TasksOK /\ ChannelOK
      /\ t \in Tasks /\ task[t] # <<>> /\ \A u \in Tasks : u # t => task[u] = <<>>
  BY DEF Typed, Alive
<1>2. /\ UNCHANGED <<row, message, reactions, old>>
      /\ Op(t).op \in {"state", "dm", "sleep", "author", "unguard", "post", "reread", "complete"}
      /\ AutopostLands(t) \/ UNCHANGED content
  BY DEF Quiets, LookUpState, DmUser, Sleep, FetchAuthor, Unguard, AutopostLands, Autopost, RereadMessage,
     StartupComplete, Answered, At, env, tables
<1>3. Shown' \subseteq Shown
  <2>1. CASE UNCHANGED content
    BY <1>2, <2>1, SameShown
  <2>2. CASE AutopostLands(t)
    <3>1. Tracked' = Tracked
      BY <1>2 DEF Tracked
    <3>2. ASSUME NEW m \in Tracked
          PROVE  content'[m] = content[m]
      <4>1. m \in Messages /\ m <= posted /\ posted \in Nat /\ m \in Nat
        BY <1>1, PrBotAssumption DEF TrackedInv, Tracked, ChannelOK, Messages
      <4>2. m # posted + 1
        BY <4>1
      <4> QED
        BY <1>1, <2>2, <4>1, <4>2 DEF AutopostLands, ChannelOK
    <3> QED
      BY <1>2, <3>1, <3>2 DEF Shown
  <2> QED
    BY <1>2, <2>1, <2>2
<1>4. Op(t).op \notin {"reconcile", "notify"} \cup Looking
  BY <1>2 DEF Looking
<1> QED
  BY <1>1, <1>2, <1>3, <1>4, QuietCovers, CalmKeen

(* A step of the one task alive keeps every message covered, until it      *)
(* lists or polls, scans or sweeps.                                        *)
LEMMA StepCovers ==
    ASSUME Typed, ShapeInv, TrustInv, TrackedInv, Covered, NEW t, Alive(t), Keen(t), Knows(t), Step(t),
           trust' # "broken", Op(t).op \notin {"poll", "polls", "history", "sweep"},
           FetchAndStore(t) => row[Op(t).pr] = None
    PROVE  Covered' /\ Keen(t)'
<1>1. /\ TasksOK /\ t \in Tasks /\ task[t] # <<>>
      /\ ~DiscordFails(t) /\ ~AutopostUnanswered(t) /\ \A lost : Answer(t, lost) => lost = {}
  BY StepMoves DEF Typed, Alive
<1>2. CASE \E lost : Answer(t, lost)
  BY <1>1, <1>2, AnswerCovers
<1>3. CASE (~\E lost : Answer(t, lost)) /\ Op(t).op \notin {"reconcile"} \cup Looking
  <2>1. PICK ops \in Seq(OpSet) : Then(t, ops) /\ Calms(ops)
    BY <1>1, <1>3, StepCalms DEF GivesUp
  <2>2. Keen(t)'
    BY <1>1, <2>1, CalmKeen
  <2>3. \/ IngestMessage(t) \/ Quiets(t) \/ FetchAndStore(t) \/ ReadThreads(t) \/ NotifyMessages(t)
        \/ RecheckThreads(t) \/ RecheckChecks(t) \/ StoreLabels(t)
    BY <1>1, <1>3 DEF Step, Quiets, Answered, At, Looking, ReadRows, FetchMessage, React, UpdateDone,
       ScanHistory, ListActivePRs, PollPR, SweepMessages
  <2>4. CASE Quiets(t)
    BY <1>3, <2>1, <2>4, QuietStep
  <2> QED
    BY <2>2, <2>3, <2>4, IngestCovers, FetchCovers, ThreadsCover, NotifyCovers, RethreadCovers, RecheckCovers,
       LabelsCover
<1>4. CASE Op(t).op \in {"reconcile"} \cup Looking
  <2>1. \/ ReadRows(t) \/ FetchMessage(t) \/ UpdateDone(t)
        \/ \E emoji \in Emoji, fails \in BOOLEAN : React(t, emoji, fails)
        \/ \E lost : Answer(t, lost)
    BY <1>1, <1>4 DEF Step, Answered, At, Looking, IngestMessage, LookUpState, FetchAndStore, DmUser, Sleep,
       ReadThreads, NotifyMessages, RecheckThreads, RecheckChecks, FetchAuthor, Autopost, AutopostLands, Unguard,
       StoreLabels, RereadMessage,
       ScanHistory, ListActivePRs, PollPR, SweepMessages, StartupComplete
  <2>2. ASSUME NEW emoji \in Emoji, NEW fails \in BOOLEAN, React(t, emoji, fails)
        PROVE  React(t, emoji, FALSE)
    <3>1. fails = FALSE
      BY <2>2 DEF React, Trusting
    <3> QED
      BY <2>2, <3>1
  <2> QED
    BY <1>2, <2>1, <2>2, ReadCovers, FetchMessageCovers, ReactCovers, DoneCovers
<1> QED
  BY <1>2, <1>3, <1>4
LEMMA StepKnows ==
    ASSUME Typed, ShapeInv, TrustInv, NEW t \in Handlers, Alive(t), Knows(t), Step(t), trust' # "broken"
    PROVE  Knows(t)'
<1>1. task[t] # <<>> /\ t \in Tasks /\ \A lost : Answer(t, lost) => lost = {}
  BY StepMoves DEF Alive
<1>2. SUFFICES ASSUME task'[t] # <<>>, Op(t)'.op \in {"rethread", "recheck", "threads"}
               PROVE  Knows(t)'
  BY DEF Knows
<1>3. Op(t)'.op \in GitHubOps
  BY <1>2 DEF GitHubOps
<1>4. CASE Answer(t, {})
  <2>1. PICK o : o = Op(t)
    OBVIOUS
  <2>2. /\ Op(t)'.op = o.op /\ Op(t)'.pr = o.pr /\ Op(t)'.known = o.known /\ message' = message
        /\ DOMAIN task'[t] = DOMAIN task[t] /\ \A i \in DOMAIN task[t] : i # 1 => task'[t][i] = task[t][i]
        /\ task[t][1] = o
    BY <1>1, <1>4, <2>1, AnswerHead
  <2>3. PICK p : p = o.pr
    OBVIOUS
  <2>4. PICK ms : ms = NotDone(MessagesFor(p))
    OBVIOUS
  <2>5. NotDone(MessagesFor(p))' = ms
    BY <2>2, <2>4 DEF NotDone, MessagesFor, Tracked
  <2>6. /\ o.op = "rethread" => o.known = ms
        /\ o.op = "recheck" => o.known.messages = ms
        /\ o.op = "threads" => \E i \in DOMAIN task[t] : task[t][i].op = "notify" /\ task[t][i].pr = p
    BY <1>1, <2>1, <2>3, <2>4 DEF Knows
  <2>7. o.op = "threads" => \E i \in DOMAIN task'[t] : task'[t][i].op = "notify" /\ task'[t][i].pr = p
    BY <2>2, <2>6
  <2>8. PICK s : s = Op(t)'
    OBVIOUS
  <2>9. s.op = o.op /\ s.pr = p /\ s.known = o.known
    BY <2>2, <2>3, <2>8
  <2> QED
    BY <2>5, <2>6, <2>7, <2>8, <2>9 DEF Knows
<1>5. CASE ~Answer(t, {})
  <2>1. LookUpState(t) /\ Op(t)' = Await("fetch", Op(t).pr, None)
    BY <1>1, <1>2, <1>3, <1>5, HeadAfter
  <2> QED
    BY <1>2, <2>1 DEF Await
<1> QED
  BY <1>4, <1>5
-----------------------------------------------------------------------------
(* The end of the startup pass: all that is left to do is to reconcile.    *)
Sweeping == {"reconcile", "sleep", "complete"} \cup Looking

ShowInv == trust = "whole" => Covered /\ \A t \in Handlers : Keen(t) /\ Knows(t)
SweptInv ==
    trust = "healing" =>
        LET ops == task["startup"] IN
        ops[Len(ops)].op = "complete" =>
            Covered /\ Keen("startup") /\ Only(ops, Sweeping)

LEMMA LastAfter ==
    ASSUME TasksOK, NEW t \in Tasks, task[t] # <<>>, NEW ops \in Seq(OpSet), Then(t, ops)
    PROVE  /\ Len(task[t]) # 1 => task'[t] # <<>> /\ task'[t][Len(task'[t])] = task[t][Len(task[t])]
           /\ Len(task[t]) = 1 => /\ DOMAIN task'[t] = DOMAIN ops /\ Len(task'[t]) = Len(ops)
                                  /\ \A i \in DOMAIN ops : task'[t][i] = ops[i]
<1>1. PICK n \in Nat : n = Len(ops)
  BY TaskAfter
<1>2. PICK k \in Nat \ {0} : k = Len(task[t])
  BY TaskAfter
<1>3. /\ DOMAIN ops = 1..n /\ DOMAIN task'[t] = 1..(n + k - 1) /\ Len(task'[t]) = n + k - 1
      /\ \A j \in DOMAIN task'[t] : task'[t][j] = IF j <= n THEN ops[j] ELSE task[t][j - n + 1]
  BY <1>1, <1>2, TaskAfter
<1>4. CASE k = 1
  <2>1. n + k - 1 = n /\ \A j \in 1..n : j <= n
    BY <1>4
  <2> QED
    BY <1>1, <1>2, <1>3, <1>4, <2>1
<1>5. CASE k # 1
  <2>1. n + k - 1 \in 1..(n + k - 1) /\ ~(n + k - 1 <= n) /\ (n + k - 1) - n + 1 = k
    BY <1>5
  <2>2. task'[t] # <<>>
    <3>1. CASE task'[t] = <<>>
      <4>1. DOMAIN task'[t] = {}
        BY <3>1
      <4> QED
        BY <1>3, <2>1, <4>1
    <3> QED
      BY <3>1
  <2> QED
    BY <1>2, <1>3, <1>5, <2>1, <2>2
<1> QED
  BY <1>4, <1>5

(* The head of the startup pass that is one of its parts is all of it.     *)
LEMMA StageIsLast ==
    ASSUME TasksOK, ShapeInv, NEW t \in Tasks, task[t] # <<>>, Op(t).op \in Stages
    PROVE  Len(task[t]) = 1
<1>1. 1 \in DOMAIN task[t] /\ task[t][1].op \in Stages
  BY TaskFields
<1> QED
  BY <1>1 DEF ShapeInv

LEMMA SweepCovers ==
    ASSUME Typed, ShapeInv, NEW t, Alive(t), SweepMessages(t)
    PROVE  Covered' /\ Keen(t)' /\ Only(task[t], Sweeping)'
<1>1. /\ TasksOK /\ TablesOK /\ UNCHANGED <<row, message, reactions, content, old>>
      /\ t \in Tasks /\ task[t] # <<>> /\ Op(t).op = "sweep"
  BY DEF Typed, Alive, SweepMessages, At, env, tables
<1>2. Len(task[t]) = 1
  BY <1>1, StageIsLast DEF Stages
<1>3. PICK ms \in SUBSET Messages : ms = ToSweep
  BY MessagesOfPR
<1>4. PICK rs \in Seq(OpSet) : rs = Reconciles(ms)
  BY ReconcilesAre
<1>5. PICK kinds : kinds = {"reconcile", "sleep", "complete"}
  OBVIOUS
<1>6. Only(rs, kinds) /\ "sleep" \in kinds /\ "complete" \in kinds
  BY <1>4, <1>5, ReconcilesAre DEF Only
<1>7. PICK ops \in Seq(OpSet) : ops = Paced(rs, "complete")
  BY <1>6, PacedHolds
<1>8. Only(ops, kinds) /\ \A i \in DOMAIN rs : \E j \in DOMAIN ops : ops[j] = rs[i]
  BY <1>6, <1>7, PacedHolds
<1>9. Then(t, ops)
  BY <1>3, <1>4, <1>7 DEF SweepMessages
<1>10. DOMAIN task'[t] = DOMAIN ops /\ \A i \in DOMAIN ops : task'[t][i] = ops[i]
  BY <1>1, <1>2, <1>9, LastAfter
<1>11. \A i \in DOMAIN task'[t] : task'[t][i].op \in kinds
  BY <1>8, <1>10 DEF Only
<1>12. ASSUME NEW m \in Shown'
       PROVE  Serves(t, m)'
  <2>1. m \in ms
    BY <1>1, <1>3, SameShown DEF Shown, ToSweep
  <2>2. PICK i \in DOMAIN rs : rs[i] = Reconcile(m)
    BY <1>4, <2>1, ReconcilesReach
  <2>3. PICK j \in DOMAIN ops : ops[j] = Reconcile(m)
    BY <1>8, <2>2
  <2>4. Redoes(Reconcile(m), m)'
    BY DEF Redoes, Reconcile
  <2> QED
    BY <1>10, <2>3, <2>4 DEF Serves
<1>13. Covered'
  BY <1>1, <1>12 DEF Covered
<1>14. \A i \in DOMAIN task'[t] : task'[t][i].op \in Sweeping /\ task'[t][i].op \notin Looking
  BY <1>5, <1>11 DEF Sweeping, Looking
<1>15. Keen(t)'
  <2>1. ASSUME task'[t] # <<>>, Op(t)'.op \in Looking
        PROVE  FALSE
    <3>1. task'[t] \in Seq(OpSet)
      BY <1>1, <1>9, TaskAfter
    <3>2. 1 \in DOMAIN task'[t] /\ task'[t][1] = Op(t)'
      BY <2>1, <3>1 DEF Op
    <3> QED
      BY <1>14, <2>1, <3>2
  <2> QED
    BY <1>14, <2>1 DEF Keen
<1> QED
  BY <1>13, <1>14, <1>15 DEF Only

(* While it sweeps, the pass only reconciles. *)
LEMMA SweepingOn ==
    ASSUME Typed, ShapeInv, TrustInv, TrackedInv, Covered, NEW t, Alive(t), Keen(t), Step(t), trust' # "broken",
           Only(task[t], Sweeping)
    PROVE  Covered' /\ Keen(t)' /\ Only(task[t], Sweeping)'
<1>1. /\ TasksOK /\ t \in Tasks /\ task[t] # <<>>
      /\ ~DiscordFails(t) /\ ~AutopostUnanswered(t) /\ \A lost : Answer(t, lost) => lost = {}
  BY StepMoves DEF Typed, Alive
<1>2. Op(t).op \in Sweeping
  BY <1>1, TaskFields DEF Only
<1>3. ~(\E lost : Answer(t, lost)) /\ ~FetchAndStore(t)
  BY <1>2 DEF Answer, FetchAndStore, Answered, At, Sweeping, Looking, GitHubOps
<1>4. Knows(t)
  BY <1>2 DEF Knows, Sweeping, Looking
<1>5. Covered' /\ Keen(t)'
  BY <1>2, <1>3, <1>4, StepCovers DEF Sweeping, Looking
<1>6. \E ops \in Seq(OpSet) : Then(t, ops) /\ Only(ops, Looking)
  <2>1. \/ ReadRows(t) \/ FetchMessage(t) \/ UpdateDone(t) \/ Sleep(t) \/ StartupComplete(t)
        \/ \E emoji \in Emoji, fails \in BOOLEAN : React(t, emoji, fails)
    BY <1>1, <1>2, <1>3 DEF Step, Answered, At, Looking, Sweeping, IngestMessage, LookUpState, DmUser,
       ReadThreads, NotifyMessages, RecheckThreads, RecheckChecks, FetchAuthor, Autopost, AutopostLands, Unguard,
       StoreLabels, RereadMessage,
       ScanHistory, ListActivePRs, PollPR, SweepMessages
  <2>2. ASSUME NEW emoji \in Emoji, NEW fails \in BOOLEAN, React(t, emoji, fails)
        PROVE  React(t, emoji, FALSE)
    <3>1. fails = FALSE
      BY <2>2 DEF React, Trusting
    <3> QED
      BY <2>2, <3>1
  <2>3. ASSUME UpdateDone(t) \/ Sleep(t) \/ StartupComplete(t)
        PROVE  \E ops \in Seq(OpSet) : Then(t, ops) /\ Only(ops, Looking)
    <3>1. Then(t, <<>>)
      BY <2>3 DEF UpdateDone, Sleep, StartupComplete
    <3> QED
      BY <3>1, NoOps
  <2> QED
    BY <2>1, <2>2, <2>3, ReadCovers, FetchMessageCovers, ReactCovers
<1>7. PICK ops \in Seq(OpSet) : Then(t, ops) /\ Only(ops, Looking)
  BY <1>6
<1>8. ASSUME NEW j \in DOMAIN task'[t]
      PROVE  task'[t][j].op \in Sweeping
  <2>1. \/ j \in DOMAIN ops /\ task'[t][j] = ops[j]
        \/ \E i \in DOMAIN task[t] : i # 1 /\ task'[t][j] = task[t][i]
    BY <1>1, <1>7, TaskIs
  <2> QED
    BY <1>7, <2>1 DEF Only, Sweeping
<1> QED
  BY <1>5, <1>8 DEF Only

(* What the scan of the history leaves ends with the next part. *)
LEMMA ScanEnds ==
    ASSUME Typed, NEW t, Alive(t), ScanHistory(t), Len(task[t]) = 1
    PROVE  task'[t][Len(task'[t])].op = "polls"
<1> DEFINE found == {m \in Messages : content[m] # None} \ (old \cup Op(t).skip)
           Found(i) == InOrder(found)[i]
           is == [i \in 1..Cardinality(found) |-> Ingest(Found(i), content[Found(i)])]
<1>1. TasksOK /\ ChannelOK /\ t \in Tasks /\ task[t] # <<>>
  BY DEF Typed, Alive
<1>2. Then(t, Paced(is, "polls"))
  BY DEF ScanHistory
<1>3. found \in SUBSET Messages
  OBVIOUS
<1>4. Cardinality(found) \in Nat /\ InOrder(found) \in [1..Cardinality(found) -> found]
  BY <1>3, MessagesFinite, InOrderInto
<1>5. ASSUME NEW i \in 1..Cardinality(found)
      PROVE  Ingest(Found(i), content[Found(i)]) \in OpSet /\ Ingest(Found(i), content[Found(i)]).op = "ingest"
  <2>1. PICK m : m = Found(i)
    OBVIOUS
  <2>2. m \in Messages /\ content[m] \in SUBSET PRs
    BY <1>1, <1>4, <2>1 DEF ChannelOK
  <2>3. Ingest(m, content[m]) \in Ingestions /\ Ingest(m, content[m]).op = "ingest"
    BY <2>2 DEF Ingest, Ingestions
  <2> QED
    BY <2>1, <2>3 DEF OpSet
<1> HIDE DEF Found
<1>6. is \in [1..Cardinality(found) -> OpSet] /\ DOMAIN is = 1..Cardinality(found)
  BY <1>5
<1>7. is \in Seq(OpSet)
  BY <1>4, <1>6, FunctionIsSeq
<1>8. Only(is, {"ingest", "sleep", "polls"})
  BY <1>5 DEF Only
<1> HIDE DEF is
<1>9. PICK ops \in Seq(OpSet) : ops = Paced(is, "polls")
  BY <1>7, <1>8, PacedHolds
<1>10. PICK n \in Nat \ {0} : Len(ops) = n /\ DOMAIN ops = 1..n /\ ops[n] = [op |-> "polls"]
  BY <1>7, <1>8, <1>9, PacedHolds
<1>11. Then(t, ops)
  BY <1>2, <1>9
<1>12. Len(task'[t]) = Len(ops) /\ \A i \in DOMAIN ops : task'[t][i] = ops[i]
  BY <1>1, <1>11, LastAfter
<1> QED
  BY <1>10, <1>12

(* A step of the startup pass while nothing goes wrong. *)
LEMMA StepSwept ==
    ASSUME Typed, TrustInv, TrustInv', ShapeInv, TrackedInv, SweptInv, trust = "healing", trust' # "broken",
           NEW t, t = "startup", task[t] # <<>>, Step(t)
    PROVE  SweptInv' /\ ShowInv'
<1>1. /\ TasksOK /\ t \in Tasks /\ Alive(t) /\ \A u \in Handlers : u # t
      /\ ~DiscordFails(t) /\ ~AutopostUnanswered(t) /\ \A lost : Answer(t, lost) => lost = {}
  BY StepMoves, PrBotAssumption DEF Typed, TrustInv, Alive, Tasks
<1>2. PICK k \in Nat \ {0} : k = Len(task[t]) /\ DOMAIN task[t] = 1..k /\ Op(t) = task[t][1]
  <2>1. Len(task[t]) \in Nat /\ DOMAIN task[t] = 1..Len(task[t]) /\ Op(t) = task[t][1] /\ 1 \in DOMAIN task[t]
    BY <1>1, TaskFields
  <2> QED
    BY <2>1
<1>3. task[t][k].op = "complete" => Covered /\ Keen(t) /\ Only(task[t], Sweeping)
  BY <1>2 DEF SweptInv
<1>4. CASE StartupComplete(t)
  <2>1. Op(t).op = "complete" /\ Then(t, <<>>) /\ trust' = "whole"
    BY <1>4 DEF StartupComplete, At
  <2>2. k = 1
    BY <1>1, <1>2, <2>1, StageIsLast DEF Stages
  <2>3. Covered'
    BY <1>1, <1>2, <1>3, <2>1, <2>2, SweepingOn
  <2>4. \A u \in Handlers : task'[u] = <<>>
    BY <1>1, <2>1, NoOps, TaskAfter DEF Alive, Tasks
  <2>5. \A u \in Handlers : Keen(u)' /\ Knows(u)'
    BY <2>4 DEF Keen, Knows
  <2> QED
    BY <2>1, <2>3, <2>5 DEF SweptInv, ShowInv
<1>5. CASE ~StartupComplete(t)
  <2>1. trust' = "healing" /\ task'[t] # <<>>
    BY <1>5, StepMoves DEF Moves, TrustInv
  <2>2. CASE Op(t).op = "sweep"
    <3>1. SweepMessages(t)
      BY <1>1, <2>2 DEF Step, Answer, GitHubOps, IngestMessage, LookUpState, FetchAndStore, ReadRows, FetchMessage,
         UpdateDone, React, DmUser, Sleep, ReadThreads, NotifyMessages, RecheckThreads, RecheckChecks, FetchAuthor,
         Autopost, AutopostUnanswered, AutopostLands, Unguard, RereadMessage, ScanHistory, StoreLabels, PollPR, ListActivePRs, StartupComplete, Answered, At
    <3> QED
      BY <1>1, <2>1, <3>1, SweepCovers DEF SweptInv, ShowInv
  <2>3. CASE task[t][k].op = "complete"
    BY <1>1, <1>3, <2>1, <2>3, SweepingOn DEF SweptInv, ShowInv
  <2>4. CASE Op(t).op # "sweep" /\ task[t][k].op # "complete"
    <3>1. task'[t][Len(task'[t])].op # "complete"
      <4>1. PICK ops \in Seq(OpSet) : Then(t, ops)
        BY <1>1, StepsAdd DEF StepAdds, GivesUp
      <4>2. CASE k # 1
        BY <1>1, <1>2, <2>4, <4>1, <4>2, LastAfter
      <4>3. CASE k = 1
        <5>1. Op(t).op \in {"history", "polls"}
          <6>1. 1 \in DOMAIN task[t] /\ 1 = Len(task[t])
            BY <1>2, <4>3
          <6>2. task[t][1].op \in Stages
            BY <1>1, <6>1 DEF ShapeInv
          <6> QED
            BY <1>2, <2>4, <4>3, <6>2 DEF Stages
        <5>2. CASE Op(t).op = "history"
          <6>1. ScanHistory(t)
            BY <1>1, <5>2 DEF Step, Answer, GitHubOps, IngestMessage, LookUpState, FetchAndStore, ReadRows,
               FetchMessage, UpdateDone, React, DmUser, Sleep, ReadThreads, NotifyMessages, RecheckThreads,
               RecheckChecks, FetchAuthor, Autopost, AutopostUnanswered, AutopostLands, Unguard, RereadMessage, StoreLabels, PollPR, ListActivePRs, SweepMessages,
               StartupComplete, Answered, At
          <6> QED
            BY <1>1, <1>2, <4>3, <6>1, ScanEnds
        <5>3. CASE Op(t).op = "polls"
          <6>1. PICK qs \in Seq(OpSet) : Then(t, qs) /\ \A i \in DOMAIN qs : qs[i].op \in {"poll", "sleep", "sweep"}
            BY <5>3, StepOfPolls, PollsAre
          <6>2. task'[t] \in Seq(OpSet) /\ DOMAIN task'[t] = DOMAIN qs /\ \A i \in DOMAIN qs : task'[t][i] = qs[i]
            <7>1. task'[t] \in Seq(OpSet)
              BY <1>1, <6>1, TaskAfter
            <7>2. TasksOK /\ t \in Tasks /\ task[t] # <<>> /\ Len(task[t]) = 1 /\ Then(t, qs)
              BY <1>1, <1>2, <4>3, <6>1
            <7>3. DOMAIN task'[t] = DOMAIN qs /\ \A i \in DOMAIN qs : task'[t][i] = qs[i]
              BY <7>2, LastAfter
            <7> QED
              BY <7>1, <7>3
          <6>3. Len(task'[t]) \in DOMAIN task'[t]
            BY <2>1, <6>2
          <6> QED
            BY <6>1, <6>2, <6>3
        <5> QED
          BY <5>1, <5>2, <5>3
      <4> QED
        BY <4>2, <4>3
    <3> QED
      BY <2>1, <3>1 DEF SweptInv, ShowInv
  <2> QED
    BY <2>2, <2>3, <2>4
<1> QED
  BY <1>4, <1>5

(* A step of the one handler alive while nothing goes wrong. *)
LEMMA StepShow ==
    ASSUME Typed, TrustInv, ShapeInv, TrackedInv, DueInv, ShowInv, trust = "whole", trust' = "whole",
           NEW t \in Handlers, task[t] # <<>>, Step(t)
    PROVE  ShowInv'
<1>1. /\ \A u \in Handlers : u # t => task[u] = <<>> /\ task'[u] = <<>>
      /\ AwaitInv
  BY StepAwaits DEF DueInv
<1>2. Alive(t) /\ t \in Tasks /\ t # "startup" /\ TasksOK
  BY <1>1, PrBotAssumption DEF Alive, Tasks, TrustInv, Typed
<1>3. Covered /\ Keen(t) /\ Knows(t)
  BY DEF ShowInv
<1>4. Op(t).op \notin {"poll", "polls", "history", "sweep"}
  <2>1. Op(t) = task[t][1] /\ 1 \in DOMAIN task[t]
    BY <1>2, TaskFields
  <2> QED
    BY <1>2, <2>1 DEF ShapeInv, Stages, GitHubOps
<1>5. FetchAndStore(t) => row[Op(t).pr] = None
  BY <1>1 DEF AwaitInv, FetchAndStore, Answered, At, GitHubOps
<1>6. Covered' /\ Keen(t)'
  BY <1>2, <1>3, <1>4, <1>5, StepCovers
<1>7. Knows(t)'
  BY <1>2, <1>3, StepKnows
<1>8. \A u \in Handlers : u # t => Keen(u)' /\ Knows(u)'
  BY <1>1 DEF Keen, Knows
<1> QED
  BY <1>6, <1>7, <1>8 DEF ShowInv
-----------------------------------------------------------------------------
(* What merges is merged on GitHub: no row, no webhook on its way and no   *)
(* answer says so of a PR of which GitHub does not, whatever goes wrong.   *)
Merges(p, life) == life = "merged" => github[p].life = "merged"
MergedRows == \A p \in PRs : Merges(p, RowOr(p).life)
MergedEvents ==
    \A i \in DOMAIN webhooks : webhooks[i].kind = "close" => Merges(webhooks[i].pr, webhooks[i].life)
AnswerMerges(o) == o.op \in GitHubOps /\ o.answer # None => Merges(o.pr, o.answer.row.life)
MergedAnswers == \A t \in Tasks : \A i \in DOMAIN task[t] : AnswerMerges(task[t][i])
MergedInv == MergedRows /\ MergedEvents /\ MergedAnswers

SameLife == \A p \in PRs : RowOr(p)'.life = RowOr(p).life
TakesLife(o) ==
    /\ o.op \in GitHubOps /\ o.answer # None /\ o.pr \in PRs
    /\ RowOr(o.pr)'.life = o.answer.row.life
    /\ \A q \in PRs : q # o.pr => RowOr(q)' = RowOr(q)

(* How a PR ends is written by who was told so by GitHub.                  *)
LEMMA StepLife ==
    ASSUME Typed, NEW t \in Tasks, task[t] # <<>>, Step(t), NEW o, o = Op(t)
    PROVE  SameLife \/ TakesLife(o)
<1>0. TasksOK /\ TablesOK /\ o \in OpSet /\ StepFrame(t) /\ \A p \in PRs : RowOr(p) \in Row
  BY OpTyped, StepFrames, RowOrTyped DEF Typed
<1>1. ASSUME NEW p \in PRs, NEW r \in Row, r.life = RowOr(p).life,
             row' = row \/ row' = [row EXCEPT ![p] = r]
      PROVE  SameLife
  <2>1. CASE row' = row
    BY <2>1 DEF SameLife, RowOr
  <2>2. CASE row' = [row EXCEPT ![p] = r]
    BY <1>0, <1>1, <2>2, SetsOnly DEF OnlySets, SameLife
  <2> QED
    BY <1>1, <2>1, <2>2
<1>2. ASSUME NEW r \in Row, o.op \in GitHubOps, o.answer # None, o.pr \in PRs, r.life = o.answer.row.life,
             row' = row \/ row' = [row EXCEPT ![o.pr] = r]
      PROVE  SameLife \/ TakesLife(o)
  <2>1. CASE row' = row
    BY <2>1 DEF SameLife, RowOr
  <2>2. CASE row' = [row EXCEPT ![o.pr] = r]
    <3>1. PICK p \in PRs : p = o.pr
      BY <1>2
    <3>2. OnlySets(p, r)
      BY <1>0, <1>2, <2>2, <3>1, SetsOnly
    <3> QED
      BY <1>2, <3>1, <3>2 DEF OnlySets, TakesLife
  <2> QED
    BY <1>2, <2>1, <2>2
<1>3. ASSUME ReadRows(t) PROVE SameLife
  <2>1. PICK links : row' = [p \in PRs |-> IF p \in links THEN RowOr(p) ELSE row[p]]
    BY <1>3 DEF ReadRows
  <2>2. \A p \in PRs : row'[p] = row[p] \/ (row'[p] = RowOr(p) /\ row'[p] # None)
    BY <1>0, <2>1, RowIsSome
  <2> QED
    BY <2>2 DEF SameLife, RowOr
<1>4. ASSUME ReadThreads(t) \/ RecheckThreads(t) PROVE SameLife
  <2>1. o.pr \in PRs /\ o.answer.row.resolved \in BOOLEAN
    BY <1>0, <1>4, AnswerTyped DEF ReadThreads, RecheckThreads, GitHubOps, Row
  <2> DEFINE r == [RowOr(o.pr) EXCEPT !.resolved = o.answer.row.resolved]
  <2>2. r \in Row /\ r.life = RowOr(o.pr).life
    BY <1>0, <2>1 DEF Row
  <2>3. row' = row \/ row' = [row EXCEPT ![o.pr] = r]
    BY <1>4 DEF ReadThreads, RecheckThreads
  <2> HIDE DEF r
  <2> QED
    BY <1>1, <2>1, <2>2, <2>3
<1>5. ASSUME StoreLabels(t) PROVE SameLife
  <2>1. o \in LabelOps
    BY <1>0, <1>5, OpFields DEF StoreLabels, At
  <2>2. o.pr \in PRs /\ o.ready \in BOOLEAN
    BY <2>1 DEF LabelOps
  <2> DEFINE r == [RowOr(o.pr) EXCEPT !.ready = o.ready]
  <2>3. r \in Row /\ r.life = RowOr(o.pr).life
    BY <1>0, <2>2 DEF Row
  <2>4. row' = row \/ row' = [row EXCEPT ![o.pr] = r]
    BY <1>5 DEF StoreLabels
  <2> HIDE DEF r
  <2> QED
    BY <1>1, <2>2, <2>3, <2>4
<1>6. ASSUME RecheckChecks(t) PROVE SameLife
  <2>1. o.pr \in PRs /\ o.answer.row.failing \in BOOLEAN /\ o.known.failing \in BOOLEAN
    BY <1>0, <1>6, AnswerTyped DEF RecheckChecks, GitHubOps, Row
  <2>2. PICK p \in PRs : p = o.pr
    BY <2>1
  <2>3. \A failing \in BOOLEAN : [RowOr(p) EXCEPT !.failing = failing] \in Row
                                 /\ [RowOr(p) EXCEPT !.failing = failing].life = RowOr(p).life
    BY <1>0 DEF Row
  <2>4. \/ row' = row
        \/ \E failing \in BOOLEAN : row' = [row EXCEPT ![p] = [RowOr(p) EXCEPT !.failing = failing]]
    BY <1>6, <2>1, <2>2 DEF RecheckChecks
  <2>5. \E r \in Row : r.life = RowOr(p).life /\ (row' = row \/ row' = [row EXCEPT ![p] = r])
    BY <1>0, <2>3, <2>4
  <2> QED
    BY <1>1, <2>5
<1>7. ASSUME FetchAndStore(t) PROVE SameLife \/ TakesLife(o)
  <2>1. o.op \in GitHubOps /\ o.answer # None /\ o.pr \in PRs /\ o.answer.row \in Row
    BY <1>0, <1>7, AnswerTyped DEF FetchAndStore, Answered, At, GitHubOps
  <2>2. PICK r : r = Read(t, RowOr(o.pr))
    OBVIOUS
  <2>3. r \in Row
    BY <1>0, <1>7, <2>1, <2>2, ReadTyped DEF FetchAndStore, GitHubOps
  <2>4. r.life = o.answer.row.life
    BY <2>1, <2>2 DEF Read, Row
  <2>5. row' = row \/ row' = [row EXCEPT ![o.pr] = r]
    BY <1>7, <2>2 DEF FetchAndStore
  <2> QED
    BY <1>2, <2>1, <2>3, <2>4, <2>5
<1>8. ASSUME PollPR(t) PROVE SameLife \/ TakesLife(o)
  <2>1. o.op \in GitHubOps /\ o.answer # None /\ o.pr \in PRs /\ o.answer.row \in Row /\ o.known \in Row
    BY <1>0, <1>8, AnswerTyped DEF PollPR, Answered, At, GitHubOps
  <2>2. PICK new : new = Read(t, o.known)
    OBVIOUS
  <2>3. new \in Row
    BY <1>0, <1>8, <2>1, <2>2, ReadTyped DEF PollPR, GitHubOps
  <2>4. new.life = o.answer.row.life
    BY <2>1, <2>2 DEF Read, Row
  <2>5. RowOr(o.pr).failing \in BOOLEAN /\ new.failing \in BOOLEAN
    BY <1>0, <2>1, <2>3 DEF Row
  <2>6. \A checks \in BOOLEAN : [new EXCEPT !.failing = checks] \in Row /\ [new EXCEPT !.failing = checks].life = new.life
    BY <2>3 DEF Row
  <2>7. \/ row' = row
        \/ \E checks \in BOOLEAN : row' = [row EXCEPT ![o.pr] = [new EXCEPT !.failing = checks]]
    BY <1>8, <2>2, <2>5 DEF PollPR
  <2>8. \E r \in Row : r.life = new.life /\ (row' = row \/ row' = [row EXCEPT ![o.pr] = r])
    BY <2>3, <2>6, <2>7
  <2> QED
    BY <1>2, <2>1, <2>4, <2>8
<1> QED
  <2>1. UNCHANGED row => SameLife
    BY DEF SameLife, RowOr
  <2> QED
    BY <1>0, <1>3, <1>4, <1>5, <1>6, <1>7, <1>8, <2>1 DEF StepFrame, ChangesRow

(* What a step leaves to do says no more than GitHub does. *)
LEMMA AnswersAfter ==
    ASSUME TasksOK, NEW t \in Tasks, task[t] # <<>>, NEW ops \in Seq(OpSet), Then(t, ops), MergedAnswers,
           github' = github, \A i \in DOMAIN ops : AnswerMerges(ops[i])
    PROVE  MergedAnswers'
<1>1. ASSUME NEW u \in Tasks, NEW j \in DOMAIN task'[u], NEW o, o = task'[u][j]
      PROVE  AnswerMerges(o)'
  <2>1. AnswerMerges(o)
    <3>1. CASE u = t
      <4>1. \/ j \in DOMAIN ops /\ task'[t][j] = ops[j]
            \/ \E i \in DOMAIN task[t] : i # 1 /\ task'[t][j] = task[t][i]
        BY <1>1, <3>1, TaskIs
      <4> QED
        BY <1>1, <3>1, <4>1 DEF MergedAnswers
    <3>2. CASE u # t
      <4>1. task'[u] = task[u]
        BY <3>2, TaskAfter
      <4> QED
        BY <1>1, <4>1 DEF MergedAnswers
    <3> QED
      BY <3>1, <3>2
  <2> QED
    BY <2>1 DEF AnswerMerges, Merges
<1> QED
  BY <1>1 DEF MergedAnswers, AnswerMerges, Merges

LEMMA StepMerged ==
    ASSUME Typed, ShapeInv, MergedInv, NEW t \in Tasks, task[t] # <<>>, Step(t)
    PROVE  MergedInv'
<1>0. PICK o \in OpSet : o = Op(t)
  BY OpTyped DEF Typed
<1>1. TasksOK /\ UNCHANGED <<github, webhooks>> /\ o = task[t][1] /\ 1 \in DOMAIN task[t]
  BY <1>0, StepFrames, TaskFields DEF StepFrame, Typed
<1>2. AnswerMerges(o)
  BY <1>1 DEF MergedInv, MergedAnswers
<1>3. MergedRows'
  <2>1. SameLife \/ TakesLife(o)
    BY <1>0, StepLife
  <2>2. CASE SameLife
    BY <1>1, <2>2 DEF SameLife, MergedInv, MergedRows, Merges
  <2>3. CASE TakesLife(o)
    BY <1>1, <1>2, <2>3 DEF TakesLife, AnswerMerges, MergedInv, MergedRows, Merges
  <2> QED
    BY <2>1, <2>2, <2>3
<1>4. MergedEvents'
  BY <1>1 DEF MergedInv, MergedEvents, Merges
<1>5. MergedAnswers'
  <2>1. CASE \E lost : Answer(t, lost)
    <3>1. PICK lost \in Lost(Op(t).op) : Answer(t, lost)
      BY <2>1, StepOfHead DEF Answer, FetchAndStore, ReadThreads, RecheckThreads, RecheckChecks, PollPR, FetchAuthor, Answered
    <3>2. o.op \in GitHubOps /\ o.pr \in PRs /\ Then(t, <<[Op(t) EXCEPT !.answer = [row |-> Truth(Op(t).pr), lost |-> lost]]>>)
      BY <1>0, <3>1, AwaitFields DEF Answer
    <3>3. PICK a : a = [row |-> Truth(o.pr), lost |-> lost]
      OBVIOUS
    <3>4. a \in Answers
      <4>1. lost \in SUBSET {"all", "failing", "resolved"}
        BY DEF Lost
      <4>2. Truth(o.pr) \in Row
        BY <3>2, TruthTyped DEF Typed
      <4>3. a \in [row: Row, lost: SUBSET {"all", "failing", "resolved"}]
        BY <3>3, <4>1, <4>2
      <4> QED
        BY <4>3 DEF Answers
    <3>5. PICK x : x = [o EXCEPT !.answer = a]
      OBVIOUS
    <3>6. x \in OpSet
      BY <3>2, <3>4, <3>5, AnswerGiven DEF Given
    <3>7. x.op = o.op /\ x.pr = o.pr /\ x.answer = a
      <4>1. o \in Fetches \/ o \in Threads \/ o \in Rethreads \/ o \in Rechecks \/ o \in Polls
        BY <3>2, OpFields DEF GitHubOps
      <4> QED
        BY <3>5, <4>1 DEF Fetches, Threads, Rethreads, Rechecks, Polls
    <3>8. AnswerMerges(x)
      BY <3>2, <3>3, <3>7 DEF AnswerMerges, Merges, Truth
    <3>9. PICK ops \in Seq(OpSet) : ops = <<x>>
      BY <3>6, OneOp
    <3>10. Then(t, ops) /\ \A i \in DOMAIN ops : ops[i] = x
      BY <1>0, <3>2, <3>3, <3>5, <3>6, <3>9, OneOp
    <3> QED
      BY <1>1, <3>8, <3>10, AnswersAfter DEF MergedInv
  <2>2. CASE (~\E lost : Answer(t, lost)) /\ o.op \in {"reconcile"} \cup Looking
    <3>1. PICK ops \in Seq(OpSet) : Then(t, ops) /\ Adds(o, ops)
      BY <1>0, <2>2, StepsAdd DEF StepAdds, GivesUp, Looking
    <3>2. \A i \in DOMAIN ops : AnswerMerges(ops[i])
      BY <2>2, <3>1 DEF Adds, AnswerMerges, Looking, GitHubOps
    <3> QED
      BY <1>1, <3>1, <3>2, AnswersAfter DEF MergedInv
  <2>3. CASE (~\E lost : Answer(t, lost)) /\ o.op \notin {"reconcile"} \cup Looking
    <3>1. CASE GivesUp(t)
      <4>1. task' = [task EXCEPT ![t] = <<>>]
        BY <3>1 DEF GivesUp
      <4>2. \A u \in Tasks : task'[u] = task[u] \/ task'[u] = <<>>
        BY <1>1, <4>1 DEF TasksOK
      <4> QED
        BY <1>1, <4>2 DEF MergedInv, MergedAnswers, AnswerMerges, Merges
    <3>2. CASE \E ops \in Seq(OpSet) : Then(t, ops) /\ Calms(ops)
      <4>1. PICK ops \in Seq(OpSet) : Then(t, ops) /\ Calms(ops)
        BY <3>2
      <4>2. \A i \in DOMAIN ops : AnswerMerges(ops[i])
        BY <4>1 DEF Calms, AnswerMerges
      <4> QED
        BY <1>1, <4>1, <4>2, AnswersAfter DEF MergedInv
    <3> QED
      BY <1>0, <2>3, <3>1, <3>2, StepCalms
  <2> QED
    BY <2>1, <2>2, <2>3
<1> QED
  BY <1>3, <1>4, <1>5 DEF MergedInv

(* What is on its way after one webhook is taken was on its way before. *)
LEMMA EventsTaken ==
    ASSUME webhooks \in Seq(Events), NEW i \in DOMAIN webhooks, webhooks' = RemoveAt(webhooks, i),
           NEW j \in DOMAIN webhooks'
    PROVE  \E k \in DOMAIN webhooks : webhooks'[j] = webhooks[k]
<1>1. PICK S : S = {webhooks[k] : k \in DOMAIN webhooks}
  OBVIOUS
<1>2. Len(webhooks) \in Nat /\ DOMAIN webhooks = 1..Len(webhooks)
  BY LenProperties
<1>3. \A k \in 1..Len(webhooks) : webhooks[k] \in S
  BY <1>1, <1>2
<1>4. webhooks \in Seq(S)
  <2>1. webhooks \in [1..Len(webhooks) -> S]
    BY <1>2, <1>3, LenProperties
  <2> QED
    BY <1>2, <2>1, FunctionIsSeq
<1>5. SubSeq(webhooks, 1, i - 1) \in Seq(S)
  <2>1. \A k \in 1..(i - 1) : webhooks[k] \in S
    BY <1>2, <1>3
  <2> QED
    BY <1>2, <1>4, <2>1, SubSeqProperties
<1>6. SubSeq(webhooks, i + 1, Len(webhooks)) \in Seq(S)
  <2>1. \A k \in (i + 1)..Len(webhooks) : webhooks[k] \in S
    BY <1>2, <1>3
  <2> QED
    BY <1>2, <1>4, <2>1, SubSeqProperties
<1>7. webhooks' \in Seq(S)
  <2>1. webhooks' = SubSeq(webhooks, 1, i - 1) \o SubSeq(webhooks, i + 1, Len(webhooks))
    BY DEF RemoveAt
  <2> QED
    BY <1>5, <1>6, <2>1, ConcatProperties
<1>8. webhooks'[j] \in S
  BY <1>7, LenProperties, ElementOfSeq
<1> QED
  BY <1>1, <1>8

LEMMA ReceiveMerged ==
    ASSUME Typed, MergedInv, NEW t \in Handlers, Receive(t)
    PROVE  MergedInv'
<1>1. PICK ops \in Seq(OpSet) :
        /\ Starts(t, ops) /\ Begins(ops) /\ UNCHANGED github
        /\ \/ \E i \in DOMAIN webhooks : \E kind :
                /\ Delivers(t, i, kind) /\ Writes(webhooks[i])
                /\ Causes(webhooks[i], ops) /\ Heeds(webhooks[i], ops)
           \/ Only(ops, Plain) /\ Trusting(Alone, {}) /\ UNCHANGED <<webhooks, row>>
  BY ReceiveBegins DEF Begun
<1>2. MergedAnswers'
  <2>1. t \in Tasks /\ task' = [task EXCEPT ![t] = ops] /\ task \in [Tasks -> Seq(OpSet)]
    BY <1>1 DEF Starts, Tasks, Typed, TasksOK
  <2>2. ASSUME NEW u \in Tasks, NEW j \in DOMAIN task'[u], NEW o, o = task'[u][j]
        PROVE  AnswerMerges(o)
    <3>1. CASE u = t
      BY <1>1, <2>1, <2>2, <3>1 DEF Begins, AnswerMerges
    <3>2. CASE u # t
      BY <2>1, <2>2, <3>2 DEF MergedInv, MergedAnswers
    <3> QED
      BY <3>1, <3>2
  <2> QED
    BY <1>1, <2>2 DEF MergedAnswers, AnswerMerges, Merges
<1>3. CASE UNCHANGED <<webhooks, row>>
  BY <1>1, <1>2, <1>3 DEF MergedInv, MergedRows, MergedEvents, Merges, RowOr
<1>4. ASSUME NEW i \in DOMAIN webhooks, NEW kind, Delivers(t, i, kind), Writes(webhooks[i])
      PROVE  MergedInv'
  <2>1. PICK e \in Events : e = webhooks[i]
    BY <1>4, DeliversTyped DEF Typed
  <2>2. e.kind = "close" => Merges(e.pr, e.life)
    BY <2>1 DEF MergedInv, MergedEvents
  <2>3. \A p \in PRs : RowOr(p)'.life = IF e.kind = "close" /\ e.pr = p THEN e.life ELSE RowOr(p).life
    BY <1>4, <2>1 DEF Writes, After
  <2>4. MergedRows'
    <3>1. ASSUME NEW p \in PRs
          PROVE  Merges(p, RowOr(p).life)'
      <4>1. CASE e.kind = "close" /\ e.pr = p
        BY <1>1, <2>2, <2>3, <4>1 DEF Merges
      <4>2. CASE ~(e.kind = "close" /\ e.pr = p)
        BY <1>1, <2>3, <4>2 DEF Merges, MergedInv, MergedRows
      <4> QED
        BY <4>1, <4>2
    <3> QED
      BY <3>1 DEF MergedRows
  <2>5. MergedEvents'
    <3>1. webhooks \in Seq(Events) /\ webhooks' = RemoveAt(webhooks, i)
      BY <1>4 DEF Typed, QueuesOK, Delivers
    <3>2. ASSUME NEW j \in DOMAIN webhooks'
          PROVE  \E k \in DOMAIN webhooks : webhooks'[j] = webhooks[k]
      BY <3>1, <3>2, EventsTaken
    <3> QED
      BY <1>1, <3>2 DEF MergedInv, MergedEvents, Merges
  <2> QED
    BY <1>2, <2>4, <2>5 DEF MergedInv
<1> QED
  BY <1>1, <1>3, <1>4

(* What GitHub tells of the end of a PR is so, and a merge is final. *)
Ends ==
    /\ \A p \in PRs : github[p].life = "merged" => github'[p].life = "merged"
    /\ \/ UNCHANGED webhooks
       \/ \E e \in Events : webhooks' = Append(webhooks, e) /\ (e.kind = "close" => github'[e.pr].life = e.life)

LEMMA ChangedEnds ==
    ASSUME Typed, NEW p \in PRs, NEW kind, NEW new, NEW n, NEW e, Changed(kind, p, new, e, n),
           new.life = github[p].life \/ github[p].life # "merged",
           e = None \/ (e \in Events /\ (e.kind = "close" => e.pr = p /\ new.life = e.life))
    PROVE  Ends
<1>1. github' = [github EXCEPT ![p] = new] /\ github \in [PRs -> OnGitHub]
  BY DEF Changed, Typed, GitHubOK
<1>2. github'[p] = new /\ \A q \in PRs : q # p => github'[q] = github[q]
  BY <1>1
<1>3. webhooks' = IF up /\ e # None THEN Append(webhooks, e) ELSE webhooks
  BY DEF Changed
<1> QED
  BY <1>2, <1>3 DEF Ends

LEMMA GitHubEnds ==
    ASSUME Typed, NEW p \in PRs, GitHubChanges(p)
    PROVE  Ends
<1> DEFINE g == github[p]
<1>0. g \in OnGitHub
  BY DEF Typed, GitHubOK
<1>1. ASSUME NEW review \in Reviews, NEW opens \in BOOLEAN, SubmitReview(p, review, opens) PROVE Ends
  <2>1. PICK new : new = [g EXCEPT !.reviews = Append(@, review), !.resolved = @ /\ ~opens]
    OBVIOUS
  <2>2. PICK e : e = [kind |-> "review", pr |-> p, review |-> review]
    OBVIOUS
  <2>3. new.life = g.life
    BY <1>0, <2>1 DEF OnGitHub
  <2>4. e \in Events /\ e.kind = "review"
    BY <2>2 DEF Events
  <2>5. Changed("review", p, new, e, IF review = "self_comment" THEN 0 ELSE 1)
    BY <1>1, <2>1, <2>2 DEF SubmitReview
  <2> QED
    BY <2>3, <2>4, <2>5, ChangedEnds
<1>2. ASSUME NEW i \in DOMAIN github[p].reviews, DismissReview(p, i) PROVE Ends
  <2>1. PICK new : new = [g EXCEPT !.reviews = [@ EXCEPT ![i] = "dismissed"]]
    OBVIOUS
  <2>2. PICK e : e = [kind |-> "review", pr |-> p, review |-> "dismissed"]
    OBVIOUS
  <2>3. new.life = g.life
    BY <1>0, <2>1 DEF OnGitHub
  <2>4. e \in Events /\ e.kind = "review"
    BY <2>2 DEF Events, Reviews
  <2>5. Changed("dismiss", p, new, e, 0)
    BY <1>2, <2>1, <2>2 DEF DismissReview
  <2> QED
    BY <2>3, <2>4, <2>5, ChangedEnds
<1>3. ASSUME NEW life \in Terminal, ClosePr(p, life) PROVE Ends
  <2>1. PICK new : new = [g EXCEPT !.life = life]
    OBVIOUS
  <2>2. PICK e : e = [kind |-> "close", pr |-> p, life |-> life]
    OBVIOUS
  <2>3. new.life = life /\ g.life = "open"
    BY <1>0, <1>3, <2>1 DEF OnGitHub, ClosePr
  <2>4. e \in Events /\ e.pr = p /\ e.life = life
    BY <2>2 DEF Events
  <2>5. Changed("close", p, new, e, 1)
    BY <1>3, <2>1, <2>2 DEF ClosePr
  <2> QED
    BY <2>3, <2>4, <2>5, ChangedEnds
<1>4. ASSUME ReopenPr(p) PROVE Ends
  <2>1. PICK new : new = [g EXCEPT !.life = "open"]
    OBVIOUS
  <2>2. g.life # "merged" /\ Changed("reopen", p, new, None, 0)
    BY <1>4, <2>1 DEF ReopenPr
  <2> QED
    BY <2>2, ChangedEnds
<1>5. ASSUME NEW ready \in BOOLEAN, ChangeLabels(p, ready) PROVE Ends
  <2>1. PICK new : new = [g EXCEPT !.ready = ready]
    OBVIOUS
  <2>2. PICK e : e = [kind |-> "label", pr |-> p, ready |-> ready]
    OBVIOUS
  <2>3. new.life = g.life
    BY <1>0, <2>1 DEF OnGitHub
  <2>4. e \in Events /\ e.kind = "label"
    BY <2>2 DEF Events
  <2>5. Changed("label", p, new, e, 0)
    BY <1>5, <2>1, <2>2 DEF ChangeLabels
  <2> QED
    BY <2>3, <2>4, <2>5, ChangedEnds
<1>6. ASSUME CompleteChecks(p) PROVE Ends
  <2>1. PICK failing \in BOOLEAN : failing = ~g.failing
    OBVIOUS
  <2>2. PICK new : new = [g EXCEPT !.failing = failing]
    OBVIOUS
  <2>3. PICK e : e = [kind |-> "check", pr |-> p, failing |-> failing]
    OBVIOUS
  <2>4. new.life = g.life
    BY <1>0, <2>2 DEF OnGitHub
  <2>5. e \in Events /\ e.kind = "check"
    BY <2>3 DEF Events
  <2>6. Changed("check", p, new, e, IF failing THEN 1 ELSE 0)
    BY <1>6, <2>1, <2>2, <2>3 DEF CompleteChecks
  <2> QED
    BY <2>4, <2>5, <2>6, ChangedEnds
<1>7. ASSUME ResolveThreads(p) PROVE Ends
  <2>1. PICK new : new = [g EXCEPT !.resolved = ~@]
    OBVIOUS
  <2>2. PICK e : e = [kind |-> "thread", pr |-> p]
    OBVIOUS
  <2>3. new.life = g.life
    BY <1>0, <2>1 DEF OnGitHub
  <2>4. e \in Events /\ e.kind = "thread"
    BY <2>2 DEF Events
  <2>5. Changed("thread", p, new, e, 0)
    BY <1>7, <2>1, <2>2 DEF ResolveThreads
  <2> QED
    BY <2>3, <2>4, <2>5, ChangedEnds
<1> QED
  BY <1>1, <1>2, <1>3, <1>4, <1>5, <1>6, <1>7 DEF GitHubChanges

LEMMA GitHubMerged ==
    ASSUME Typed, MergedInv, NEW p \in PRs, GitHubChanges(p)
    PROVE  MergedInv'
<1>1. Ends
  BY GitHubEnds
<1>2. UNCHANGED <<row, task>>
  BY GitHubHappens DEF Happens
<1>3. MergedRows'
  BY <1>1, <1>2 DEF MergedInv, MergedRows, Merges, Ends, RowOr
<1>4. MergedAnswers'
  <2>1. ASSUME NEW t \in Tasks, NEW i \in DOMAIN task[t], NEW o, o = task[t][i], o.op \in GitHubOps, o.answer # None,
               o.answer.row.life = "merged"
        PROVE  github'[o.pr].life = "merged"
    <3>1. o \in OpSet
      BY <2>1, TaskFields DEF Typed
    <3>2. o.pr \in PRs
      BY <2>1, <3>1, AwaitFields
    <3>3. github[o.pr].life = "merged"
      BY <2>1 DEF MergedInv, MergedAnswers, AnswerMerges, Merges
    <3> QED
      BY <1>1, <3>2, <3>3 DEF Ends
  <2> QED
    BY <1>2, <2>1 DEF MergedAnswers, AnswerMerges, Merges
<1>5. MergedEvents'
  <2>1. webhooks \in Seq(Events)
    BY DEF Typed, QueuesOK
  <2>2. ASSUME NEW i \in DOMAIN webhooks, webhooks[i].kind = "close", webhooks[i].life = "merged"
        PROVE  github'[webhooks[i].pr].life = "merged"
    <3>1. webhooks[i] \in Events
      BY <2>1, LenProperties, ElementOfSeq
    <3>2. webhooks[i].pr \in PRs
      BY <3>1, EventFields
    <3>3. github[webhooks[i].pr].life = "merged"
      BY <2>2 DEF MergedInv, MergedEvents, Merges
    <3> QED
      BY <1>1, <3>2, <3>3 DEF Ends
  <2>3. CASE UNCHANGED webhooks
    BY <2>2, <2>3 DEF MergedEvents, Merges
  <2>4. ASSUME NEW e \in Events, webhooks' = Append(webhooks, e), e.kind = "close" => github'[e.pr].life = e.life
        PROVE  MergedEvents'
    <3>1. \A j \in DOMAIN webhooks' : webhooks'[j] = e \/ (j \in DOMAIN webhooks /\ webhooks'[j] = webhooks[j])
      <4>1. PICK n \in Nat \ {0} :
              /\ DOMAIN webhooks = 1..(n - 1) /\ DOMAIN webhooks' = 1..(n - 1) \cup {n}
              /\ webhooks'[n] = e
              /\ \A i \in 1..(n - 1) : webhooks'[i] = webhooks[i] /\ i \in Nat \ {0} /\ i < n
        BY <2>1, <2>4, EventSent
      <4> QED
        BY <4>1
    <3> QED
      BY <2>2, <2>4, <3>1 DEF MergedEvents, Merges
  <2> QED
    BY <1>1, <2>3, <2>4 DEF Ends
<1> QED
  BY <1>3, <1>4, <1>5 DEF MergedInv

LEMMA OthersMerged ==
    ASSUME Typed, MergedInv, OnDelete \/ RunCleanup \/ Crash \/ Restart
    PROVE  MergedInv'
<1>1. /\ github' = github
      /\ webhooks' = webhooks \/ webhooks' = <<>>
      /\ \A p \in PRs : row'[p] = row[p] \/ row'[p] = None
      /\ \/ task' = task
         \/ \A t \in Tasks : task'[t] = <<>>
         \/ \E skip : task' = [task EXCEPT !["startup"] = <<[op |-> "history", skip |-> skip]>>]
  <2>1. CASE OnDelete
    BY <2>1 DEF OnDelete, TakesEvent, env
  <2>2. CASE RunCleanup
    BY <2>2 DEF RunCleanup, Cleaned, env, queues
  <2>3. CASE Crash
    BY <2>3 DEF Crash, env, tables
  <2>4. CASE Restart
    BY <2>4 DEF Restart, Cleaned, env, queues
  <2> QED
    BY <2>1, <2>2, <2>3, <2>4
<1>2. MergedRows'
  <2>1. ASSUME NEW p \in PRs
        PROVE  RowOr(p)'.life \in {RowOr(p).life, "open"}
    BY <1>1 DEF RowOr, DefaultRow
  <2> QED
    BY <1>1, <2>1 DEF MergedInv, MergedRows, Merges
<1>3. MergedEvents'
  BY <1>1 DEF MergedInv, MergedEvents, Merges
<1>4. MergedAnswers'
  <2>1. CASE task' = task
    BY <1>1, <2>1 DEF MergedInv, MergedAnswers, AnswerMerges, Merges
  <2>2. CASE \A t \in Tasks : task'[t] = <<>>
    BY <2>2 DEF MergedAnswers
  <2>3. CASE \E skip : task' = [task EXCEPT !["startup"] = <<[op |-> "history", skip |-> skip]>>]
    <3>1. PICK skip : task' = [task EXCEPT !["startup"] = <<[op |-> "history", skip |-> skip]>>]
      BY <2>3
    <3>2. PICK x : x = [op |-> "history", skip |-> skip]
      OBVIOUS
    <3>3. \A t \in Tasks : task'[t] = task[t] \/ task'[t] = <<x>>
      BY <3>1, <3>2 DEF Typed, TasksOK
    <3>4. \A i \in DOMAIN <<x>> : <<x>>[i].op \notin GitHubOps
      BY <3>2 DEF GitHubOps
    <3>5. ASSUME NEW t \in Tasks, NEW i \in DOMAIN task'[t], NEW o, o = task'[t][i]
          PROVE  AnswerMerges(o)
      <4>1. CASE task'[t] = task[t]
        BY <3>5, <4>1 DEF MergedInv, MergedAnswers
      <4>2. CASE task'[t] = <<x>>
        BY <3>4, <3>5, <4>2 DEF AnswerMerges
      <4> QED
        BY <3>3, <4>1, <4>2
    <3> QED
      BY <1>1, <3>5 DEF MergedAnswers, AnswerMerges, Merges
  <2> QED
    BY <1>1, <2>1, <2>2, <2>3
<1> QED
  BY <1>2, <1>3, <1>4 DEF MergedInv

LEMMA InitMerged == Init => MergedInv /\ TrackedInv
<1>1. ASSUME Init PROVE MergedInv /\ TrackedInv
  <2>1. \A t \in Tasks : task[t] = <<>>
    BY <1>1 DEF Init
  <2>2. \A p \in PRs : RowOr(p).life = "open"
    BY <1>1 DEF Init, RowOr, DefaultRow
  <2>3. webhooks = <<>> /\ Tracked = {}
    BY <1>1 DEF Init, Tracked
  <2> QED
    BY <2>1, <2>2, <2>3 DEF MergedInv, MergedRows, MergedEvents, MergedAnswers, Merges, TrackedInv
<1> QED
  BY <1>1

LEMMA NextMerged ==
    ASSUME Typed, ShapeInv, MergedInv, [Next]_vars
    PROVE  MergedInv'
<1>1. ASSUME NEW t \in Tasks \ Idle, Step(t) PROVE MergedInv'
  BY <1>1, StepMerged DEF Idle
<1>2. ASSUME NEW t \in Handlers \cap Idle, Receive(t) PROVE MergedInv'
  BY <1>2, ReceiveMerged
<1>3. CASE OnDelete \/ RunCleanup \/ Crash \/ Restart
  BY <1>3, OthersMerged
<1>4. ASSUME NEW p \in PRs, GitHubChanges(p) PROVE MergedInv'
  BY <1>4, GitHubMerged
<1>5. ASSUME UNCHANGED <<github, webhooks, row, task>> PROVE MergedInv'
  BY <1>5 DEF MergedInv, MergedRows, MergedEvents, MergedAnswers, AnswerMerges, Merges, RowOr
<1>6. ASSUME \/ \E links \in Links : PostMessage(links) \/ \E m \in Messages : EditMessage(m, links)
             \/ \E m \in Messages : DeleteMessage(m) \/ GrowOld(m)
      PROVE  MergedInv'
  BY <1>5, <1>6, UsersAside
<1>7. CASE UNCHANGED vars
  BY <1>5, <1>7 DEF vars, env, queues, tables
<1> QED
  BY <1>1, <1>2, <1>3, <1>4, <1>6, <1>7 DEF Next

LEMMA NextTracked ==
    ASSUME Typed, AutopostInv, TrackedInv, [Next]_vars
    PROVE  TrackedInv'
<1>1. ASSUME Tracked' \subseteq Tracked, posted' \in Int, posted <= posted'
      PROVE  TrackedInv'
  <2>1. \A m \in Messages : m \in Int
    BY DEF Messages
  <2>2. posted \in Int /\ Tracked \subseteq Messages
    BY DEF Typed, ChannelOK, Tracked
  <2> QED
    BY <1>1, <2>1, <2>2 DEF TrackedInv
<1>2. posted \in Int /\ message \in [Messages -> Entries \cup {None}] /\ (posted' = posted => posted' \in Int /\ posted <= posted')
  BY DEF Typed, ChannelOK, TablesOK
<1>3. ASSUME NEW m, NEW e, message' = [message EXCEPT ![m] = e], m <= posted, posted' = posted
      PROVE  TrackedInv'
  BY <1>2, <1>3 DEF TrackedInv, Tracked
<1>4. ASSUME UNCHANGED message
      PROVE  Tracked' = Tracked
  BY <1>4 DEF Tracked
<1>5. ASSUME NEW t \in Tasks \ Idle, Step(t) PROVE TrackedInv'
  <2>1. t \in Tasks /\ task[t] # <<>> /\ TasksOK /\ StepFrame(t)
    BY <1>5, StepFrames DEF Idle, Typed
  <2>2. PICK o \in OpSet : o = Op(t) /\ o = task[t][1] /\ 1 \in DOMAIN task[t]
    BY <2>1, OpTyped, TaskFields
  <2>3. CASE IngestMessage(t)
    <3>1. o.op = "ingest" /\ posted' = posted
      BY <2>2, <2>3 DEF IngestMessage, At, env
    <3>2. o.message <= posted
      BY <2>1, <2>2, <3>1 DEF AutopostInv, IngestInv
    <3>3. \E e : message' = [message EXCEPT ![o.message] = e]
      BY <2>2, <2>3 DEF IngestMessage, Stored
    <3> QED
      BY <1>3, <3>1, <3>2, <3>3
  <2>4. CASE UpdateDone(t)
    <3>1. posted' = posted
      BY <2>4 DEF UpdateDone, env
    <3>2. message' = message \/ (o.message \in Tracked /\ \E e : message' = [message EXCEPT ![o.message] = e])
      BY <2>2, <2>4 DEF UpdateDone
    <3>3. CASE message' = message
      BY <1>1, <1>2, <1>4, <3>1, <3>3
    <3>4. CASE o.message \in Tracked /\ \E e : message' = [message EXCEPT ![o.message] = e]
      BY <1>3, <3>1, <3>4 DEF TrackedInv
    <3> QED
      BY <3>2, <3>3, <3>4
  <2>5. CASE UNCHANGED message
    <3>1. posted' = posted \/ posted' = posted + 1
      BY <2>1 DEF StepFrame, AutopostLands
    <3>2. posted' \in Int /\ posted <= posted'
      BY <1>2, <3>1
    <3> QED
      BY <1>1, <1>4, <2>5, <3>2
  <2> QED
    BY <2>1, <2>3, <2>4, <2>5 DEF StepFrame
<1>6. ASSUME NEW t \in Handlers \cap Idle, Receive(t) PROVE TrackedInv'
  <2>1. ReceiveFrame(t)
    BY <1>6, ReceiveTurns
  <2>2. posted' = posted
    BY <2>1 DEF ReceiveFrame
  <2>3. CASE OnMessage(t)
    <3>1. gateway # <<>> /\ \E e : message' = [message EXCEPT ![Head(gateway).message] = e]
      BY <2>3 DEF OnMessage, TakesEvent, Stored
    <3>2. 1 \in DOMAIN gateway /\ Head(gateway) = gateway[1]
      <4>1. gateway \in Seq(GatewayEvents)
        BY DEF Typed, QueuesOK
      <4> QED
        BY <3>1, <4>1
    <3>3. Head(gateway).message <= posted
      BY <3>2 DEF AutopostInv, GatewayInv
    <3> QED
      BY <1>3, <2>2, <3>1, <3>3
  <2>4. CASE UNCHANGED message
    BY <1>1, <1>2, <1>4, <2>2, <2>4
  <2> QED
    BY <2>1, <2>3, <2>4 DEF ReceiveFrame
<1>7. CASE OnDelete \/ RunCleanup \/ Crash \/ Restart
  <2>1. posted' = posted
    BY <1>7 DEF OnDelete, RunCleanup, Crash, Restart, TakesEvent, env
  <2>2. \A m \in Messages : message'[m] \in {message[m], None}
    BY <1>2, <1>7 DEF OnDelete, RunCleanup, Crash, Restart, Cleaned, tables
  <2>3. Tracked' \subseteq Tracked
    BY <2>2 DEF Tracked
  <2> QED
    BY <1>1, <1>2, <2>1, <2>3
<1>8. ASSUME NEW p \in PRs, GitHubChanges(p) PROVE TrackedInv'
  <2>1. UNCHANGED <<message, posted>>
    BY <1>8, GitHubOutside DEF Outside, tables
  <2> QED
    BY <1>1, <1>2, <1>4, <2>1
<1>9. ASSUME \/ \E links \in Links : PostMessage(links) \/ \E m \in Messages : EditMessage(m, links)
             \/ \E m \in Messages : DeleteMessage(m) \/ GrowOld(m)
      PROVE  TrackedInv'
  <2>1. UsersView
    BY <1>9, UsersViewed
  <2> QED
    BY <1>1, <1>4, <2>1 DEF UsersView
<1>10. CASE UNCHANGED vars
  BY <1>1, <1>2, <1>4, <1>10 DEF vars, env, tables
<1> QED
  BY <1>5, <1>6, <1>7, <1>8, <1>9, <1>10 DEF Next
-----------------------------------------------------------------------------
(* What a handler that starts alone leaves to do. *)

LEMMA Started ==
    ASSUME TasksOK, NEW t \in Handlers, \A u \in Tasks : task[u] = <<>>, NEW ops \in Seq(OpSet),
           task' = [task EXCEPT ![t] = ops], \A i \in DOMAIN ops : ops[i].op \notin Looking, Knows(t)',
           \A m \in Shown' : Fits(m)' \/ \E i \in DOMAIN ops : Redoes(ops[i], m)'
    PROVE  Covered' /\ \A u \in Handlers : Keen(u)' /\ Knows(u)'
<1>1. t \in Tasks /\ task'[t] = ops /\ \A u \in Tasks : u # t => task'[u] = <<>>
  BY DEF Tasks, TasksOK
<1>2. Covered'
  BY <1>1 DEF Covered, Serves
<1>3. Keen(t)'
  <2>1. ASSUME ops # <<>>
        PROVE  Op(t)' = ops[1] /\ 1 \in DOMAIN ops
    BY <1>1, <2>1 DEF Op
  <2> QED
    BY <1>1, <2>1 DEF Keen
<1>4. ASSUME NEW u \in Handlers, u # t
      PROVE  Keen(u)' /\ Knows(u)'
  <2>1. task'[u] = <<>>
    BY <1>1, <1>4 DEF Tasks
  <2> QED
    BY <2>1 DEF Keen, Knows
<1> QED
  BY <1>2, <1>3, <1>4

LEMMA KnowsNothing ==
    ASSUME TasksOK, NEW t \in Handlers, NEW ops \in Seq(OpSet), task' = [task EXCEPT ![t] = ops],
           \A i \in DOMAIN ops : ops[i].op \notin {"threads", "rethread", "recheck"}
    PROVE  Knows(t)'
<1>1. task'[t] = ops
  BY DEF Tasks, TasksOK
<1>2. ASSUME ops # <<>>
      PROVE  Op(t)' = ops[1] /\ 1 \in DOMAIN ops
  BY <1>1, <1>2 DEF Op
<1> QED
  BY <1>1, <1>2 DEF Knows

(* A column that says nothing of the PR's end is stored. *)
LEMMA ColumnFits ==
    ASSUME TablesOK, NEW p \in PRs, NEW r \in Row, r.life = RowOr(p).life, row' = [row EXCEPT ![p] = r],
           UNCHANGED <<message, reactions>>, NEW m \in Shown, Fits(m)
    PROVE  Fits(m)' \/ (p \in message[m].links /\ ~message[m].done)
<1>1. CASE \A q \in message[m].links : row'[q] = row[q]
  BY <1>1, StillFits
<1>2. CASE p \in message[m].links /\ \A q \in message[m].links : row'[q] # None /\ row'[q].life = row[q].life
  <2>1. CASE message[m].done
    BY <1>2, <2>1, DoneFits
  <2> QED
    BY <1>2, <2>1
<1> QED
  BY <1>1, <1>2, ColumnSet

(* The handlers of the events that change a row. *)
LEMMA NoticeShows ==
    ASSUME Typed, NEW t \in Handlers, \A u \in Tasks : task[u] = <<>>, \A m \in Shown : Fits(m),
           NEW p \in PRs, NEW r \in Row, row' = [row EXCEPT ![p] = r],
           UNCHANGED <<message, reactions, content, old>>,
           NEW asks \in Seq(OpSet), NEW transitions \in SUBSET Transitions,
           asks = <<>> \/ \E known \in BOOLEAN : asks = <<Await("threads", p, known)>>,
           task' = [task EXCEPT ![t] = asks \o <<Notify(p, transitions)>>],
           r.life = RowOr(p).life \/ transitions \cap Terminal # {}
    PROVE  Covered' /\ \A u \in Handlers : Keen(u)' /\ Knows(u)'
<1>1. TasksOK /\ TablesOK
  BY DEF Typed
<1>2. PICK n \in OpSet : n = Notify(p, transitions)
  <2>1. Notify(p, transitions) \in Notices
    BY DEF Notify, Notices
  <2> QED
    BY <2>1 DEF OpSet
<1>3. n.op = "notify" /\ n.pr = p /\ n.transitions = transitions
  BY <1>2 DEF Notify
<1>4. PICK last \in Seq(OpSet) : last = <<n>> /\ Len(last) = 1 /\ DOMAIN last = {1} /\ last[1] = n
  BY OneOp
<1>5. PICK ops \in Seq(OpSet) : ops = asks \o last
  BY BothAre
<1>6. task' = [task EXCEPT ![t] = ops]
  BY <1>2, <1>4, <1>5
<1>7. /\ \E i \in DOMAIN ops : ops[i] = n
      /\ \A i \in DOMAIN ops : ops[i].op \in {"threads", "notify"} /\ ops[i].pr = p
  <2>1. CASE asks = <<>>
    <3>1. ops = last
      BY <1>4, <1>5, <2>1, ConcatEmptySeq
    <3> QED
      BY <1>3, <1>4, <3>1
  <2>2. CASE \E known \in BOOLEAN : asks = <<Await("threads", p, known)>>
    <3>1. PICK known \in BOOLEAN : asks = <<Await("threads", p, known)>>
      BY <2>2
    <3>2. PICK x : x = Await("threads", p, known)
      OBVIOUS
    <3>3. x.op = "threads" /\ x.pr = p
      BY <3>2 DEF Await
    <3>4. asks = <<x>> /\ last = <<n>>
      BY <1>4, <3>1, <3>2
    <3>5. Len(asks) = 1 /\ asks[1] = x
      BY <3>4
    <3>6. DOMAIN ops = 1..2 /\ \A i \in 1..2 : ops[i] = IF i <= 1 THEN asks[i] ELSE last[i - 1]
      <4>1. /\ DOMAIN ops = 1..(Len(asks) + Len(last))
            /\ \A i \in 1..(Len(asks) + Len(last)) : ops[i] = IF i <= Len(asks) THEN asks[i] ELSE last[i - Len(asks)]
        BY <1>5, BothAre
      <4>2. Len(asks) + Len(last) = 2
        BY <1>4, <3>5
      <4> QED
        BY <3>5, <4>1, <4>2
    <3>7. 1 \in 1..2 /\ 2 \in 1..2 /\ \A i \in 1..2 : i = 1 \/ i = 2
      OBVIOUS
    <3>8. ops[1] = x /\ ops[2] = n
      BY <1>4, <3>5, <3>6, <3>7
    <3> QED
      BY <1>3, <3>3, <3>6, <3>7, <3>8
  <2> QED
    BY <2>1, <2>2
<1>8. \A i \in DOMAIN ops : ops[i].op \notin Looking
  BY <1>7 DEF Looking
<1>9. Knows(t)'
  <2>1. task'[t] = ops
    BY <1>1, <1>6 DEF TasksOK, Tasks
  <2>2. ASSUME ops # <<>> PROVE Op(t)' = ops[1] /\ 1 \in DOMAIN ops
    BY <2>1, <2>2 DEF Op
  <2> QED
    BY <1>3, <1>7, <2>1, <2>2 DEF Knows
<1>10. ASSUME NEW m \in Shown'
       PROVE  Fits(m)' \/ \E i \in DOMAIN ops : Redoes(ops[i], m)'
  <2>1. m \in Shown /\ Fits(m)
    BY <1>10, SameShown
  <2>2. p \in message[m].links /\ (transitions \cap Terminal # {} \/ ~message[m].done) => Redoes(n, m)'
    BY <1>3 DEF Redoes
  <2>3. CASE r.life = RowOr(p).life
    BY <1>1, <1>7, <2>1, <2>2, <2>3, ColumnFits
  <2>4. CASE transitions \cap Terminal # {}
    <3>1. CASE p \in message[m].links
      BY <1>7, <2>2, <2>4, <3>1
    <3>2. CASE p \notin message[m].links
      <4>1. \A q \in message[m].links : row'[q] = row[q]
        BY <1>1, <2>1, <3>2, ShownFields DEF TablesOK
      <4> QED
        BY <2>1, <4>1, StillFits
    <3> QED
      BY <3>1, <3>2
  <2> QED
    BY <2>3, <2>4
<1> QED
  BY <1>1, <1>6, <1>8, <1>9, <1>10, Started

LEMMA ReviewShows ==
    ASSUME Typed, NEW t \in Handlers, \A u \in Tasks : task[u] = <<>>, \A m \in Shown : Fits(m),
           NEW i, HandleReview(t, i)
    PROVE  Covered' /\ \A u \in Handlers : Keen(u)' /\ Knows(u)'
<1>1. PICK e \in Events : e = webhooks[i] /\ e.kind = "review" /\ UNCHANGED <<message, reactions, content, old>>
  BY DeliversTyped DEF HandleReview, Typed
<1>2. PICK p \in PRs : p = e.pr
  BY <1>1, EventFields
<1>3. PICK was \in Row : was = RowOr(p)
  BY RowOrTyped DEF Typed
<1>4. e.review \in Reviews /\ was.review \in Statuses /\ was.resolved \in BOOLEAN
  BY <1>1, EventFields DEF Row
<1>5. PICK status \in Statuses : status = Reviewed(was.review, e.review)
  BY <1>4, ReviewedTyped
<1>6. PICK r : r = [was EXCEPT !.review = status]
  OBVIOUS
<1>7. r \in Row /\ r.life = was.life
  BY <1>6 DEF Row
<1>8. PICK transitions : transitions = IF status \notin {was.review, "none"} THEN {status} ELSE {}
  OBVIOUS
<1>9. transitions \in SUBSET Transitions
  BY <1>8 DEF Transitions, ReviewTransitions
<1>10. PICK asks : asks = IF e.review \in {"approved", "dismissed"} THEN <<>> ELSE <<Await("threads", p, was.resolved)>>
  OBVIOUS
<1>11. asks = <<>> \/ \E known \in BOOLEAN : asks = <<Await("threads", p, known)>>
  BY <1>4, <1>10
<1>12. asks \in Seq(OpSet)
  <2>1. CASE asks = <<>>
    BY <2>1, NoOps
  <2>2. ASSUME NEW known \in BOOLEAN, asks = <<Await("threads", p, known)>>
        PROVE  asks \in Seq(OpSet)
    <3>1. Await("threads", p, known) \in OpSet
      BY AwaitGiven DEF Given
    <3> QED
      BY <2>2, <3>1, OneOp
  <2> QED
    BY <1>11, <2>1, <2>2
<1>13. row' = [row EXCEPT ![p] = r] /\ task' = [task EXCEPT ![t] = asks \o <<Notify(p, transitions)>>]
  BY <1>1, <1>2, <1>3, <1>5, <1>6, <1>8, <1>10 DEF HandleReview, Starts
<1> QED
  BY <1>1, <1>3, <1>7, <1>9, <1>11, <1>12, <1>13, NoticeShows

(* An end that is no news leaves the row as it is: a PR that was merged is *)
(* never reported closed.                                                  *)
LEMMA CloseShows ==
    ASSUME Typed, RowsInv, MergedInv, trust = "whole",
           NEW t \in Handlers, \A u \in Tasks : task[u] = <<>>, \A m \in Shown : Fits(m),
           NEW i, HandleClose(t, i)
    PROVE  Covered' /\ \A u \in Handlers : Keen(u)' /\ Knows(u)'
<1>1. PICK e \in Events : e = webhooks[i] /\ e.kind = "close" /\ UNCHANGED <<message, reactions, content, old>>
  BY DeliversTyped DEF HandleClose, Typed
<1>2. PICK p \in PRs : p = e.pr
  BY <1>1, EventFields
<1>3. PICK was \in Row : was = RowOr(p)
  BY RowOrTyped DEF Typed
<1>4. e.life \in Terminal /\ was.life \in Lives
  BY <1>1, EventFields DEF Row
<1>5. PICK r : r = [was EXCEPT !.life = e.life]
  OBVIOUS
<1>6. r \in Row /\ r.life = e.life
  BY <1>4, <1>5 DEF Row, Terminal, Lives
<1>7. PICK changed : changed = IF e.life = "merged" THEN was.life # "merged" ELSE was.life = "open"
  OBVIOUS
<1>8. PICK transitions : transitions = IF changed THEN {e.life} ELSE {}
  OBVIOUS
<1>9. transitions \in SUBSET Transitions
  BY <1>4, <1>8 DEF Transitions
<1>10. row' = [row EXCEPT ![p] = r] /\ task' = [task EXCEPT ![t] = <<Notify(p, transitions)>>]
  BY <1>1, <1>2, <1>3, <1>5, <1>7, <1>8 DEF HandleClose, Starts
<1>11. r.life = was.life \/ transitions \cap Terminal # {}
  <2>1. CASE changed
    BY <1>4, <1>8, <2>1
  <2>2. CASE ~changed
    <3>1. e.life = "merged" => was.life = "merged"
      BY <1>7, <2>2
    <3>2. e.life = "closed" => was.life # "open"
      BY <1>7, <2>2
    <3>3. was.life = "merged" => e.life = "merged"
      <4>1. i \in DOMAIN webhooks
        BY DEF HandleClose, Delivers
      <4>2. e.life = github[p].life
        BY <1>1, <1>2, <4>1 DEF RowsInv, Sent, LifeSent, About, Truth
      <4>3. was.life = "merged" => github[p].life = "merged"
        BY <1>3 DEF MergedInv, MergedRows, Merges
      <4> QED
        BY <4>2, <4>3
    <3> QED
      BY <1>4, <1>6, <3>1, <3>2, <3>3 DEF Terminal, Lives
  <2> QED
    BY <2>1, <2>2
<1>12. PICK asks \in Seq(OpSet) : asks = <<>>
  BY NoOps
<1>13. task' = [task EXCEPT ![t] = asks \o <<Notify(p, transitions)>>]
  <2>1. PICK n : n = Notify(p, transitions)
    OBVIOUS
  <2>2. <<>> \o <<n>> = <<n>>
    OBVIOUS
  <2> QED
    BY <1>10, <1>12, <2>1, <2>2
<1>14. asks = <<>> \/ \E known \in BOOLEAN : asks = <<Await("threads", p, known)>>
  BY <1>12
<1>15. r.life = RowOr(p).life \/ transitions \cap Terminal # {}
  BY <1>3, <1>11
<1>16. row' = [row EXCEPT ![p] = r] /\ UNCHANGED <<message, reactions, content, old>>
  BY <1>1, <1>10
<1>17. r \in Row /\ transitions \in SUBSET Transitions
  BY <1>6, <1>9
<1> QED
  BY <1>13, <1>14, <1>15, <1>16, <1>17, NoticeShows

(* The handlers of the other events leave the rows alone.                  *)
LEMMA QuietShows ==
    ASSUME Typed, NEW t \in Handlers, \A u \in Tasks : task[u] = <<>>, \A m \in Shown : Fits(m),
           UNCHANGED <<row, message, reactions, content, old>>,
           NEW ops \in Seq(OpSet), task' = [task EXCEPT ![t] = ops], \A i \in DOMAIN ops : ops[i].op \notin Looking,
           Knows(t)'
    PROVE  Covered' /\ \A u \in Handlers : Keen(u)' /\ Knows(u)'
<1>1. TasksOK /\ Shown' = Shown
  BY SameShown DEF Typed
<1>2. \A m \in Shown' : Fits(m)'
  BY <1>1, StillFits
<1> QED
  BY <1>1, <1>2, Started

LEMMA OneShows ==
    ASSUME Typed, NEW t \in Handlers, \A u \in Tasks : task[u] = <<>>, \A m \in Shown : Fits(m),
           UNCHANGED <<row, message, reactions, content, old>>,
           NEW x \in OpSet, task' = [task EXCEPT ![t] = <<x>>], x.op \notin Looking \cup {"threads"},
           x.op = "rethread" => x.known = NotDone(MessagesFor(x.pr)),
           x.op = "recheck" => x.known.messages = NotDone(MessagesFor(x.pr))
    PROVE  Covered' /\ \A u \in Handlers : Keen(u)' /\ Knows(u)'
<1>1. PICK ops \in Seq(OpSet) : ops = <<x>> /\ DOMAIN ops = {1} /\ ops[1] = x
  BY OneOp
<1>2. task' = [task EXCEPT ![t] = ops]
  BY <1>1
<1>3. Knows(t)'
  <2>1. task'[t] = ops
    BY <1>2 DEF Typed, TasksOK, Tasks
  <2>2. Op(t)' = x
    BY <1>1, <2>1 DEF Op
  <2>3. PICK ms : ms = NotDone(MessagesFor(x.pr))
    OBVIOUS
  <2>4. NotDone(MessagesFor(x.pr))' = ms
    BY <2>3 DEF NotDone, MessagesFor, Tracked
  <2> QED
    BY <2>2, <2>3, <2>4 DEF Knows
<1>4. \A i \in DOMAIN ops : ops[i].op \notin Looking
  BY <1>1
<1> QED
  BY <1>2, <1>3, <1>4, QuietShows

LEMMA NoneShows ==
    ASSUME Typed, NEW t \in Handlers, \A u \in Tasks : task[u] = <<>>, \A m \in Shown : Fits(m),
           UNCHANGED <<row, message, reactions, content, old>>, task' = [task EXCEPT ![t] = <<>>]
    PROVE  Covered' /\ \A u \in Handlers : Keen(u)' /\ Knows(u)'
<1>1. PICK ops \in Seq(OpSet) : ops = <<>> /\ DOMAIN ops = {}
  BY NoOps
<1>2. task' = [task EXCEPT ![t] = ops] /\ TasksOK
  BY <1>1 DEF Typed
<1>3. Knows(t)'
  BY <1>1, <1>2, KnowsNothing
<1> QED
  BY <1>1, <1>2, <1>3, QuietShows

LEMMA ThreadShows ==
    ASSUME Typed, NEW t \in Handlers, \A u \in Tasks : task[u] = <<>>, \A m \in Shown : Fits(m),
           NEW i, HandleThread(t, i)
    PROVE  Covered' /\ \A u \in Handlers : Keen(u)' /\ Knows(u)'
<1>1. PICK e \in Events : e = webhooks[i] /\ e.kind = "thread" /\ UNCHANGED <<message, reactions, content, old>>
  BY DeliversTyped DEF HandleThread, Typed
<1>2. PICK p \in PRs : p = e.pr
  BY <1>1, EventFields
<1>3. PICK ms \in SUBSET Messages : ms = NotDone(MessagesFor(p))
  BY MessagesOfPR
<1>4. PICK x : x = Await("rethread", p, ms)
  OBVIOUS
<1>5. x \in OpSet /\ x.op = "rethread" /\ x.pr = p /\ x.known = ms
  BY <1>4, AwaitGiven DEF Given, Await
<1>6. UNCHANGED <<row, message, reactions, content, old>>
  BY <1>1 DEF HandleThread
<1>7. task' = [task EXCEPT ![t] = <<>>] \/ task' = [task EXCEPT ![t] = <<x>>]
  BY <1>1, <1>2, <1>3, <1>4 DEF HandleThread, Starts
<1>8. CASE task' = [task EXCEPT ![t] = <<>>]
  BY <1>6, <1>8, NoneShows
<1>9. CASE task' = [task EXCEPT ![t] = <<x>>]
  <2>1. x.op \notin Looking \cup {"threads"} /\ (x.op = "recheck" => x.known.messages = NotDone(MessagesFor(x.pr)))
    BY <1>5 DEF Looking
  <2>2. x.op = "rethread" => x.known = NotDone(MessagesFor(x.pr))
    BY <1>3, <1>5
  <2>3. x \in OpSet
    BY <1>5
  <2> QED
    BY <1>6, <1>9, <2>1, <2>2, <2>3, OneShows
<1> QED
  BY <1>7, <1>8, <1>9

LEMMA CheckShows ==
    ASSUME Typed, NEW t \in Handlers, \A u \in Tasks : task[u] = <<>>, \A m \in Shown : Fits(m),
           NEW i, HandleCheck(t, i)
    PROVE  Covered' /\ \A u \in Handlers : Keen(u)' /\ Knows(u)'
<1>1. PICK e \in Events : e = webhooks[i] /\ e.kind = "check" /\ UNCHANGED <<message, reactions, content, old>>
  BY DeliversTyped DEF HandleCheck, Typed
<1>2. PICK p \in PRs, failing \in BOOLEAN : p = e.pr /\ failing = e.failing
  BY <1>1, EventFields
<1>3. PICK ms \in SUBSET Messages : ms = NotDone(MessagesFor(p))
  BY MessagesOfPR
<1>4. PICK x : x = Await("recheck", p, [messages |-> ms, failing |-> failing])
  OBVIOUS
<1>5. x \in OpSet /\ x.op = "recheck" /\ x.pr = p /\ x.known.messages = ms
  BY <1>4, AwaitGiven DEF Given, Await
<1>6. UNCHANGED <<row, message, reactions, content, old>>
  BY <1>1 DEF HandleCheck
<1>7. task' = [task EXCEPT ![t] = <<>>] \/ task' = [task EXCEPT ![t] = <<x>>]
  BY <1>1, <1>2, <1>3, <1>4 DEF HandleCheck, Starts
<1>8. CASE task' = [task EXCEPT ![t] = <<>>]
  BY <1>6, <1>8, NoneShows
<1>9. CASE task' = [task EXCEPT ![t] = <<x>>]
  <2>1. x.op \notin Looking \cup {"threads"} /\ (x.op = "rethread" => x.known = NotDone(MessagesFor(x.pr)))
    BY <1>5 DEF Looking
  <2>2. x.op = "recheck" => x.known.messages = NotDone(MessagesFor(x.pr))
    BY <1>3, <1>5
  <2>3. x \in OpSet
    BY <1>5
  <2> QED
    BY <1>6, <1>9, <2>1, <2>2, <2>3, OneShows
<1> QED
  BY <1>7, <1>8, <1>9

LEMMA LabelShows ==
    ASSUME Typed, NEW t \in Handlers, \A u \in Tasks : task[u] = <<>>, \A m \in Shown : Fits(m),
           NEW i, HandleLabel(t, i)
    PROVE  Covered' /\ \A u \in Handlers : Keen(u)' /\ Knows(u)'
<1>1. PICK e \in Events : e = webhooks[i] /\ e.kind = "label" /\ UNCHANGED <<message, reactions, content, old>>
  BY DeliversTyped DEF HandleLabel, Typed
<1>2. PICK p \in PRs, ready \in BOOLEAN : p = e.pr /\ ready = e.ready
  BY <1>1, EventFields
<1>3. PICK post, free, ask, labels :
        /\ post = [op |-> "post", pr |-> p, tracked |-> FALSE] /\ free = [op |-> "unguard", pr |-> p]
        /\ ask = Await("author", p, None) /\ labels = [op |-> "labels", pr |-> p, ready |-> ready]
  OBVIOUS
<1>4. post \in PostOps /\ free \in PrOps /\ labels \in LabelOps /\ ask \in Fetches
  BY <1>2, <1>3 DEF LabelOps, PostOps, PrOps, Fetches, Await, Answers
<1>5. post \in OpSet /\ free \in OpSet /\ labels \in OpSet /\ ask \in OpSet
  BY <1>4 DEF OpSet
<1>6. post.op = "post" /\ free.op = "unguard" /\ labels.op = "labels" /\ ask.op = "author"
  BY <1>3 DEF Await
<1>7. UNCHANGED <<row, message, reactions, content, old>>
  BY <1>1 DEF HandleLabel
<1>8. \/ task' = [task EXCEPT ![t] = <<post, free, labels>>]
      \/ task' = [task EXCEPT ![t] = <<ask, labels>>]
      \/ task' = [task EXCEPT ![t] = <<labels>>]
  <2>1. Starts(t, <<labels>>) \/ Starts(t, <<post, free>> \o <<labels>>) \/ Starts(t, <<ask>> \o <<labels>>)
    BY <1>1, <1>2, <1>3 DEF HandleLabel, Posts
  <2>2. <<post, free>> \o <<labels>> = <<post, free, labels>> /\ <<ask>> \o <<labels>> = <<ask, labels>>
    BY TwoOps, ThreeOps
  <2> QED
    BY <2>1, <2>2 DEF Starts
<1>9. CASE task' = [task EXCEPT ![t] = <<labels>>]
  BY <1>5, <1>6, <1>7, <1>9, OneShows DEF Looking
<1>10. ASSUME NEW ops \in {<<post, free, labels>>, <<ask, labels>>}, task' = [task EXCEPT ![t] = ops]
       PROVE  Covered' /\ \A u \in Handlers : Keen(u)' /\ Knows(u)'
  <2>1. ops \in Seq(OpSet) /\ \A j \in DOMAIN ops : ops[j] \in {post, free, ask, labels}
    <3>1. CASE ops = <<post, free, labels>>
      BY <1>5, <3>1
    <3>2. CASE ops = <<ask, labels>>
      BY <1>5, <3>2
    <3> QED
      BY <1>10, <3>1, <3>2
  <2>2. \A j \in DOMAIN ops : ops[j].op \notin Looking /\ ops[j].op \notin {"threads", "rethread", "recheck"}
    BY <1>6, <2>1 DEF Looking
  <2>3. Knows(t)'
    BY <1>10, <2>1, <2>2, KnowsNothing DEF Typed
  <2> QED
    BY <1>7, <1>10, <2>1, <2>2, <2>3, QuietShows
<1> QED
  BY <1>8, <1>9, <1>10

(* A message is posted, edited or asked for again.                         *)
LEMMA PostShows ==
    ASSUME Typed, NEW t \in Handlers, \A u \in Tasks : task[u] = <<>>, \A m \in Shown : Fits(m), OnMessage(t)
    PROVE  Covered' /\ \A u \in Handlers : Keen(u)' /\ Knows(u)'
<1>1. PICK e \in PostEvents : e = Head(gateway)
  <2>1. gateway \in Seq(GatewayEvents) /\ gateway # <<>> /\ Head(gateway).kind = "post"
    BY DEF Typed, QueuesOK, OnMessage, TakesEvent
  <2>2. Head(gateway) \in GatewayEvents
    BY <2>1
  <2> QED
    BY <2>1, <2>2 DEF GatewayEvents
<1>2. PICK m \in Messages, links \in SUBSET PRs : m = e.message /\ links = e.links
  BY <1>1 DEF PostEvents
<1>3. PICK ops \in Seq(OpSet) : /\ ops = IngestOps(m, links) /\ \E i \in DOMAIN ops : Redoes(ops[i], m)
                               /\ Only(ops, {"state", "reconcile"}) /\ \E i \in DOMAIN ops : ops[i] = Reconcile(m)
  <2>1. PICK x \in OpSet : x = Reconcile(m) /\ x.op = "reconcile"
    BY GivenOps DEF Given, Reconcile
  <2>2. <<x>> \in Seq(OpSet) /\ Only(<<x>>, {"state", "reconcile"})
    BY <2>1, OneOp
  <2>3. States(links) \in Seq(OpSet) /\ Only(States(links), {"state", "reconcile"})
    BY StatesAre DEF Only
  <2>4. Only(States(links) \o <<x>>, {"state", "reconcile"})
    BY <2>2, <2>3, OnlyBoth
  <2>5. IngestOps(m, links) = States(links) \o <<x>>
    BY <2>1 DEF IngestOps
  <2> QED
    BY <2>4, <2>5, IngestRedoes
<1>4. task' = [task EXCEPT ![t] = ops] /\ UNCHANGED <<row, reactions, content, old>>
  BY <1>1, <1>2, <1>3 DEF OnMessage, Starts, TakesEvent, env
<1>5. \E entry : message' = [message EXCEPT ![m] = entry]
  BY <1>1, <1>2 DEF OnMessage, Stored
<1>6. TasksOK /\ message \in [Messages -> Entries \cup {None}]
  BY DEF Typed, TablesOK
<1>7. \A j \in DOMAIN ops : ops[j].op \notin Looking /\ ops[j].op \notin {"threads", "rethread", "recheck"}
  BY <1>3 DEF Only, Looking
<1>8. Knows(t)'
  BY <1>4, <1>6, <1>7, KnowsNothing
<1>9. ASSUME NEW n \in Shown'
      PROVE  Fits(n)' \/ \E i \in DOMAIN ops : Redoes(ops[i], n)'
  <2>1. CASE n = m
    <3>1. PICK i \in DOMAIN ops : ops[i] = Reconcile(m)
      BY <1>3
    <3>2. PICK x : x = Reconcile(m)
      OBVIOUS
    <3>3. Redoes(x, n)'
      BY <2>1, <3>2 DEF Redoes, Reconcile
    <3> QED
      BY <3>1, <3>2, <3>3
  <2>2. CASE n # m
    <3>1. message'[n] = message[n]
      BY <1>5, <2>2
    <3>2. n \in Shown
      BY <1>4, <1>9, <3>1 DEF Shown, Tracked
    <3> QED
      BY <1>4, <3>1, <3>2, StillFits
  <2> QED
    BY <2>1, <2>2
<1> QED
  BY <1>4, <1>6, <1>7, <1>8, <1>9, Started

LEMMA RereadShows ==
    ASSUME Typed, NEW t \in Handlers, \A u \in Tasks : task[u] = <<>>, \A m \in Shown : Fits(m),
           NEW m \in Messages, Rereads(t, m), UNCHANGED <<row, message, reactions, content, old>>
    PROVE  Covered' /\ \A u \in Handlers : Keen(u)' /\ Knows(u)'
<1>1. PICK x \in OpSet : x = [op |-> "reread", message |-> m]
  BY GivenOps DEF Given
<1>2. x.op = "reread" /\ task' = [task EXCEPT ![t] = <<x>>]
  BY <1>1 DEF Rereads, Starts
<1> QED
  BY <1>2, OneShows DEF Looking

LEMMA EditShows ==
    ASSUME Typed, NEW t \in Handlers, \A u \in Tasks : task[u] = <<>>, \A m \in Shown : Fits(m),
           OnEdit(t) \/ \E m \in Messages : Resync(t, m)
    PROVE  Covered' /\ \A u \in Handlers : Keen(u)' /\ Knows(u)'
<1>1. CASE OnEdit(t)
  <2>1. gateway \in Seq(GatewayEvents) /\ gateway # <<>>
    BY <1>1 DEF Typed, QueuesOK, OnEdit, TakesEvent
  <2>2. PICK m \in Messages : m = Head(gateway).message
    BY <2>1 DEF GatewayEvents, PostEvents
  <2>3. Rereads(t, m) /\ UNCHANGED <<row, message, reactions, content, old>>
    BY <1>1, <2>2 DEF OnEdit, TakesEvent, env, tables
  <2> QED
    BY <2>3, RereadShows
<1>2. ASSUME NEW m \in Messages, Resync(t, m)
      PROVE  Covered' /\ \A u \in Handlers : Keen(u)' /\ Knows(u)'
  <2>1. Rereads(t, m) /\ UNCHANGED <<row, message, reactions, content, old>>
    BY <1>2 DEF Resync, env, tables
  <2> QED
    BY <2>1, RereadShows
<1> QED
  BY <1>1, <1>2

(* A handler that starts alone, while nothing goes wrong. *)
LEMMA ReceiveShow ==
    ASSUME Typed, TrustInv, ShapeInv, RowsInv, MergedInv, ShowInv, NEW t \in Handlers, Receive(t), trust' # "broken"
    PROVE  ShowInv' /\ SweptInv'
<1>1. trust = "whole" /\ Alone /\ trust' = "whole"
  BY ReceiveTrust DEF Moves
<1>2. SweptInv'
  BY <1>1 DEF SweptInv
<1>3. \A u \in Tasks : task[u] = <<>>
  BY <1>1 DEF Alone, Idle
<1>4. \A m \in Shown : Fits(m)
  BY <1>1, <1>3 DEF ShowInv, Covered, Serves
<1>5. Covered' /\ \A u \in Handlers : Keen(u)' /\ Knows(u)'
  <2>1. ASSUME NEW i, HandleReview(t, i) PROVE Covered' /\ \A u \in Handlers : Keen(u)' /\ Knows(u)'
    BY <1>3, <1>4, <2>1, ReviewShows
  <2>2. ASSUME NEW i, HandleClose(t, i) PROVE Covered' /\ \A u \in Handlers : Keen(u)' /\ Knows(u)'
    BY <1>1, <1>3, <1>4, <2>2, CloseShows
  <2>3. ASSUME NEW i, HandleThread(t, i) PROVE Covered' /\ \A u \in Handlers : Keen(u)' /\ Knows(u)'
    BY <1>3, <1>4, <2>3, ThreadShows
  <2>4. ASSUME NEW i, HandleCheck(t, i) PROVE Covered' /\ \A u \in Handlers : Keen(u)' /\ Knows(u)'
    BY <1>3, <1>4, <2>4, CheckShows
  <2>5. ASSUME NEW i, HandleLabel(t, i) PROVE Covered' /\ \A u \in Handlers : Keen(u)' /\ Knows(u)'
    BY <1>3, <1>4, <2>5, LabelShows
  <2>6. CASE OnMessage(t)
    BY <1>3, <1>4, <2>6, PostShows
  <2>7. CASE OnEdit(t) \/ \E m \in Messages : Resync(t, m)
    BY <1>3, <1>4, <2>7, EditShows
  <2> QED
    BY <2>1, <2>2, <2>3, <2>4, <2>5, <2>6, <2>7 DEF Receive
<1> QED
  BY <1>2, <1>5 DEF ShowInv
-----------------------------------------------------------------------------
(* What happens around the bot.                                            *)
LEMMA AsideShows ==
    ASSUME ShowInv, SweptInv, UNCHANGED <<row, message, task>>, trust' \in {trust, "broken"}, Shown' \subseteq Shown,
           \A m \in Shown' : reactions'[m] = reactions[m]
    PROVE  ShowInv' /\ SweptInv'
<1>1. ASSUME Covered PROVE Covered'
  <2>1. SUFFICES ASSUME NEW m \in Shown' PROVE Fits(m)' \/ \E t \in Tasks : Serves(t, m)'
    BY DEF Covered
  <2>2. CASE Fits(m)
    BY <2>1, <2>2, StillFits
  <2>3. ASSUME NEW t \in Tasks, Serves(t, m) PROVE Serves(t, m)'
    BY <2>3 DEF Serves, Redoes
  <2> QED
    BY <1>1, <2>1, <2>2, <2>3 DEF Covered
<1>2. ASSUME NEW t, Keen(t) PROVE Keen(t)'
  <2>1. PICK o : o = Op(t)
    OBVIOUS
  <2>2. Op(t)' = o
    BY <2>1 DEF Op
  <2>3. ASSUME NEW m \in Shown', Corrects(o, m) PROVE Corrects(o, m)'
    <3>1. RowsOf(m)' = RowsOf(m)
      BY SameRows
    <3>2. PICK rows : rows = RowsOf(m)
      OBVIOUS
    <3>3. Mark(rows, m)' = Mark(rows, m)
      BY DEF Mark
    <3>4. reactions'[m] = reactions[m]
      BY <2>3
    <3>5. PICK mark : mark = Mark(rows, m)
      OBVIOUS
    <3> QED
      BY <2>3, <3>1, <3>2, <3>3, <3>4, <3>5 DEF Corrects
  <2>4. \A i \in DOMAIN task'[t] : task'[t][i].op \in Looking => i = 1
    BY <1>2 DEF Keen
  <2>5. task[t] # <<>> /\ o.op \in Looking /\ o.message \in Shown => Corrects(o, o.message)
    BY <1>2, <2>1 DEF Keen
  <2>6. task'[t] # <<>> /\ o.op \in Looking /\ o.message \in Shown' => Corrects(o, o.message)'
    <3>1. SUFFICES ASSUME task'[t] # <<>>, o.op \in Looking, o.message \in Shown' PROVE Corrects(o, o.message)'
      OBVIOUS
    <3>2. PICK m \in Shown' : m = o.message
      BY <3>1
    <3>3. Corrects(o, m)
      BY <2>5, <3>1, <3>2
    <3>4. Corrects(o, m)'
      BY <2>3, <3>3
    <3> QED
      BY <3>2, <3>4
  <2> QED
    BY <2>2, <2>4, <2>6 DEF Keen
<1>3. ASSUME NEW t, Knows(t) PROVE Knows(t)'
  BY <1>3 DEF Knows, Op, NotDone, MessagesFor, Tracked
<1>4. ShowInv'
  BY <1>1, <1>2, <1>3 DEF ShowInv
<1>5. SweptInv'
  BY <1>1, <1>2 DEF SweptInv, Only
<1> QED
  BY <1>4, <1>5

LEMMA GitHubShows ==
    ASSUME Typed, ShowInv, SweptInv, NEW p \in PRs, GitHubChanges(p)
    PROVE  ShowInv' /\ SweptInv'
<1>1. UNCHANGED <<row, message, task, content, old, reactions>> /\ trust' \in {trust, "broken"}
  BY DEF GitHubChanges, SubmitReview, DismissReview, ClosePr, ReopenPr, ChangeLabels, CompleteChecks, ResolveThreads,
         Changed, tables
<1>2. Shown' = Shown
  BY <1>1, SameShown
<1> QED
  BY <1>1, <1>2, AsideShows

LEMMA UsersShow ==
    ASSUME Typed, TrackedInv, ShowInv, SweptInv,
           \/ \E links \in Links : PostMessage(links) \/ \E m \in Messages : EditMessage(m, links)
           \/ \E m \in Messages : DeleteMessage(m) \/ GrowOld(m)
    PROVE  ShowInv' /\ SweptInv'
<1>1. UNCHANGED <<row, message, task, trust>>
  <2>1. UserActs => UNCHANGED message
    BY DEF UserActs, tables
  <2> QED
    BY <2>1, UsersAside DEF PostMessage, EditMessage, DeleteMessage, GrowOld
<1>2. ASSUME NEW m \in Shown' PROVE m \in Shown /\ reactions'[m] = reactions[m]
  <2>1. /\ m \in Messages /\ m \in Tracked /\ m \notin old' /\ content'[m] # None
        /\ content \in [Messages -> (SUBSET PRs) \cup {None}] /\ posted \in Int
    BY <1>1 DEF Shown, Tracked, Typed, ChannelOK
  <2>2. m <= posted /\ m \in Int
    BY <2>1 DEF TrackedInv, Messages
  <2>3. ASSUME NEW links \in Links, PostMessage(links) PROVE m \notin old /\ content[m] # None /\ reactions'[m] = reactions[m]
    <3>1. m # posted + 1
      BY <2>1, <2>2
    <3> QED
      BY <2>1, <2>3, <3>1 DEF PostMessage
  <2>4. ASSUME NEW links \in Links, NEW n \in Messages, EditMessage(n, links)
        PROVE  m \notin old /\ content[m] # None /\ reactions'[m] = reactions[m]
    BY <2>1, <2>4 DEF EditMessage
  <2>5. ASSUME NEW n \in Messages, DeleteMessage(n) PROVE m \notin old /\ content[m] # None /\ reactions'[m] = reactions[m]
    BY <2>1, <2>5 DEF DeleteMessage
  <2>6. ASSUME NEW n \in Messages, GrowOld(n) PROVE m \notin old /\ content[m] # None /\ reactions'[m] = reactions[m]
    BY <2>1, <2>6 DEF GrowOld
  <2> QED
    BY <2>1, <2>3, <2>4, <2>5, <2>6 DEF Shown
<1> QED
  BY <1>1, <1>2, AsideShows

(* A message is forgotten, or a cleanup forgets what is too old, while no  *)
(* task is alive.                                                          *)
LEMMA CleanupShows ==
    ASSUME Typed, TrustInv, ShowInv, OnDelete \/ RunCleanup, trust' # "broken"
    PROVE  ShowInv' /\ SweptInv'
<1>1. trust' = trust /\ Alone /\ UNCHANGED <<task, content, old, reactions>>
  BY DEF OnDelete, RunCleanup, Trusting, TakesEvent, env
<1>2. \A u \in Tasks : task[u] = <<>>
  BY <1>1 DEF Alone, Idle
<1>3. trust = "whole"
  <2>1. "startup" \in Tasks
    BY DEF Tasks
  <2> QED
    BY <1>1, <1>2, <2>1 DEF TrustInv, Typed, HistoryOK
<1>4. \A m \in Shown : Fits(m)
  BY <1>2, <1>3 DEF ShowInv, Covered, Serves
<1>5. ASSUME NEW m \in Shown' PROVE Fits(m)'
  <2>0. m \in Messages /\ message'[m] # None /\ message \in [Messages -> Entries \cup {None}]
    BY <1>5 DEF Shown, Tracked, Typed, TablesOK
  <2>1. message'[m] = message[m] /\ \A p \in message[m].links \cap PRs : row'[p] = row[p]
    <3>1. CASE OnDelete
      BY <2>0, <3>1 DEF OnDelete
    <3>2. CASE RunCleanup
      BY <2>0, <3>2 DEF RunCleanup, Cleaned
    <3> QED
      BY <3>1, <3>2
  <2>2. m \in Shown
    BY <1>1, <1>5, <2>0, <2>1 DEF Shown, Tracked
  <2>3. message[m].links \subseteq PRs
    BY <2>2, ShownFields DEF Typed
  <2> QED
    BY <1>1, <1>4, <2>1, <2>2, <2>3, StillFits
<1>6. Covered'
  BY <1>5 DEF Covered
<1>7. \A u \in Handlers : task'[u] = <<>>
  BY <1>1, <1>2 DEF Tasks
<1>8. \A u \in Handlers : Keen(u)' /\ Knows(u)'
  BY <1>7 DEF Keen, Knows
<1> QED
  BY <1>1, <1>3, <1>6, <1>8 DEF ShowInv, SweptInv

LEMMA RestartShows ==
    ASSUME Typed, Restart
    PROVE  ShowInv' /\ SweptInv'
<1>0. PICK settled : task' = [task EXCEPT !["startup"] = <<[op |-> "history", skip |-> settled]>>]
  BY DEF Restart
<1>1. PICK o : o = [op |-> "history", skip |-> settled]
  OBVIOUS
<1>2. task'["startup"] = <<o>> /\ trust' = "healing"
  BY <1>0, <1>1 DEF Restart, Typed, TasksOK, Tasks
<1>3. o.op = "history"
  BY <1>1
<1>4. task'["startup"][Len(task'["startup"])].op = "history"
  BY <1>2, <1>3
<1> QED
  BY <1>2, <1>4 DEF ShowInv, SweptInv

LEMMA InitShow == Init => ShowInv /\ SweptInv
<1>1. ASSUME Init PROVE ShowInv /\ SweptInv
  <2>1. \A t \in Handlers : task[t] = <<>>
    BY <1>1 DEF Init, Tasks
  <2>2. Tracked = {} /\ trust = "whole"
    BY <1>1 DEF Init, Tracked
  <2> QED
    BY <2>1, <2>2 DEF ShowInv, SweptInv, Covered, Keen, Knows, Shown
<1> QED
  BY <1>1

LEMMA NextShow ==
    ASSUME Typed, TrustInv, TrustInv', ShapeInv, DueInv, RowsInv, MergedInv, TrackedInv, ShowInv, SweptInv, [Next]_vars
    PROVE  ShowInv' /\ SweptInv'
<1>1. CASE trust' = "broken"
  BY <1>1 DEF ShowInv, SweptInv
<1>2. CASE trust' # "broken"
  <2>1. ASSUME NEW t \in Tasks \ Idle, Step(t) PROVE ShowInv' /\ SweptInv'
    <3>0. t \in Tasks /\ task[t] # <<>>
      BY <2>1 DEF Idle
    <3>1. trust \in {"whole", "healing"} /\ (trust' = trust \/ StartupComplete(t))
      <4>1. trust' \in {trust, "broken"} \/ StartupComplete(t)
        BY <2>1, StepMoves DEF Moves
      <4>2. StartupComplete(t) => (trust' = "whole" /\ trust = "healing") \/ trust' = trust
        BY DEF StartupComplete
      <4> QED
        BY <1>2, <4>1, <4>2 DEF Typed, HistoryOK
    <3>2. CASE trust = "whole"
      <4>1. t \in Handlers
        BY <3>0, <3>2 DEF TrustInv, Tasks
      <4>2. trust' = "whole"
        BY <3>1, <3>2 DEF StartupComplete
      <4>3. ShowInv'
        BY <2>1, <3>0, <3>2, <4>1, <4>2, StepShow
      <4> QED
        BY <4>2, <4>3 DEF SweptInv
    <3>3. CASE trust = "healing"
      <4>1. t = "startup"
        BY <3>0, <3>3 DEF TrustInv, Tasks
      <4> QED
        BY <1>2, <2>1, <3>0, <3>3, <4>1, StepSwept
    <3> QED
      BY <3>1, <3>2, <3>3
  <2>2. ASSUME NEW t \in Handlers \cap Idle, Receive(t) PROVE ShowInv' /\ SweptInv'
    BY <1>2, <2>2, ReceiveShow
  <2>3. CASE OnDelete \/ RunCleanup
    BY <1>2, <2>3, CleanupShows
  <2>4. CASE Crash
    BY <1>2, <2>4 DEF Crash, Trusting
  <2>5. CASE Restart
    BY <2>5, RestartShows
  <2>6. ASSUME NEW p \in PRs, GitHubChanges(p) PROVE ShowInv' /\ SweptInv'
    BY <2>6, GitHubShows
  <2>7. CASE \/ \E links \in Links : PostMessage(links) \/ \E m \in Messages : EditMessage(m, links)
             \/ \E m \in Messages : DeleteMessage(m) \/ GrowOld(m)
    BY <2>7, UsersShow
  <2>8. CASE UNCHANGED vars
    <3>1. UNCHANGED <<row, message, task, trust, reactions, content, old>>
      BY <2>8 DEF vars, env, tables, history
    <3>2. Shown' = Shown
      BY <3>1, SameShown
    <3> QED
      BY <3>1, <3>2, AsideShows
  <2> QED
    BY <2>1, <2>2, <2>3, <2>4, <2>5, <2>6, <2>7, <2>8 DEF Next
<1> QED
  BY <1>1, <1>2

LEMMA MergedStands == Spec => [](MergedInv /\ TrackedInv)
<1>1. Typed /\ ShapeInv /\ AutopostInv /\ MergedInv /\ TrackedInv /\ [Next]_vars => MergedInv' /\ TrackedInv'
  BY NextMerged, NextTracked
<1> QED
  BY <1>1, InitMerged, TypedStands, TrustStands, AutopostStands, PTL DEF Spec

LEMMA ShowStands == Spec => [](ShowInv /\ SweptInv)
<1>1. /\ Typed /\ TrustInv /\ TrustInv' /\ ShapeInv /\ DueInv /\ RowsInv /\ MergedInv /\ TrackedInv
      /\ ShowInv /\ SweptInv /\ [Next]_vars
      => ShowInv' /\ SweptInv'
  BY NextShow
<1> QED
  BY <1>1, InitShow, TypedStands, TrustStands, DueStands, RowsStand, MergedStands, PTL DEF Spec

(* Once every task has ended, every message in the window carries what its *)
(* rows call for and is done just when all its PRs have ended: whoever     *)
(* changes a row has still to reconcile the messages that show it, and     *)
(* nothing he read before an await has changed by then, and the last part  *)
(* of the startup pass reconciles them all (reconcile_message, the         *)
(* handlers of handle_pr_event and startup_reconcile in pr-bot/bot.py).    *)
THEOREM ShowsRowsCorrect == Spec => []ShowsRows
<1>1. ShowInv => ShowsRows
  <2>1. SUFFICES ASSUME ShowInv, Quiet, trust = "whole", NEW m \in Shown
                 PROVE  /\ ~message[m].done => reactions[m] = Desired(RowsOf(m))
                        /\ RowsOf(m) # {} => message[m].done = AllTerminal(RowsOf(m))
                        /\ message[m].done /\ RowsOf(m) # {} =>
                               reactions[m] \cap Terminal = Desired(RowsOf(m)) \cap Terminal
    BY DEF ShowsRows
  <2>2. \A t \in Tasks : task[t] = <<>>
    BY <2>1 DEF Quiet, Alone, Idle
  <2>3. Fits(m)
    BY <2>1, <2>2 DEF ShowInv, Covered, Serves
  <2> QED
    BY <2>3 DEF Fits
<1> QED
  BY <1>1, ShowStands, PTL
=============================================================================
