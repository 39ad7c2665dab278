------------------------- MODULE FixReactionsProofs -------------------------
(***************************************************************************)
(* TLAPS proofs about FixReactions, for any attempts, messages, wrenches   *)
(* and faults.                                                             *)
(***************************************************************************)
EXTENDS FixReactions, FiniteSetTheorems, TLAPS

Stages == {"start", "clear", "add", "outcome", "tell"}
TaskSet == [kind: {"swap", "mark", "finish"}, job: Jobs \cup {None}, nth: Nat,
            result: Outcomes \cup {"none"}, tell: BOOLEAN, on: 0..posted, at: Stages]

(* A task that has begun to change reactions knows its message.            *)
TaskOK(t) ==
    /\ t.kind # "swap" => t.job \in Jobs
    /\ t.kind = "swap" \/ t.at \in {"clear", "add", "outcome"} => t.on # 0
    /\ t.kind # "finish" => ~t.tell
    /\ t.at = "add" => t.job # None
    /\ t.at = "tell" => t.tell

Typed ==
    /\ status \in [Jobs -> {"none"} \cup Active \cup Outcomes]
    /\ posted \in 0..MaxMessages /\ messageId \in 0..posted
    /\ emojis \in [1..MaxMessages -> SUBSET Emojis]
    /\ ends \in [Jobs -> Nat] /\ results \in [Jobs -> SUBSET Outcomes]
    /\ tasks \subseteq TaskSet
    /\ \A t \in tasks : TaskOK(t)
    /\ \A m \in 1..MaxMessages : m > posted => emojis[m] = {}

(* What a call to Discord makes of a task. *)
Successor(t, u) ==
    /\ u \in TaskSet /\ TaskOK(u)
    /\ u.kind = t.kind /\ u.job = t.job /\ u.nth = t.nth /\ u.result = t.result /\ u.tell = t.tell

LEMMA StageSuccessor ==
    ASSUME Typed, NEW t \in tasks, NEW stage \in Stages,
           stage \in {"clear", "add", "outcome"} => t.on # 0,
           stage = "add" => t.job # None, stage = "tell" => t.tell
    PROVE  Successor(t, [t EXCEPT !.at = stage])
  BY DEF Typed, Successor, TaskOK, TaskSet, Stages

LEMMA MessageSuccessor ==
    ASSUME Typed, NEW t \in tasks, NEW stage \in Stages, MessageOf(t) # 0,
           stage = "add" => t.job # None, stage = "tell" => t.tell
    PROVE  Successor(t, [t EXCEPT !.at = stage, !.on = MessageOf(t)])
<1>1. MessageOf(t) \in 0..posted
  BY DEF Typed, TaskSet, MessageOf
<1> QED
  BY <1>1 DEF Typed, Successor, TaskOK, TaskSet, Stages

LEMMA TypedInit == Init => Typed
  BY ReactionsAssumption DEF Init, Typed, Outcomes

(* A step of a task: it goes on as one successor, or it ends, and then its *)
(* requester has been told or the history says so.                         *)
Moves(t) ==
    \/ untold' = untold /\ \E u : Successor(t, u) /\ tasks' = (tasks \ {t}) \cup {u}
    \/ /\ tasks' = tasks \ {t}
       /\ untold' = IF t.tell THEN [untold EXCEPT ![t.job] = @ - 1] ELSE untold

LEMMA TaskMoves ==
    ASSUME Typed, NEW t \in tasks, TaskStep(t)
    PROVE  /\ UNCHANGED <<table, group, wrenches, ends, ended, results>>
           /\ Moves(t)
<1>1. UNCHANGED <<table, group, wrenches, ends, ended, results>>
  BY DEF TaskStep
<1>2. t \in TaskSet /\ TaskOK(t)
  BY DEF Typed
<1>3. ASSUME NEW next, Becomes(t, next), untold' = untold,
             (next = {} /\ ~t.tell) \/ \E u : Successor(t, u) /\ next = {u}
      PROVE  Moves(t)
  BY <1>3 DEF Becomes, Moves
<1>4. ASSUME NEW stage \in Stages, stage \in {"clear", "add", "outcome"} => t.on # 0,
             stage = "add" => t.job # None, stage = "tell" => t.tell
      PROVE  \E u : Successor(t, u) /\ To(t, stage) = {u}
  BY <1>4, StageSuccessor DEF To
<1>5. (Shown(t) = {} /\ ~t.tell) \/ \E u : Successor(t, u) /\ Shown(t) = {u}
  <2>1. "tell" \in Stages
    BY DEF Stages
  <2> QED
    BY <1>4, <2>1 DEF Shown
<1>6. CASE StartMark(t)
  <2>1. MessageOf(t) # 0 => Successor(t, [t EXCEPT !.at = "add", !.on = MessageOf(t)])
    BY <1>2, <1>6, MessageSuccessor, ReactionsAssumption DEF Stages, StartMark, TaskOK
  <2>2. ~t.tell
    BY <1>2, <1>6 DEF StartMark, TaskOK
  <2> QED
    BY <1>1, <1>3, <1>6, <2>1, <2>2 DEF StartMark
<1>7. CASE StartFinish(t)
  <2>1. MessageOf(t) # 0 => Successor(t, [t EXCEPT !.at = "clear", !.on = MessageOf(t)])
    BY MessageSuccessor DEF Stages
  <2> QED
    BY <1>1, <1>3, <1>5, <1>7, <2>1 DEF StartFinish
<1>8. CASE Breaks(t)
  BY <1>1, <1>8 DEF Breaks, Becomes, Moves
<1>9. ASSUME NEW ok \in BOOLEAN, ClearWrench(t, ok)
      PROVE  Moves(t)
  <2>1. ~t.tell /\ (AfterWrench(t) = {} \/ \E u : Successor(t, u) /\ AfterWrench(t) = {u})
    BY <1>2, <1>4, <1>9 DEF ClearWrench, AfterWrench, TaskOK, Stages
  <2> QED
    BY <1>3, <1>9, <2>1 DEF ClearWrench
<1>10. ASSUME NEW ok \in BOOLEAN, AddWorking(t, ok)
       PROVE  Moves(t)
  <2>1. ~t.tell
    BY <1>2, <1>10 DEF AddWorking, TaskOK
  <2> QED
    BY <1>3, <1>10, <2>1 DEF AddWorking
<1>11. ASSUME NEW ok \in BOOLEAN, ClearWorking(t, ok)
       PROVE  Moves(t)
  <2>1. (AfterClear(t) = {} /\ ~t.tell) \/ \E u : Successor(t, u) /\ AfterClear(t) = {u}
    BY <1>2, <1>4, <1>5, <1>11 DEF ClearWorking, AfterClear, TaskOK, Stages
  <2>2. untold' = untold /\ (Becomes(t, AfterClear(t)) \/ Becomes(t, Shown(t)))
    BY <1>11 DEF ClearWorking, FetchFails
  <2> QED
    BY <1>3, <1>5, <2>1, <2>2
<1>12. ASSUME NEW ok \in BOOLEAN, AddOutcome(t, ok)
       PROVE  Moves(t)
  BY <1>3, <1>5, <1>12 DEF AddOutcome
<1>13. ASSUME NEW ok \in BOOLEAN, Tell(t, ok)
       PROVE  Moves(t)
  <2>1. t.tell
    BY <1>2, <1>13 DEF Tell, TaskOK
  <2> QED
    BY <1>13, <2>1 DEF Tell, Becomes, Moves
<1> QED
  BY <1>1, <1>6, <1>7, <1>8, <1>9, <1>10, <1>11, <1>12, <1>13 DEF TaskStep

(* What a step of a task does to the reactions.                            *)
LEMMA ReactionsMove ==
    ASSUME Typed, NEW t \in tasks, TaskStep(t)
    PROVE  \/ emojis' = emojis
           \/ /\ t.on \in 1..posted
              /\ \E set \in SUBSET Emojis :
                    /\ emojis' = [emojis EXCEPT ![t.on] = set]
                    /\ "wrench" \in set => "wrench" \in emojis[t.on]
                    /\ set \subseteq emojis[t.on] \cup {"working"} \cup (IF t.kind = "finish" THEN Outcome(t) ELSE {})
<1>1. t \in TaskSet /\ TaskOK(t) /\ posted \in 0..MaxMessages /\ MaxMessages \in Nat
  BY ReactionsAssumption DEF Typed
<1>2. t.at \in {"clear", "add", "outcome"} => t.on \in 1..posted /\ emojis[t.on] \subseteq Emojis
  BY <1>1 DEF TaskSet, TaskOK, Typed
<1>3. Outcome(t) \subseteq Emojis /\ "wrench" \notin Outcome(t)
  BY DEF Outcome, Emojis, Reported
<1>4. ASSUME NEW ok \in BOOLEAN, ClearWrench(t, ok) PROVE emojis' = emojis \/ Reacts(t, emojis[t.on] \ {"wrench"})
  BY <1>4 DEF ClearWrench
<1>5. ASSUME NEW ok \in BOOLEAN, ClearWorking(t, ok) PROVE emojis' = emojis \/ Reacts(t, emojis[t.on] \ {"working"})
  BY <1>5 DEF ClearWorking
<1>6. ASSUME NEW ok \in BOOLEAN, ClearWrench(t, ok) \/ AddWorking(t, ok) \/ ClearWorking(t, ok) \/ AddOutcome(t, ok)
      PROVE  t.on \in 1..posted /\ emojis[t.on] \subseteq Emojis
  BY <1>2, <1>6 DEF ClearWrench, AddWorking, ClearWorking, AddOutcome
<1>7. CASE StartMark(t) \/ StartFinish(t) \/ Breaks(t) \/ \E ok \in BOOLEAN : Tell(t, ok)
  BY <1>7 DEF StartMark, StartFinish, Breaks, Tell
<1>8. CASE \E ok \in BOOLEAN : ClearWrench(t, ok) \/ ClearWorking(t, ok)
  BY <1>4, <1>5, <1>6, <1>8 DEF Reacts
<1>9. CASE \E ok \in BOOLEAN : AddWorking(t, ok)
  <2>1. "working" \in Emojis
    BY DEF Emojis
  <2> QED
    BY <1>6, <1>9, <2>1 DEF Reacts, AddWorking
<1>10. CASE \E ok \in BOOLEAN : AddOutcome(t, ok)
  BY <1>3, <1>6, <1>10 DEF Reacts, AddOutcome
<1> QED
  BY <1>7, <1>8, <1>9, <1>10 DEF TaskStep

LEMMA TypedStep == Typed /\ [Next]_vars => Typed'
<1> SUFFICES ASSUME Typed, [Next]_vars PROVE Typed'
  OBVIOUS
<1>1. CASE UNCHANGED vars
  BY <1>1 DEF Typed, vars, table, group, history, TaskSet, TaskOK
<1>2. ASSUME NEW j \in Jobs, ApiRequest(j) PROVE Typed'
  <2>1. Task("mark", j, 0, "none", FALSE, 0) \in TaskSet /\ TaskOK(Task("mark", j, 0, "none", FALSE, 0))
    BY DEF Task, TaskSet, TaskOK, Typed, Stages
  <2>2. UNCHANGED <<messageId, posted, emojis, ends, results>> /\ TaskSet' = TaskSet
    BY <1>2 DEF ApiRequest, group, history, TaskSet
  <2>3. status' \in [Jobs -> {"none"} \cup Active \cup Outcomes]
    BY <1>2 DEF Typed, ApiRequest, RequestFix, Active
  <2> QED
    BY <1>2, <2>1, <2>2, <2>3 DEF Typed, ApiRequest, TaskOK
<1>3. ASSUME NEW j \in Jobs, Claim(j) PROVE Typed'
  BY <1>3 DEF Typed, Claim, Active, group, history, TaskSet, TaskOK
<1>4. ASSUME NEW j \in Jobs, NEW result \in Outcomes, NEW tell \in BOOLEAN,
             status' = [status EXCEPT ![j] = result], Ends(j, result, tell)
      PROVE  Typed'
  BY <1>4 DEF Typed, Ends, group, TaskSet, TaskOK, Task, Stages
<1>5. ASSUME NEW t \in tasks, HandleWrench(t) PROVE Typed'
  <2>1. t \in TaskSet /\ TaskOK(t)
    BY DEF Typed
  <2>2. \A j \in Jobs : [t EXCEPT !.job = j, !.at = "clear"] \in TaskSet /\ TaskOK([t EXCEPT !.job = j, !.at = "clear"])
    BY <1>5, <2>1 DEF HandleWrench, TaskSet, TaskOK, Stages
  <2>3. [t EXCEPT !.at = "clear"] \in TaskSet /\ TaskOK([t EXCEPT !.at = "clear"])
    BY <1>5, <2>1 DEF HandleWrench, TaskSet, TaskOK, Stages
  <2>4. posted' = posted /\ messageId' = messageId /\ emojis' = emojis /\ ends' = ends /\ results' = results
    BY <1>5 DEF HandleWrench, group, history
  <2>5. status' \in [Jobs -> {"none"} \cup Active \cup Outcomes]
    BY <1>5 DEF HandleWrench, RequestFix, Typed, Active
  <2>6. \A u \in tasks' : u \in TaskSet /\ TaskOK(u)
    BY <1>5, <2>2, <2>3 DEF HandleWrench, Refused, Typed
  <2>7. TaskSet' = TaskSet
    BY <2>4 DEF TaskSet
  <2> QED
    BY <2>4, <2>5, <2>6, <2>7 DEF Typed, TaskOK
<1>6. ASSUME NEW t \in tasks, TaskStep(t) PROVE Typed'
  <2>1. UNCHANGED <<status, messageId, posted, ends, results>>
    BY <1>6, TaskMoves DEF table, group
  <2>2. \A u \in tasks' : u \in TaskSet /\ TaskOK(u)
    BY <1>6, TaskMoves DEF Moves, Successor, Typed
  <2>3. TaskSet' = TaskSet
    BY <2>1 DEF TaskSet
  <2>4. emojis' = emojis \/ \E m \in 1..posted, set \in SUBSET Emojis : emojis' = [emojis EXCEPT ![m] = set]
    BY <1>6, ReactionsMove
  <2>5. emojis' \in [1..MaxMessages -> SUBSET Emojis] /\ \A m \in 1..MaxMessages : m > posted => emojis'[m] = {}
    <3>1. posted \in Nat /\ posted <= MaxMessages /\ MaxMessages \in Nat
      BY ReactionsAssumption DEF Typed
    <3>2. emojis \in [1..MaxMessages -> SUBSET Emojis] /\ \A m \in 1..MaxMessages : m > posted => emojis[m] = {}
      BY DEF Typed
    <3>3. ASSUME NEW n \in 1..posted, NEW set \in SUBSET Emojis, emojis' = [emojis EXCEPT ![n] = set]
          PROVE  /\ emojis' \in [1..MaxMessages -> SUBSET Emojis]
                 /\ \A m \in 1..MaxMessages : m > posted => emojis'[m] = {}
      <4>1. n \in 1..MaxMessages /\ ~(n > posted)
        BY <3>1
      <4> QED
        BY <3>1, <3>2, <3>3, <4>1
    <3> QED
      BY <2>4, <3>2, <3>3
  <2> QED
    BY <2>1, <2>2, <2>3, <2>5 DEF Typed, TaskOK
<1>7. CASE AddWrench
  <2>1. Task("swap", None, 0, "none", FALSE, messageId) \in TaskSet /\ messageId # 0
    BY <1>7 DEF AddWrench, Task, TaskSet, Typed, Stages
  <2>2. TaskOK(Task("swap", None, 0, "none", FALSE, messageId))
    BY <2>1 DEF TaskOK, Task
  <2>3. UNCHANGED <<status, messageId, posted, ends, results>> /\ TaskSet' = TaskSet
    BY <1>7 DEF AddWrench, table, group, history, TaskSet
  <2>4. messageId \in 1..posted /\ posted \in 0..MaxMessages /\ MaxMessages \in Nat
    BY <2>1, ReactionsAssumption DEF Typed
  <2>5. "wrench" \in Emojis
    BY DEF Emojis
  <2>6. emojis' \in [1..MaxMessages -> SUBSET Emojis] /\ \A m \in 1..MaxMessages : m > posted => emojis'[m] = {}
    BY <1>7, <2>4, <2>5 DEF Typed, AddWrench
  <2> QED
    BY <1>7, <2>1, <2>2, <2>3, <2>6 DEF Typed, TaskOK, AddWrench
<1>8. CASE GroupAppears
  BY <1>8 DEF Typed, GroupAppears, table, history, TaskSet, TaskOK
<1>9. CASE PostMessage
  <2>1. posted' = posted + 1 /\ posted' \in 0..MaxMessages /\ messageId' \in 0..posted'
    BY <1>9, ReactionsAssumption DEF PostMessage, Typed
  <2>2. \A u \in tasks : u \in TaskSet'
    BY <2>1, ReactionsAssumption DEF Typed, TaskSet
  <2> QED
    BY <1>9, <2>1, <2>2, ReactionsAssumption DEF Typed, PostMessage, table, history, TaskOK
<1>10. CASE GroupVanishes
  BY <1>10, ReactionsAssumption DEF Typed, GroupVanishes, table, history, TaskSet, TaskOK
<1>11. CASE Restart
  BY <1>11 DEF Typed, Restart, table, group, TaskSet, TaskOK
<1>12. ASSUME NEW j \in Jobs, TimeOut(j) PROVE Typed'
  BY <1>12, <1>4 DEF TimeOut, Outcomes, Reported
<1>13. ASSUME NEW j \in Jobs, NEW result \in Reports, Report(j, result) PROVE Typed'
  BY <1>13, <1>4, ReactionsAssumption DEF Report, Outcomes, Reported
<1>14. ASSUME NEW j \in Jobs, NEW byRequester \in BOOLEAN, Cancel(j, byRequester) PROVE Typed'
  BY <1>14, <1>4 DEF Cancel, Outcomes
<1> QED
  BY <1>1, <1>2, <1>3, <1>5, <1>6, <1>7, <1>8, <1>9, <1>10, <1>11, <1>12, <1>13, <1>14 DEF Next

(* The types the theorems below rest on: no attempt, message or task takes *)
(* a form the handlers do not expect.                                      *)
LEMMA AlwaysTyped == Spec => []Typed
  BY TypedInit, TypedStep, PTL DEF Spec
-----------------------------------------------------------------------------
(* What is never reported, timed out or cancelled has not ended.           *)
EndsInv ==
    /\ \A j \in Jobs : status[j] \in {"none", "pending"} => ends[j] = 0 /\ results[j] = {}
    /\ CancelledOnce

LEMMA EndsStep == Typed /\ EndsInv /\ [Next]_vars => EndsInv'
<1> SUFFICES ASSUME Typed, EndsInv, [Next]_vars PROVE EndsInv'
  OBVIOUS
<1> USE DEF EndsInv, CancelledOnce
<1>1. CASE UNCHANGED vars
  BY <1>1 DEF vars, table, history
<1>2. ASSUME NEW j \in Jobs, RequestFix(j), UNCHANGED <<ends, results>> PROVE EndsInv'
  BY <1>2 DEF RequestFix, Typed
<1>3. ASSUME NEW j \in Jobs, Claim(j) PROVE EndsInv'
  BY <1>3 DEF Claim, Typed, history
<1>4. ASSUME NEW j \in Jobs, NEW result, NEW tell, status' = [status EXCEPT ![j] = result], Ends(j, result, tell),
             result \notin {"none", "pending"}, result = "cancelled" => status[j] = "pending"
      PROVE  EndsInv'
  BY <1>4 DEF Ends, Typed
<1>5. ASSUME NEW j \in Jobs, ApiRequest(j) PROVE EndsInv'
  BY <1>2, <1>5 DEF ApiRequest, history
<1>6. ASSUME NEW t \in tasks, HandleWrench(t) PROVE EndsInv'
  BY <1>2, <1>6 DEF HandleWrench, history
<1>7. ASSUME NEW t \in tasks, TaskStep(t) PROVE EndsInv'
  BY <1>7 DEF TaskStep, table
<1>8. ASSUME NEW j \in Jobs, TimeOut(j) PROVE EndsInv'
  BY <1>4, <1>8 DEF TimeOut
<1>9. ASSUME NEW j \in Jobs, NEW result \in Reports, Report(j, result) PROVE EndsInv'
  BY <1>4, <1>9, ReactionsAssumption DEF Report
<1>10. ASSUME NEW j \in Jobs, NEW byRequester \in BOOLEAN, Cancel(j, byRequester) PROVE EndsInv'
  BY <1>4, <1>10 DEF Cancel, Withdraws
<1>11. CASE AddWrench \/ GroupAppears \/ PostMessage \/ GroupVanishes \/ Restart
  BY <1>11 DEF AddWrench, GroupAppears, PostMessage, GroupVanishes, Restart, table, history
<1> QED
  BY <1>1, <1>3, <1>5, <1>6, <1>7, <1>8, <1>9, <1>10, <1>11 DEF Next

(* A cancelled attempt has ended once, for any attempts: cancels, polls,   *)
(* reports and the timeout may race, its requester is told at most once.   *)
THEOREM CancelsOnce == Spec => []CancelledOnce
<1>1. Init => EndsInv
  BY DEF Init, EndsInv, CancelledOnce
<1>2. EndsInv => CancelledOnce
  BY DEF EndsInv
<1> QED
  BY <1>1, <1>2, EndsStep, AlwaysTyped, PTL DEF Spec
-----------------------------------------------------------------------------
(* The outcome a task is about to show is one that was reported.           *)
OutcomeInv ==
    /\ \A t \in tasks : t.kind = "finish" => t.result \in results[t.job]
    /\ OutcomeEarned

LEMMA OutcomeStep == Typed /\ OutcomeInv /\ [Next]_vars => OutcomeInv'
<1> SUFFICES ASSUME Typed, OutcomeInv, [Next]_vars PROVE OutcomeInv'
  OBVIOUS
<1> USE DEF OutcomeInv
<1> DEFINE Earned == UNION {results[j] : j \in Jobs}
<1>1. CASE UNCHANGED vars
  BY <1>1 DEF vars, history, OutcomeEarned
<1>2. ASSUME NEW j \in Jobs, NEW result \in Outcomes, NEW tell, Ends(j, result, tell) PROVE OutcomeInv'
  <2>1. /\ results' = [results EXCEPT ![j] = @ \cup {result}] /\ emojis' = emojis
        /\ results \in [Jobs -> SUBSET Outcomes]
    BY <1>2 DEF Ends, Typed
  <2>2. \A k \in Jobs : results[k] \subseteq results'[k]
    BY <2>1
  <2>3. OutcomeEarned'
    BY <2>1, <2>2 DEF OutcomeEarned
  <2>4. \A t \in tasks : t.kind = "finish" => t.job \in Jobs
    BY DEF Typed, TaskOK
  <2>5. ASSUME NEW t \in tasks', t.kind = "finish" PROVE t.result \in results'[t.job]
    <3>1. CASE t \in tasks
      BY <2>2, <2>4, <2>5, <3>1
    <3>2. CASE t = Task("finish", j, ends[j] + 1, result, tell, 0)
      BY <2>1, <3>2 DEF Task
    <3> QED
      BY <1>2, <2>5, <3>1, <3>2 DEF Ends
  <2> QED
    BY <2>3, <2>5
<1>3. ASSUME emojis' = emojis, results' = results, \A u \in tasks' \ tasks : u.kind # "finish" PROVE OutcomeInv'
  BY <1>3 DEF OutcomeEarned
<1>4. ASSUME NEW j \in Jobs, ApiRequest(j) PROVE OutcomeInv'
  BY <1>3, <1>4 DEF ApiRequest, history, Task
<1>5. ASSUME NEW j \in Jobs, Claim(j) PROVE OutcomeInv'
  BY <1>3, <1>5 DEF Claim, history
<1>6. ASSUME NEW t \in tasks, HandleWrench(t) PROVE OutcomeInv'
  <2>1. t \in TaskSet
    BY DEF Typed
  <2>2. \A j \in Jobs : [t EXCEPT !.job = j, !.at = "clear"].kind = t.kind
    BY <2>1 DEF TaskSet
  <2>3. emojis' = emojis /\ results' = results /\ t.kind = "swap"
    BY <1>6 DEF HandleWrench, history
  <2>4. \A u \in tasks' \ tasks : u.kind = t.kind
    <3>1. CASE \E j \in Jobs : tasks' = (tasks \ {t}) \cup {[t EXCEPT !.job = j, !.at = "clear"]}
      <4> PICK j \in Jobs : tasks' = (tasks \ {t}) \cup {[t EXCEPT !.job = j, !.at = "clear"]}
        BY <3>1
      <4> DEFINE queued == [t EXCEPT !.job = j, !.at = "clear"]
      <4>1. tasks' = (tasks \ {t}) \cup {queued} /\ queued.kind = t.kind
        BY <2>2
      <4> HIDE DEF queued
      <4> QED
        BY <4>1
    <3>2. CASE tasks' = (tasks \ {t}) \cup {[t EXCEPT !.at = "clear"]} \/ tasks' = tasks \ {t}
      <4>1. [t EXCEPT !.at = "clear"].kind = t.kind
        BY <2>1 DEF TaskSet
      <4> QED
        BY <3>2, <4>1
    <3> QED
      BY <1>6, <3>1, <3>2 DEF HandleWrench, Refused
  <2> QED
    BY <1>3, <2>3, <2>4
<1>7. ASSUME NEW t \in tasks, TaskStep(t) PROVE OutcomeInv'
  <2>1. results' = results
    BY <1>7 DEF TaskStep
  <2>2. \A u \in tasks' : u.kind = "finish" => u.result \in results[u.job]
    BY <1>7, TaskMoves DEF Moves, Successor
  <2>3. t.kind = "finish" => Outcome(t) \subseteq Earned
    BY DEF Outcome, Typed, TaskOK
  <2>4. "working" \notin Reported /\ emojis \in [1..MaxMessages -> SUBSET Emojis]
    BY DEF Reported, Typed
  <2>5. ASSUME NEW n \in 1..posted, NEW set \in SUBSET Emojis, emojis' = [emojis EXCEPT ![n] = set],
               set \subseteq emojis[n] \cup {"working"} \cup (IF t.kind = "finish" THEN Outcome(t) ELSE {})
        PROVE  OutcomeEarned'
    <3>1. ASSUME NEW m \in 1..MaxMessages PROVE emojis'[m] \cap Reported \subseteq Earned
      <4>1. emojis[m] \cap Reported \subseteq Earned
        BY DEF OutcomeEarned
      <4>2. CASE m = n
        <5>1. emojis'[m] = set
          BY <2>4, <2>5, <4>2
        <5> QED
          BY <2>3, <2>4, <2>5, <4>1, <4>2, <5>1
      <4>3. CASE m # n
        BY <2>4, <2>5, <4>1, <4>3
      <4> QED
        BY <4>2, <4>3
    <3> QED
      BY <2>1, <3>1 DEF OutcomeEarned
  <2>6. OutcomeEarned'
    <3>1. CASE emojis' = emojis
      BY <2>1, <3>1 DEF OutcomeEarned
    <3> QED
      BY <1>7, <2>5, <3>1, ReactionsMove
  <2> QED
    BY <2>1, <2>2, <2>6
<1>8. ASSUME NEW j \in Jobs, TimeOut(j) PROVE OutcomeInv'
  BY <1>2, <1>8 DEF TimeOut, Outcomes, Reported
<1>9. ASSUME NEW j \in Jobs, NEW result \in Reports, Report(j, result) PROVE OutcomeInv'
  BY <1>2, <1>9, ReactionsAssumption DEF Report, Outcomes, Reported
<1>10. ASSUME NEW j \in Jobs, NEW byRequester \in BOOLEAN, Cancel(j, byRequester) PROVE OutcomeInv'
  BY <1>2, <1>10 DEF Cancel, Outcomes
<1>11. CASE AddWrench
  <2>1. results' = results /\ \A u \in tasks' \ tasks : u.kind # "finish"
    BY <1>11 DEF AddWrench, history, Task
  <2>2. \A m \in 1..MaxMessages : emojis'[m] \subseteq emojis[m] \cup {"wrench"}
    BY <1>11 DEF AddWrench, Typed
  <2>3. "wrench" \notin Reported
    BY DEF Reported
  <2> QED
    BY <2>1, <2>2, <2>3 DEF OutcomeEarned
<1>12. CASE GroupAppears \/ PostMessage \/ GroupVanishes \/ Restart
  BY <1>3, <1>12 DEF GroupAppears, PostMessage, GroupVanishes, Restart, history
<1> QED
  BY <1>1, <1>4, <1>5, <1>6, <1>7, <1>8, <1>9, <1>10, <1>11, <1>12 DEF Next

(* No message shows an outcome that none of the group's attempts had, for  *)
(* any attempts and messages and however the tasks interleave.             *)
THEOREM OutcomesAreEarned == Spec => []OutcomeEarned
<1>1. Init => OutcomeInv
  BY DEF Init, OutcomeInv, OutcomeEarned
<1>2. OutcomeInv => OutcomeEarned
  BY DEF OutcomeInv
<1> QED
  BY <1>1, <1>2, OutcomeStep, AlwaysTyped, PTL DEF Spec
-----------------------------------------------------------------------------
(* What the handler of a wrench leaves of its task. *)
LEMMA WrenchMoves ==
    ASSUME Typed, NEW t \in tasks, HandleWrench(t)
    PROVE  \/ tasks' = tasks \ {t} /\ missed' = missed \cup {t.on}
           \/ /\ missed' = missed
              /\ \E u : u.kind = "swap" /\ u.on = t.on /\ u.at = "clear" /\ u.tell = t.tell /\ tasks' = (tasks \ {t}) \cup {u}
<1>1. t \in TaskSet /\ t.kind = "swap"
  BY DEF Typed, HandleWrench
<1>2. CASE messageId # t.on
  BY <1>2 DEF HandleWrench
<1>3. ASSUME NEW j \in Jobs, missed' = missed, tasks' = (tasks \ {t}) \cup {[t EXCEPT !.job = j, !.at = "clear"]}
      PROVE  \E u : u.kind = "swap" /\ u.on = t.on /\ u.at = "clear" /\ u.tell = t.tell /\ tasks' = (tasks \ {t}) \cup {u}
  <2> DEFINE queued == [t EXCEPT !.job = j, !.at = "clear"]
  <2>1. queued.kind = "swap" /\ queued.on = t.on /\ queued.at = "clear" /\ queued.tell = t.tell /\ tasks' = (tasks \ {t}) \cup {queued}
    BY <1>1, <1>3 DEF TaskSet
  <2> HIDE DEF queued
  <2> QED
    BY <2>1
<1>4. ASSUME missed' = missed, tasks' = (tasks \ {t}) \cup {[t EXCEPT !.at = "clear"]}
      PROVE  \E u : u.kind = "swap" /\ u.on = t.on /\ u.at = "clear" /\ u.tell = t.tell /\ tasks' = (tasks \ {t}) \cup {u}
  BY <1>1, <1>4 DEF TaskSet
<1> QED
  BY <1>2, <1>3, <1>4 DEF HandleWrench, Refused

Removing(t, m) == t.kind = "swap" /\ t.on = m /\ t.at \in {"start", "clear"}

LEMMA WrenchStep == Typed /\ WrenchGoes /\ [Next]_vars => WrenchGoes'
<1> SUFFICES ASSUME Typed, WrenchGoes, [Next]_vars,
                    NEW m \in 1..MaxMessages, "wrench" \in emojis'[m]
             PROVE  m \in missed' \/ \E t \in tasks' : Removing(t, m)
  BY DEF WrenchGoes, Removing
<1> DEFINE Goes == m \in missed' \/ \E t \in tasks' : Removing(t, m)
<1>1. "wrench" \in emojis[m] => m \in missed \/ \E t \in tasks : Removing(t, m)
  BY DEF WrenchGoes, Removing
<1>2. ASSUME emojis' = emojis, missed' = missed, tasks \subseteq tasks' PROVE Goes
  BY <1>1, <1>2
<1>3. ASSUME NEW j \in Jobs, ApiRequest(j) \/ Claim(j) PROVE Goes
  BY <1>2, <1>3 DEF ApiRequest, Claim
<1>4. ASSUME NEW j \in Jobs, NEW result, NEW tell, Ends(j, result, tell) PROVE Goes
  BY <1>2, <1>4 DEF Ends
<1>5. CASE UNCHANGED vars \/ GroupAppears \/ PostMessage \/ GroupVanishes
  BY <1>2, <1>5 DEF vars, GroupAppears, PostMessage, GroupVanishes
<1>6. ASSUME NEW t \in tasks, HandleWrench(t) PROVE Goes
  <2>1. "wrench" \in emojis[m]
    BY <1>6 DEF HandleWrench
  <2> QED
    BY <1>1, <1>6, <2>1, WrenchMoves DEF Removing
<1>7. ASSUME NEW t \in tasks, TaskStep(t) PROVE Goes
  <2>1. emojis \in [1..MaxMessages -> SUBSET Emojis]
    BY DEF Typed
  <2>2. "wrench" \in emojis[m]
    BY <1>7, <2>1, ReactionsMove
  <2>3. missed \subseteq missed' /\ (Removing(t, m) => t.on \in missed' \/ emojis' = [emojis EXCEPT ![m] = @ \ {"wrench"}])
    BY <1>7 DEF TaskStep, StartMark, StartFinish, Breaks, ClearWrench, AddWorking, ClearWorking, AddOutcome, Tell,
                Reacts, Removing
  <2>4. ~(emojis' = [emojis EXCEPT ![m] = @ \ {"wrench"}])
    BY DEF Typed
  <2>5. \A u \in tasks : u = t \/ u \in tasks'
    BY <1>7, TaskMoves DEF Moves
  <2> QED
    BY <1>1, <2>2, <2>3, <2>4, <2>5 DEF Removing
<1>8. CASE AddWrench
  <2>1. Removing(Task("swap", None, 0, "none", FALSE, messageId), messageId)
    BY DEF Removing, Task
  <2>2. m # messageId => emojis'[m] = emojis[m]
    BY <1>8 DEF AddWrench, Typed
  <2> QED
    BY <1>1, <1>8, <2>1, <2>2 DEF AddWrench
<1>9. CASE Restart
  <2>1. \A u \in tasks : Removing(u, m) => m \in missed'
    BY <1>9 DEF Restart, Removing
  <2> QED
    BY <1>1, <1>9, <2>1 DEF Restart
<1> QED
  BY <1>3, <1>4, <1>5, <1>6, <1>7, <1>8, <1>9 DEF Next, TimeOut, Report, Cancel

(* A wrench goes from its message, for any messages and wrenches: while it *)
(* is there its handler is at work, unless a call failed or a restart came.*)
THEOREM WrenchesGo == Spec => []WrenchGoes
<1>1. Init => WrenchGoes
  BY DEF Init, WrenchGoes
<1> QED
  BY <1>1, WrenchStep, AlwaysTyped, PTL DEF Spec
-----------------------------------------------------------------------------
(* The end of an attempt that has still to remove the working reaction.    *)
Unmarking(t) == t.kind = "finish" /\ t.at \in {"start", "clear"} /\ messageId = MessageOf(t)

LingerInv ==
    messageId # 0 /\ "working" \in emojis[messageId] =>
        HasActive \/ messageId \in lapsed \/ \E t \in tasks : Unmarking(t)

LEMMA LingerStep == Typed /\ LingerInv /\ [Next]_vars => LingerInv'
<1> SUFFICES ASSUME Typed, LingerInv, [Next]_vars, messageId' # 0, "working" \in emojis'[messageId']
             PROVE  HasActive' \/ messageId' \in lapsed' \/ \E t \in tasks' : Unmarking(t)'
  BY DEF LingerInv
<1> DEFINE Excused == HasActive' \/ messageId' \in lapsed' \/ \E t \in tasks' : Unmarking(t)'
<1>1. ASSUME messageId' = messageId, "working" \in emojis[messageId]
      PROVE  HasActive \/ messageId \in lapsed \/ \E t \in tasks : Unmarking(t)
  BY <1>1 DEF LingerInv
<1>2. ASSUME messageId' = messageId PROVE \A t : Unmarking(t) => Unmarking(t)'
  BY <1>2 DEF Unmarking, MessageOf
<1>3. ASSUME UNCHANGED <<messageId, emojis, lapsed>>, HasActive => HasActive', tasks \subseteq tasks' PROVE Excused
  BY <1>1, <1>2, <1>3
<1>4. ASSUME NEW j \in Jobs, RequestFix(j) PROVE Excused
  BY <1>4 DEF RequestFix, Typed, HasActive, IsActive, Active
<1>5. ASSUME NEW j \in Jobs, Claim(j) PROVE Excused
  BY <1>5 DEF Claim, Typed, HasActive, IsActive, Active
<1>6. ASSUME NEW j \in Jobs, NEW result, NEW tell, Ends(j, result, tell) PROVE Excused
  <2>1. messageId' = messageId
    BY <1>6 DEF Ends, group
  <2>2. PICK u \in tasks' : u.kind = "finish" /\ u.at = "start" /\ u.on = 0
    <3> DEFINE new == Task("finish", j, ends[j] + 1, result, tell, 0)
    <3>1. new.kind = "finish" /\ new.at = "start" /\ new.on = 0
      BY DEF Task
    <3>2. new \in tasks'
      BY <1>6 DEF Ends
    <3> HIDE DEF new
    <3> QED
      BY <3>1, <3>2
  <2>3. Unmarking(u)'
    BY <2>1, <2>2 DEF Unmarking, MessageOf
  <2> QED
    BY <2>2, <2>3
<1>7. CASE UNCHANGED vars \/ GroupAppears
  <2>1. UNCHANGED <<messageId, emojis, lapsed, status, tasks>>
    BY <1>7 DEF vars, group, table, GroupAppears
  <2> QED
    BY <1>3, <2>1 DEF HasActive, IsActive
<1>8. ASSUME NEW t \in tasks, HandleWrench(t) PROVE Excused
  <2>1. UNCHANGED <<messageId, emojis, lapsed>> /\ \A u \in tasks : Unmarking(u) => u \in tasks'
    BY <1>8, WrenchMoves DEF HandleWrench, group, Unmarking
  <2>2. CASE status' = status
    BY <1>1, <1>2, <2>1, <2>2 DEF HasActive, IsActive
  <2>3. status' = status \/ \E j \in Jobs : RequestFix(j)
    BY <1>8 DEF HandleWrench
  <2> QED
    BY <1>4, <2>2, <2>3
<1>9. ASSUME NEW t \in tasks, TaskStep(t) PROVE Excused
  <2>1. messageId' = messageId /\ HasActive' = HasActive
    BY <1>9 DEF TaskStep, group, table, HasActive, IsActive
  <2>2. \A u \in tasks : u = t \/ u \in tasks'
    BY <1>9, TaskMoves DEF Moves
  <2>3. t \in TaskSet /\ TaskOK(t) /\ messageId \in 1..MaxMessages /\ emojis \in [1..MaxMessages -> SUBSET Emojis]
    BY <1>9, <2>1, ReactionsAssumption DEF Typed
  <2>4. ASSUME "working" \in emojis[messageId], lapsed \subseteq lapsed', Unmarking(t) => messageId \in lapsed' PROVE Excused
    BY <1>1, <1>2, <2>1, <2>2, <2>4
  <2>5. CASE StartFinish(t)
    <3>1. lapsed' = lapsed /\ emojis' = emojis
      BY <2>5 DEF StartFinish
    <3>2. ASSUME Unmarking(t) PROVE \E u \in tasks' : Unmarking(u)'
      <4> DEFINE next == [t EXCEPT !.at = "clear", !.on = messageId]
      <4>1. next \in tasks'
        BY <2>1, <2>5, <3>2 DEF StartFinish, Unmarking, Becomes
      <4>2. next.kind = "finish" /\ next.at = "clear" /\ next.on = messageId
        BY <2>3, <2>5 DEF StartFinish, TaskSet
      <4> HIDE DEF next
      <4> QED
        BY <2>1, <4>1, <4>2 DEF Unmarking, MessageOf
    <3> QED
      BY <1>1, <1>2, <2>1, <2>2, <3>1, <3>2
  <2>6. CASE StartMark(t)
    BY <2>1, <2>4, <2>6 DEF StartMark, Unmarking
  <2>7. CASE Breaks(t)
    <3>1. Unmarking(t) => t.job # None /\ Lapses(t) = {messageId}
      BY <2>1, <2>3, ReactionsAssumption DEF Unmarking, TaskOK, Lapses
    <3> QED
      BY <2>1, <2>4, <2>7, <3>1 DEF Breaks, Unmarking
  <2>8. ASSUME NEW ok \in BOOLEAN, ClearWrench(t, ok) PROVE Excused
    <3>1. "working" \in emojis[messageId]
      BY <2>1, <2>3, <2>8 DEF ClearWrench, Reacts
    <3> QED
      BY <2>4, <2>8, <3>1 DEF ClearWrench, Unmarking
  <2>9. ASSUME NEW ok \in BOOLEAN, AddWorking(t, ok) PROVE Excused
    <3>1. t.job \in Jobs \/ t.job = None
      BY <2>3 DEF TaskSet
    <3>2. CASE ok /\ IsActive(t.job) /\ t.job \in Jobs
      BY <2>1, <3>2 DEF HasActive
    <3>3. t.job # None
      BY <2>3, <2>9 DEF AddWorking, TaskOK
    <3>4. CASE ~(ok /\ IsActive(t.job))
      <4>1. t.on = messageId \/ "working" \in emojis[messageId]
        BY <2>1, <2>3, <2>9 DEF AddWorking, Reacts
      <4> QED
        BY <2>1, <2>4, <2>9, <3>4, <4>1 DEF AddWorking, Unmarking
    <3> QED
      BY <3>1, <3>2, <3>3, <3>4
  <2>10. ASSUME NEW ok \in BOOLEAN, ClearWorking(t, ok) PROVE Excused
    <3>1. CASE ok
      <4>1. t.on # messageId /\ "working" \in emojis[messageId]
        BY <2>1, <2>3, <2>10, <3>1 DEF ClearWorking, Reacts, Clears
      <4>2. ~Unmarking(t)
        BY <2>3, <2>10, <4>1 DEF Unmarking, MessageOf, TaskOK, ClearWorking
      <4>3. messageId \in lapsed => messageId \in lapsed'
        BY <2>10, <3>1, <4>1 DEF ClearWorking, Clears
      <4> QED
        BY <1>1, <1>2, <2>1, <2>2, <4>1, <4>2, <4>3
    <3>2. CASE ~ok
      <4>1. Unmarking(t) => messageId = t.on
        BY <2>3, <2>10 DEF Unmarking, MessageOf, TaskOK, ClearWorking
      <4> QED
        BY <2>1, <2>4, <2>10, <3>2, <4>1 DEF ClearWorking
    <3> QED
      BY <3>1, <3>2
  <2>11. ASSUME NEW ok \in BOOLEAN, AddOutcome(t, ok) PROVE Excused
    <3>1. "working" \in emojis[messageId]
      <4>1. "working" \notin Outcome(t)
        BY DEF Outcome, Reported
      <4>2. emojis' = emojis \/ emojis' = [emojis EXCEPT ![t.on] = emojis[t.on] \cup Outcome(t)]
        BY <2>11 DEF AddOutcome, Reacts
      <4> QED
        BY <2>1, <2>3, <4>1, <4>2
    <3>2. lapsed' = lapsed /\ t.at = "outcome"
      BY <2>11 DEF AddOutcome
    <3>3. ~Unmarking(t)
      BY <3>2 DEF Unmarking
    <3> QED
      BY <2>4, <3>1, <3>2, <3>3
  <2>12. ASSUME NEW ok \in BOOLEAN, Tell(t, ok) PROVE Excused
    BY <2>1, <2>4, <2>12 DEF Tell, Unmarking
  <2> QED
    BY <1>9, <2>5, <2>6, <2>7, <2>8, <2>9, <2>10, <2>11, <2>12 DEF TaskStep
<1>10. CASE AddWrench
  <2>1. UNCHANGED <<messageId, status, lapsed>> /\ tasks \subseteq tasks'
    BY <1>10 DEF AddWrench, group, table
  <2>2. "working" \in emojis[messageId]
    BY <1>10, <2>1, ReactionsAssumption DEF AddWrench, Typed
  <2> QED
    BY <1>1, <1>2, <2>1, <2>2 DEF HasActive, IsActive
<1>11. CASE PostMessage
  <2>1. messageId' = posted + 1 /\ posted + 1 \in 1..MaxMessages /\ posted + 1 > posted /\ emojis' = emojis
    BY <1>11, ReactionsAssumption DEF PostMessage, Typed
  <2> QED
    BY <2>1 DEF Typed
<1>12. CASE GroupVanishes
  BY <1>12 DEF GroupVanishes
<1>13. CASE Restart
  <2>1. UNCHANGED <<messageId, emojis, status>>
    BY <1>13 DEF Restart, group, table
  <2>2. ASSUME NEW t \in tasks, Unmarking(t) PROVE messageId \in lapsed'
    <3>1. t.job # None /\ messageId # 0
      BY <2>1, <2>2, ReactionsAssumption DEF Typed, TaskOK, Unmarking
    <3>2. messageId \in Lapses(t)
      BY <2>2, <3>1 DEF Unmarking, Lapses
    <3> QED
      BY <1>13, <3>2 DEF Restart
  <2> QED
    BY <1>1, <1>13, <2>1, <2>2 DEF Restart, HasActive, IsActive
<1> QED
  BY <1>4, <1>5, <1>6, <1>7, <1>8, <1>9, <1>10, <1>11, <1>12, <1>13 DEF Next, ApiRequest, TimeOut, Report, Cancel

(* No working reaction lingers on the group's message, for any attempts,   *)
(* messages and faults: an attempt is in flight, its removal is under way, *)
(* or a call failed, a restart came, or it was added after the end.        *)
THEOREM NoReactionLingers == Spec => []NoneLingers
<1>1. Init => LingerInv
  BY DEF Init, LingerInv
<1>2. LingerInv => NoneLingers
  BY DEF LingerInv, NoneLingers, Unmarking
<1> QED
  BY <1>1, <1>2, LingerStep, AlwaysTyped, PTL DEF Spec
-----------------------------------------------------------------------------
(* The ends whose requester has still to be told, one task for each: the   *)
(* nth end of an attempt is told by the task with its number.              *)
Telling == {t \in tasks : t.tell}
ToldOf(j) == {t \in Telling : t.job = j}

TellInv ==
    /\ untold \in [Jobs -> Int]
    /\ IsFiniteSet(Telling)
    /\ \A t \in Telling : t.nth <= ends[t.job]
    /\ \A t, u \in Telling : t.job = u.job /\ t.nth = u.nth => t = u
    /\ \A j \in Jobs : untold[j] = Cardinality(ToldOf(j))

LEMMA PendingTold == \A j : Pending(j) = Cardinality(ToldOf(j))
<1>1. \A j : {t \in tasks : t.job = j /\ t.tell} = ToldOf(j)
  BY DEF ToldOf, Telling
<1> QED
  BY <1>1 DEF Pending


LEMMA TellStep == Typed /\ TellInv /\ [Next]_vars => TellInv'
<1> SUFFICES ASSUME Typed, TellInv, [Next]_vars PROVE TellInv'
  OBVIOUS
<1>1. ASSUME UNCHANGED <<untold, ends>>, \A t \in tasks : t.tell => t \in tasks',
             \A t \in tasks' : t.tell => t \in tasks
      PROVE  TellInv'
  <2>1. Telling' = Telling
    BY <1>1 DEF Telling
  <2> QED
    BY <1>1, <2>1 DEF TellInv, ToldOf
<1>2. ASSUME NEW j \in Jobs, ApiRequest(j) PROVE TellInv'
  BY <1>1, <1>2 DEF ApiRequest, history, Task
<1>3. ASSUME NEW j \in Jobs, Claim(j) PROVE TellInv'
  BY <1>1, <1>3 DEF Claim, history
<1>4. ASSUME NEW j \in Jobs, NEW result, NEW tell \in BOOLEAN, Ends(j, result, tell) PROVE TellInv'
  <2> DEFINE new == Task("finish", j, ends[j] + 1, result, tell, 0)
  <2>1. new.job = j /\ new.nth = ends[j] + 1 /\ new.tell = tell
    BY DEF Task
  <2>2. tasks' = tasks \cup {new} /\ ends' = [ends EXCEPT ![j] = @ + 1] /\ ends \in [Jobs -> Nat]
    BY <1>4 DEF Ends, Typed
  <2>3. untold' = IF tell THEN [untold EXCEPT ![j] = @ + 1] ELSE untold
    BY <1>4 DEF Ends
  <2> HIDE DEF new
  <2>4. \A t \in Telling : t.job \in Jobs /\ t.nth \in Nat
    BY DEF Telling, Typed, TaskOK, TaskSet
  <2>5. new \notin Telling
    BY <2>1, <2>2, <2>4 DEF TellInv
  <2>6. CASE tell
    <3>1. Telling' = Telling \cup {new}
      BY <2>1, <2>2, <2>6 DEF Telling
    <3>2. \A k : ToldOf(k)' = IF k = j THEN ToldOf(k) \cup {new} ELSE ToldOf(k)
      BY <2>1, <3>1 DEF ToldOf
    <3>3. \A k : IsFiniteSet(ToldOf(k)) /\ new \notin ToldOf(k)
      BY <2>5, FS_Subset DEF ToldOf, TellInv
    <3>4. Cardinality(ToldOf(j) \cup {new}) = Cardinality(ToldOf(j)) + 1
      BY <3>3, FS_AddElement
    <3>5. \A k \in Jobs : untold'[k] = Cardinality(ToldOf(k)')
      BY <2>3, <2>6, <3>2, <3>4 DEF TellInv
    <3>6. IsFiniteSet(Telling')
      BY <3>1, FS_AddElement DEF TellInv
    <3>7. \A t \in Telling' : t.nth <= ends'[t.job]
      BY <2>1, <2>2, <2>4, <3>1 DEF TellInv
    <3>8. \A t, u \in Telling' : t.job = u.job /\ t.nth = u.nth => t = u
      BY <2>1, <2>2, <2>4, <3>1 DEF TellInv
    <3>9. untold' \in [Jobs -> Int]
      BY <2>3, <2>6 DEF TellInv
    <3> QED
      BY <3>5, <3>6, <3>7, <3>8, <3>9 DEF TellInv
  <2>7. CASE ~tell
    <3>1. Telling' = Telling /\ untold' = untold
      BY <2>1, <2>2, <2>3, <2>7 DEF Telling
    <3>2. \A t \in Telling : t.nth <= ends'[t.job]
      BY <2>2, <2>4 DEF TellInv
    <3> QED
      BY <3>1, <3>2 DEF TellInv, ToldOf
  <2> QED
    BY <2>6, <2>7
<1>5. ASSUME NEW t \in tasks, HandleWrench(t) PROVE TellInv'
  <2>1. ~t.tell /\ UNCHANGED <<untold, ends>>
    BY <1>5 DEF HandleWrench, history, Typed, TaskOK
  <2> QED
    BY <1>1, <1>5, <2>1, WrenchMoves
<1>6. ASSUME NEW t \in tasks, TaskStep(t) PROVE TellInv'
  <2>1. Moves(t) /\ ends' = ends
    BY <1>6, TaskMoves
  <2>2. CASE ~t.tell
    BY <1>1, <2>1, <2>2 DEF Moves, Successor
  <2>3. CASE t.tell
    <3> DEFINE Rest == Telling \ {t}
    <3>1. t \in Telling /\ t.job \in Jobs
      BY <2>3 DEF Telling, Typed, TaskOK
    <3>2. \A k : ToldOf(k) \ {t} = {u \in Rest : u.job = k} /\ IsFiniteSet(ToldOf(k)) /\ IsFiniteSet(ToldOf(k) \ {t})
      BY FS_Subset DEF ToldOf, TellInv
    <3>3. Cardinality(ToldOf(t.job) \ {t}) = Cardinality(ToldOf(t.job)) - 1 /\ Cardinality(ToldOf(t.job)) \in Nat
      <4>1. t \in ToldOf(t.job) /\ IsFiniteSet(ToldOf(t.job))
        BY <3>1, <3>2 DEF ToldOf
      <4> QED
        BY <4>1, FS_RemoveElement, FS_CardinalityType
    <3>4. ASSUME NEW u, Successor(t, u), tasks' = (tasks \ {t}) \cup {u}, untold' = untold PROVE TellInv'
      <4>1. u.job = t.job /\ u.nth = t.nth /\ u.tell
        BY <2>3, <3>4 DEF Successor
      <4>2. Telling' = Rest \cup {u}
        BY <3>4, <4>1 DEF Telling
      <4>3. u \notin Rest
        BY <3>1, <4>1 DEF TellInv
      <4>4. \A k : ToldOf(k)' = IF k = t.job THEN (ToldOf(k) \ {t}) \cup {u} ELSE ToldOf(k)
        BY <3>1, <4>1, <4>2 DEF ToldOf
      <4>5. Cardinality((ToldOf(t.job) \ {t}) \cup {u}) = Cardinality(ToldOf(t.job))
        <5>1. u \notin ToldOf(t.job) \ {t} /\ IsFiniteSet(ToldOf(t.job) \ {t})
          BY <3>2, <4>3 DEF ToldOf
        <5>2. Cardinality((ToldOf(t.job) \ {t}) \cup {u}) = Cardinality(ToldOf(t.job) \ {t}) + 1
          BY <5>1, FS_AddElement
        <5> QED
          BY <3>3, <5>2
      <4>6. \A k \in Jobs : untold'[k] = Cardinality(ToldOf(k)')
        BY <3>4, <4>4, <4>5 DEF TellInv
      <4>7. IsFiniteSet(Telling')
        BY <4>2, FS_Subset, FS_AddElement DEF TellInv
      <4> QED
        BY <2>1, <3>1, <3>4, <4>1, <4>2, <4>6, <4>7 DEF TellInv
    <3>5. ASSUME tasks' = tasks \ {t}, untold' = [untold EXCEPT ![t.job] = @ - 1] PROVE TellInv'
      <4>1. Telling' = Rest
        BY <3>5 DEF Telling
      <4>2. \A k : ToldOf(k)' = IF k = t.job THEN ToldOf(k) \ {t} ELSE ToldOf(k)
        BY <3>1, <4>1 DEF ToldOf
      <4>3. \A k \in Jobs : untold'[k] = Cardinality(ToldOf(k)')
        BY <3>1, <3>3, <3>5, <4>2 DEF TellInv
      <4>4. IsFiniteSet(Telling')
        BY <4>1, FS_Subset DEF TellInv
      <4>5. untold' \in [Jobs -> Int]
        BY <3>1, <3>5 DEF TellInv
      <4> QED
        BY <2>1, <4>1, <4>3, <4>4, <4>5 DEF TellInv
    <3> QED
      BY <2>1, <2>3, <3>4, <3>5 DEF Moves
  <2> QED
    BY <2>2, <2>3
<1>7. CASE UNCHANGED vars \/ AddWrench \/ GroupAppears \/ PostMessage \/ GroupVanishes
  BY <1>1, <1>7 DEF vars, history, AddWrench, GroupAppears, PostMessage, GroupVanishes, Task
<1>8. CASE Restart
  <2>1. Telling' = {} /\ ends' = ends
    BY <1>8 DEF Restart, Telling
  <2>2. \A j \in Jobs : ToldOf(j)' = {}
    BY <2>1 DEF ToldOf
  <2>3. untold' = [j \in Jobs |-> untold[j] - Cardinality(ToldOf(j))]
    BY <1>8, PendingTold DEF Restart
  <2>4. \A j \in Jobs : untold'[j] = 0
    BY <2>3 DEF TellInv
  <2> QED
    BY <2>1, <2>2, <2>3, <2>4, FS_EmptySet DEF TellInv
<1> QED
  BY <1>2, <1>3, <1>4, <1>5, <1>6, <1>7, <1>8 DEF Next, TimeOut, Report, Cancel

(* Every end of every attempt has a task that tells its requester, until   *)
(* it has: only a failed message, a broken task or a restart loses one,    *)
(* for any attempts, ends and faults.                                      *)
THEOREM EveryEndIsTold == Spec => []EveryEndTold
<1>1. Init => TellInv
  <2>1. ASSUME Init PROVE TellInv
    <3>1. Telling = {} /\ untold = [j \in Jobs |-> 0]
      BY <2>1 DEF Init, Telling
    <3>2. \A j \in Jobs : ToldOf(j) = {}
      BY <3>1 DEF ToldOf
    <3> QED
      BY <3>1, <3>2, FS_EmptySet DEF TellInv
  <2> QED
    BY <2>1
<1>2. TellInv => EveryEndTold
  BY PendingTold DEF TellInv, EveryEndTold
<1> QED
  BY <1>1, <1>2, TellStep, AlwaysTyped, PTL DEF Spec
-----------------------------------------------------------------------------
(* The rest of the type invariant: the messages the history names exist,   *)
(* no attempt is told of more often than it ended, and no two tasks do the *)
(* same for the same end of an attempt.                                    *)
PlaceInv ==
    /\ handed \subseteq Jobs /\ live \in BOOLEAN /\ (messageId # 0 => live)
    /\ wrenches \in 0..MaxWrenches /\ faults \in 0..MaxFaults
    /\ lapsed \subseteq 1..posted /\ missed \subseteq 1..posted

CountInv ==
    /\ ended \in 0..MaxEnds
    /\ \A j \in Jobs : ends[j] <= ended /\ untold[j] <= ends[j]

DistinctInv ==
    /\ \A t \in tasks : IF t.kind = "finish" THEN t.nth <= ends[t.job]
                        ELSE t.nth = 0 /\ (t.job # None => status[t.job] # "none")
    /\ \A t, u \in tasks : t.kind = u.kind /\ t.job = u.job /\ t.nth = u.nth /\ t.job # None => t = u

LEMMA FaultCounts ==
    ASSUME faults \in 0..MaxFaults, NEW happens \in BOOLEAN, Fault(happens)
    PROVE  faults' \in 0..MaxFaults
  BY ReactionsAssumption DEF Fault

LEMMA PlaceStep == Typed /\ PlaceInv /\ [Next]_vars => PlaceInv'
<1> SUFFICES ASSUME Typed, PlaceInv, [Next]_vars PROVE PlaceInv'
  OBVIOUS
<1>1. CASE UNCHANGED vars
  BY <1>1 DEF PlaceInv, vars, table, group, history
<1>2. ASSUME NEW j \in Jobs, ApiRequest(j) PROVE PlaceInv'
  BY <1>2 DEF PlaceInv, ApiRequest, group
<1>3. ASSUME NEW j \in Jobs, Claim(j) PROVE PlaceInv'
  BY <1>3 DEF PlaceInv, Claim, group
<1>4. ASSUME NEW j, NEW result, NEW tell, Ends(j, result, tell) PROVE PlaceInv'
  BY <1>4 DEF PlaceInv, Ends, group
<1>5. ASSUME NEW t \in tasks, HandleWrench(t) PROVE PlaceInv'
  <2>1. t.on \in 1..posted
    <3>1. t.kind = "swap" /\ posted \in Nat
      <4>1. t.kind = "swap"
        BY <1>5 DEF HandleWrench
      <4>2. posted \in Nat
        BY ReactionsAssumption DEF Typed
      <4> QED
        BY <4>1, <4>2
    <3>2. t.on \in 0..posted /\ t.on # 0
      BY <3>1 DEF Typed, TaskOK, TaskSet
    <3> QED
      BY <3>1, <3>2
  <2>2. missed' \subseteq missed \cup {t.on}
    BY <1>5 DEF HandleWrench
  <2> QED
    BY <1>5, <2>1, <2>2 DEF PlaceInv, HandleWrench, group
<1>6. ASSUME NEW t \in tasks, MessageOf(t) # 0 PROVE MessageOf(t) \in 1..posted
  BY <1>6, ReactionsAssumption DEF Typed, TaskSet, MessageOf
<1>7. ASSUME NEW t \in tasks, TaskStep(t) PROVE PlaceInv'
  <2>1. UNCHANGED <<table, group, wrenches>> /\ t \in TaskSet /\ TaskOK(t)
    BY <1>7, TaskMoves DEF Typed
  <2>2. faults' \in 0..MaxFaults
    BY <1>7, FaultCounts DEF TaskStep, PlaceInv
  <2>3. t.kind = "swap" \/ t.at \in {"clear", "add", "outcome"} => t.on \in 1..posted
    BY <2>1, ReactionsAssumption DEF TaskOK, TaskSet, Typed
  <2>4. Lapses(t) \subseteq 1..posted
    BY <1>6 DEF Lapses
  <2>5. lapsed' \subseteq lapsed \cup (1..posted) /\ missed' \subseteq missed \cup (1..posted)
    <3>1. CASE StartMark(t) \/ StartFinish(t) \/ \E ok \in BOOLEAN : AddOutcome(t, ok) \/ Tell(t, ok)
      BY <3>1 DEF StartMark, StartFinish, AddOutcome, Tell
    <3>2. CASE Breaks(t)
      BY <2>3, <2>4, <3>2 DEF Breaks
    <3>3. CASE \E ok \in BOOLEAN : ClearWrench(t, ok) \/ AddWorking(t, ok) \/ ClearWorking(t, ok)
      BY <2>3, <3>3 DEF ClearWrench, AddWorking, ClearWorking
    <3> QED
      BY <1>7, <3>1, <3>2, <3>3 DEF TaskStep
  <2> QED
    BY <2>1, <2>2, <2>5 DEF PlaceInv, table, group
<1>8. CASE AddWrench
  BY <1>8, ReactionsAssumption DEF PlaceInv, AddWrench, table, group
<1>9. CASE GroupAppears \/ GroupVanishes
  BY <1>9 DEF PlaceInv, GroupAppears, GroupVanishes, table
<1>10. CASE PostMessage
  BY <1>10, ReactionsAssumption DEF PlaceInv, PostMessage, table, Typed
<1>11. CASE Restart
  <2>1. faults' \in 0..MaxFaults
    BY <1>11, FaultCounts DEF Restart, PlaceInv
  <2>2. UNION {Lapses(t) : t \in tasks} \subseteq 1..posted
    BY <1>6 DEF Lapses
  <2>3. \A t \in tasks : t.kind = "swap" => t.on \in 1..posted
    BY ReactionsAssumption DEF Typed, TaskOK, TaskSet
  <2> QED
    BY <1>11, <2>1, <2>2, <2>3 DEF PlaceInv, Restart, table, group
<1> QED
  BY <1>1, <1>2, <1>3, <1>4, <1>5, <1>7, <1>8, <1>9, <1>10, <1>11 DEF Next, TimeOut, Report, Cancel

LEMMA CountStep == Typed /\ TellInv /\ CountInv /\ [Next]_vars => CountInv'
<1> SUFFICES ASSUME Typed, TellInv, CountInv, [Next]_vars PROVE CountInv'
  OBVIOUS
<1>1. untold \in [Jobs -> Int] /\ ends \in [Jobs -> Nat] /\ ended \in 0..MaxEnds /\ MaxEnds \in Nat
  BY ReactionsAssumption DEF Typed, TellInv, CountInv
<1>2. ASSUME UNCHANGED <<ends, ended>>, \A j \in Jobs : untold'[j] <= untold[j] \/ untold'[j] <= 0, untold' \in [Jobs -> Int]
      PROVE  CountInv'
  BY <1>1, <1>2 DEF CountInv
<1>3. ASSUME NEW j \in Jobs, NEW result, NEW tell \in BOOLEAN, Ends(j, result, tell) PROVE CountInv'
  <2>1. ended' = ended + 1 /\ ended' \in 0..MaxEnds
    BY <1>1, <1>3 DEF Ends
  <2>2. \A k \in Jobs : /\ ends'[k] = IF k = j THEN ends[k] + 1 ELSE ends[k]
                        /\ untold'[k] = untold[k] \/ (k = j /\ untold'[k] = untold[k] + 1)
    BY <1>1, <1>3 DEF Ends
  <2> QED
    BY <1>1, <2>1, <2>2 DEF CountInv
<1>4. ASSUME NEW t \in tasks, TaskStep(t) PROVE CountInv'
  <2>1. UNCHANGED <<ends, ended>> /\ (untold' = untold \/ (t.tell /\ untold' = [untold EXCEPT ![t.job] = @ - 1]))
    BY <1>4, TaskMoves DEF Moves
  <2>2. t.tell => t.job \in Jobs
    BY DEF Typed, TaskOK
  <2>3. \A j \in Jobs : untold'[j] <= untold[j]
    BY <1>1, <2>1, <2>2
  <2>4. untold' \in [Jobs -> Int]
    BY <1>1, <2>1, <2>2
  <2> QED
    BY <1>2, <2>1, <2>3, <2>4
<1>5. CASE Restart
  <2>1. untold' = [j \in Jobs |-> untold[j] - Cardinality(ToldOf(j))] /\ UNCHANGED <<ends, ended>>
    BY <1>5, PendingTold DEF Restart
  <2>2. \A j \in Jobs : untold'[j] = 0
    BY <1>1, <2>1 DEF TellInv
  <2>3. untold' \in [Jobs -> Int]
    BY <2>1, <2>2
  <2> QED
    BY <1>2, <2>1, <2>2, <2>3
<1>6. ASSUME UNCHANGED history PROVE CountInv'
  BY <1>6 DEF CountInv, history
<1> QED
  BY <1>3, <1>4, <1>5, <1>6 DEF Next, vars, ApiRequest, Claim, TimeOut, Report, Cancel, HandleWrench,
     AddWrench, GroupAppears, PostMessage, GroupVanishes

LEMMA DistinctStep == Typed /\ DistinctInv /\ [Next]_vars => DistinctInv'
<1> SUFFICES ASSUME Typed, DistinctInv, [Next]_vars PROVE DistinctInv'
  OBVIOUS
<1>0. \A t \in tasks : t.job \in Jobs \cup {None} /\ t.nth \in Nat /\ (t.kind # "swap" => t.job \in Jobs)
  BY DEF Typed, TaskOK, TaskSet
<1>1. ASSUME UNCHANGED ends, \A k \in Jobs : status[k] # "none" => status'[k] # "none", tasks' \subseteq tasks
      PROVE  DistinctInv'
  BY <1>0, <1>1 DEF DistinctInv
<1>2. ASSUME NEW t \in tasks, NEW u, UNCHANGED <<ends, status>>, tasks' = (tasks \ {t}) \cup {u},
             u.kind = t.kind, u.job = t.job, u.nth = t.nth
      PROVE  DistinctInv'
  BY <1>0, <1>2 DEF DistinctInv
<1>3. ASSUME NEW j \in Jobs, RequestFix(j)
      PROVE  /\ status'[j] # "none" /\ \A k \in Jobs : status[k] # "none" => status'[k] # "none"
             /\ \A t \in tasks : t.kind # "finish" => t.job # j
  <2>1. j # None
    BY ReactionsAssumption
  <2> QED
    BY <1>3, <2>1 DEF RequestFix, Typed, DistinctInv
<1>4. ASSUME NEW j \in Jobs, ApiRequest(j) PROVE DistinctInv'
  <2> DEFINE new == Task("mark", j, 0, "none", FALSE, 0)
  <2>1. new.kind = "mark" /\ new.job = j /\ new.nth = 0
    BY DEF Task
  <2>2. tasks' = tasks \cup {new} /\ ends' = ends /\ RequestFix(j)
    BY <1>4 DEF ApiRequest, history
  <2> HIDE DEF new
  <2> QED
    BY <1>0, <1>3, <2>1, <2>2 DEF DistinctInv
<1>5. ASSUME NEW j \in Jobs, Claim(j) PROVE DistinctInv'
  <2>1. \A k \in Jobs : status[k] # "none" => status'[k] # "none"
    BY <1>5 DEF Claim, Typed
  <2> QED
    BY <1>1, <1>5, <2>1 DEF Claim, history
<1>6. ASSUME NEW j \in Jobs, NEW result \in Outcomes, NEW tell, status' = [status EXCEPT ![j] = result], Ends(j, result, tell)
      PROVE  DistinctInv'
  <2> DEFINE new == Task("finish", j, ends[j] + 1, result, tell, 0)
  <2>1. new.kind = "finish" /\ new.job = j /\ new.nth = ends[j] + 1
    BY DEF Task
  <2>2. tasks' = tasks \cup {new} /\ ends' = [ends EXCEPT ![j] = @ + 1] /\ ends \in [Jobs -> Nat]
    BY <1>6 DEF Ends, Typed
  <2> HIDE DEF new
  <2>3. \A k \in Jobs : status[k] # "none" => status'[k] # "none"
    BY <1>6 DEF Typed, Outcomes, Reported
  <2>4. \A k \in Jobs : ends'[k] = IF k = j THEN ends[k] + 1 ELSE ends[k]
    BY <2>2
  <2>5. \A t \in tasks : t.kind = "finish" => t.nth <= ends[t.job] /\ t.job \in Jobs
    BY <1>0 DEF DistinctInv
  <2>6. \A t \in tasks : ~(t.kind = "finish" /\ t.job = j /\ t.nth = ends[j] + 1)
    BY <1>0, <2>2, <2>5
  <2>7. \A t \in tasks' : t.kind = "finish" => t.nth <= ends'[t.job]
    BY <1>0, <2>1, <2>2, <2>4, <2>5
  <2>8. \A t \in tasks' : t.kind # "finish" => t.nth = 0 /\ (t.job # None => status'[t.job] # "none")
    BY <1>0, <2>1, <2>2, <2>3 DEF DistinctInv
  <2>9. \A t, u \in tasks' : t.kind = u.kind /\ t.job = u.job /\ t.nth = u.nth /\ t.job # None => t = u
    BY <2>1, <2>2, <2>6 DEF DistinctInv
  <2> QED
    BY <2>7, <2>8, <2>9 DEF DistinctInv
<1>7. ASSUME NEW t \in tasks, HandleWrench(t) PROVE DistinctInv'
  <2>1. t \in TaskSet /\ t.kind = "swap" /\ ends' = ends
    BY <1>7 DEF Typed, HandleWrench, history
  <2>2. ASSUME NEW j \in Jobs, RequestFix(j), tasks' = (tasks \ {t}) \cup {[t EXCEPT !.job = j, !.at = "clear"]}
        PROVE  DistinctInv'
    <3> DEFINE queued == [t EXCEPT !.job = j, !.at = "clear"]
    <3>1. queued.kind = "swap" /\ queued.job = j /\ queued.nth = t.nth
      BY <2>1 DEF TaskSet
    <3>2. tasks' = (tasks \ {t}) \cup {queued}
      BY <2>2
    <3> HIDE DEF queued
    <3> QED
      BY <1>0, <1>3, <2>1, <2>2, <3>1, <3>2 DEF DistinctInv
  <2>3. ASSUME status' = status, tasks' = (tasks \ {t}) \cup Refused(t) PROVE DistinctInv'
    <3> DEFINE refused == [t EXCEPT !.at = "clear"]
    <3>1. refused.kind = t.kind /\ refused.job = t.job /\ refused.nth = t.nth
      BY <2>1 DEF TaskSet
    <3>2. tasks' = (tasks \ {t}) \cup {refused}
      BY <2>3 DEF Refused
    <3> HIDE DEF refused
    <3> QED
      BY <1>2, <2>1, <2>3, <3>1, <3>2
  <2>4. CASE status' = status /\ tasks' = tasks \ {t}
    BY <1>1, <2>1, <2>4
  <2> QED
    BY <1>7, <2>2, <2>3, <2>4 DEF HandleWrench
<1>8. ASSUME NEW t \in tasks, TaskStep(t) PROVE DistinctInv'
  <2>1. Moves(t) /\ ends' = ends /\ status' = status
    BY <1>8, TaskMoves DEF table
  <2>2. CASE tasks' = tasks \ {t}
    BY <1>1, <2>1, <2>2
  <2>3. ASSUME NEW u, Successor(t, u), tasks' = (tasks \ {t}) \cup {u} PROVE DistinctInv'
    BY <1>2, <2>1, <2>3 DEF Successor
  <2> QED
    BY <2>1, <2>2, <2>3 DEF Moves
<1>9. CASE AddWrench
  <2> DEFINE new == Task("swap", None, 0, "none", FALSE, messageId)
  <2>1. new.kind = "swap" /\ new.job = None /\ new.nth = 0
    BY DEF Task
  <2>2. tasks' = tasks \cup {new} /\ ends' = ends /\ status' = status
    BY <1>9 DEF AddWrench, table, history
  <2> HIDE DEF new
  <2> QED
    BY <1>0, <2>1, <2>2 DEF DistinctInv
<1>10. CASE UNCHANGED vars \/ GroupAppears \/ PostMessage \/ GroupVanishes \/ Restart
  BY <1>1, <1>10 DEF vars, table, history, GroupAppears, PostMessage, GroupVanishes, Restart
<1>11. ASSUME NEW j \in Jobs, TimeOut(j) PROVE DistinctInv'
  BY <1>6, <1>11 DEF TimeOut, Outcomes, Reported
<1>12. ASSUME NEW j \in Jobs, NEW result \in Reports, Report(j, result) PROVE DistinctInv'
  BY <1>6, <1>12, ReactionsAssumption DEF Report, Outcomes, Reported
<1>13. ASSUME NEW j \in Jobs, NEW byRequester \in BOOLEAN, Cancel(j, byRequester) PROVE DistinctInv'
  BY <1>6, <1>13 DEF Cancel, Outcomes
<1> QED
  BY <1>4, <1>5, <1>7, <1>8, <1>9, <1>10, <1>11, <1>12, <1>13 DEF Next

(* The table, the messages, the tasks and the history have their types,    *)
(* for any attempts, messages and faults; no two tasks do the same for one *)
(* end of an attempt, and nobody is told of more ends than there were.     *)
THEOREM TypeCorrect == Spec => []TypeOK
<1>1. Init => TellInv /\ PlaceInv /\ CountInv /\ DistinctInv
  <2>1. ASSUME Init PROVE TellInv
    <3>1. Telling = {} /\ untold = [j \in Jobs |-> 0]
      BY <2>1 DEF Init, Telling
    <3>2. \A j \in Jobs : ToldOf(j) = {}
      BY <3>1 DEF ToldOf
    <3> QED
      BY <3>1, <3>2, FS_EmptySet DEF TellInv
  <2>2. ASSUME Init PROVE PlaceInv /\ CountInv /\ DistinctInv
    <3>1. PlaceInv
      <4>1. {0} \subseteq 0..MaxWrenches /\ {0} \subseteq 0..MaxFaults
        BY ReactionsAssumption
      <4> QED
        BY <2>2, <4>1 DEF Init, PlaceInv
    <3>2. CountInv
      <4>1. 0 \in 0..MaxEnds
        BY ReactionsAssumption
      <4> QED
        BY <2>2, <4>1 DEF Init, CountInv
    <3>3. DistinctInv
      BY <2>2 DEF Init, DistinctInv
    <3> QED
      BY <3>1, <3>2, <3>3
  <2> QED
    BY <2>1, <2>2
<1>2. Typed /\ TellInv /\ PlaceInv /\ CountInv /\ DistinctInv => TypeOK
  <2> SUFFICES ASSUME Typed, TellInv, PlaceInv, CountInv, DistinctInv PROVE TypeOK
    OBVIOUS
  <2>1. ends \in [Jobs -> Nat] /\ ended \in Nat /\ ended <= MaxEnds /\ MaxEnds \in Nat
    BY ReactionsAssumption DEF Typed, CountInv
  <2>2. ends \in [Jobs -> 0..MaxEnds]
    BY <2>1 DEF CountInv
  <2>3. \A j \in Jobs : untold[j] \in Nat /\ untold[j] <= ends[j]
    <3>1. \A j \in Jobs : IsFiniteSet(ToldOf(j))
      BY FS_Subset DEF TellInv, ToldOf
    <3> QED
      BY <3>1, FS_CardinalityType DEF TellInv, CountInv
  <2>4. untold \in [Jobs -> 0..MaxEnds]
    BY <2>2, <2>3, <2>1 DEF TellInv
  <2>5. \A t \in tasks : t \in TaskSet /\ t.nth \in 0..MaxEnds
    <3> SUFFICES ASSUME NEW t \in tasks PROVE t \in TaskSet /\ t.nth \in 0..MaxEnds
      OBVIOUS
    <3>1. t \in TaskSet /\ t.nth \in Nat /\ (t.kind = "finish" => t.job \in Jobs)
      BY DEF Typed, TaskOK, TaskSet
    <3> QED
      BY <2>1, <2>2, <3>1 DEF DistinctInv
  <2>6. tasks \subseteq [kind: {"swap", "mark", "finish"}, job: Jobs \cup {None}, nth: 0..MaxEnds,
                         result: Outcomes \cup {"none"}, tell: BOOLEAN, on: 0..posted,
                         at: {"start", "clear", "add", "outcome", "tell"}]
    BY <2>5 DEF TaskSet, Stages
  <2> QED
    BY <2>2, <2>4, <2>6 DEF TypeOK, Typed, PlaceInv, CountInv, DistinctInv
<1> QED
  BY <1>1, <1>2, TellStep, PlaceStep, CountStep, DistinctStep, AlwaysTyped, PTL DEF Spec
=============================================================================
