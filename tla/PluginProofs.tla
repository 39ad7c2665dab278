---------------------------- MODULE PluginProofs ----------------------------
(***************************************************************************)
(* TLAPS proofs about Plugin, for any budget, any events and dumps, and    *)
(* any number of crashes.                                                  *)
(***************************************************************************)
EXTENDS Plugin, FiniteSetTheorems, SequenceTheorems, TLAPS

(***************************************************************************)
(* The sender.  Its steps inside a plugin: those of its own threads and    *)
(* those of onDisable.                                                     *)
(***************************************************************************)
SenderMoves ==
    \/ \E e \in 1..Events : LogEvent(e) \/ Submit(e)
    \/ TakeEvent \/ ResetBudget
    \/ \E reaches \in BOOLEAN : EventSent(reaches)
    \/ DetachAppender \/ ShutdownSender \/ SenderTerminated
    \/ UNCHANGED senderVars

(* The budget without the queue.  The window is part of the budget, since  *)
(* an event that is past it is an attempt and both are reset at once.      *)
BudgetInv ==
    /\ attached \in BOOLEAN /\ resetting \in BOOLEAN
    /\ budget \in 0..Events /\ resets \in 0..Resets /\ window \in 0..Events
    /\ entering \subseteq 1..Events
    /\ executor \in {"open", "draining", "stopped"}
    /\ window <= budget
    /\ LimitHeld

LEMMA BudgetInvInit == SenderInit => BudgetInv
  BY SenderAssumption DEF SenderInit, BudgetInv, LimitHeld

LEMMA BudgetInvStep == BudgetInv /\ SenderMoves => BudgetInv'
<1> SUFFICES ASSUME BudgetInv, SenderMoves
             PROVE  BudgetInv'
  OBVIOUS
<1> USE SenderAssumption DEF BudgetInv, LimitHeld
<1>1. ASSUME NEW e \in 1..Events, LogEvent(e)
      PROVE  BudgetInv'
  <2>1. /\ budget < Events /\ budget' = budget + 1
        /\ UNCHANGED <<attached, resetting, resets, executor>>
    BY <1>1 DEF LogEvent
  <2>2. CASE Within
    <3>1. entering' = entering \cup {e} /\ window' = window + 1
      BY <1>1, <2>2 DEF LogEvent
    <3> QED
      BY <2>1, <2>2, <3>1 DEF Within
  <2>3. CASE ~Within
    <3>1. UNCHANGED <<entering, window>>
      BY <1>1, <2>3 DEF LogEvent
    <3> QED
      BY <2>1, <3>1
  <2> QED
    BY <2>2, <2>3
<1>2. ASSUME NEW e \in 1..Events, Submit(e)
      PROVE  BudgetInv'
  BY <1>2 DEF Submit
<1>3. CASE ResetBudget
  BY <1>3 DEF ResetBudget
<1>4. CASE TakeEvent \/ \E reaches \in BOOLEAN : EventSent(reaches)
  BY <1>4 DEF TakeEvent, EventSent
<1>5. CASE DetachAppender \/ ShutdownSender \/ SenderTerminated
  BY <1>5 DEF DetachAppender, ShutdownSender, SenderTerminated
<1>6. CASE UNCHANGED senderVars
  BY <1>6 DEF senderVars
<1> HIDE DEF BudgetInv
<1> QED
  BY <1>1, <1>2, <1>3, <1>4, <1>5, <1>6 DEF SenderMoves
-----------------------------------------------------------------------------
(* The queue.  What the server has received, what is being sent and what   *)
(* waits are, in this order, events the executor accepted in this order.   *)
Accepted(a) == \E k \in 1..Len(submitted) : submitted[k] = a
Before(a, b) ==
    \E k, l \in 1..Len(submitted) : k < l /\ submitted[k] = a /\ submitted[l] = b

QueueTyped ==
    /\ submitted \in Seq(1..Events) /\ waiting \in Seq(1..Events) /\ received \in Seq(1..Events)
    /\ sending \in 0..Events

InPipeline ==
    /\ \A i \in 1..Len(received) : Accepted(received[i])
    /\ sending # 0 => Accepted(sending)
    /\ \A j \in 1..Len(waiting) : Accepted(waiting[j])

PipelineOrder ==
    /\ \A i, j \in 1..Len(received) : i < j => Before(received[i], received[j])
    /\ sending # 0 => \A i \in 1..Len(received) : Before(received[i], sending)
    /\ \A i \in 1..Len(received), j \in 1..Len(waiting) : Before(received[i], waiting[j])
    /\ sending # 0 => \A j \in 1..Len(waiting) : Before(sending, waiting[j])
    /\ \A i, j \in 1..Len(waiting) : i < j => Before(waiting[i], waiting[j])

PipelineInv == QueueTyped /\ InPipeline /\ PipelineOrder

LEMMA PipelineInvInit == SenderInit => PipelineInv
<1> SUFFICES ASSUME SenderInit
             PROVE  PipelineInv
  OBVIOUS
<1>1. submitted = <<>> /\ waiting = <<>> /\ received = <<>> /\ sending = 0
  BY DEF SenderInit
<1>2. Len(received) = 0 /\ Len(waiting) = 0 /\ <<>> \in Seq(1..Events)
  BY <1>1, EmptySeq
<1>3. QueueTyped
  BY <1>1, <1>2, SenderAssumption DEF QueueTyped
<1>4. InPipeline
  BY <1>1, <1>2 DEF InPipeline
<1>5. PipelineOrder
  BY <1>1, <1>2 DEF PipelineOrder
<1> QED
  BY <1>3, <1>4, <1>5 DEF PipelineInv

(* A newly accepted event is behind everything that was accepted before.   *)
LEMMA SubmitKeepsOrder ==
    ASSUME PipelineInv, NEW e \in 1..Events, Submit(e), executor = "open"
    PROVE  PipelineInv'
<1>1. submitted' = Append(submitted, e) /\ waiting' = Append(waiting, e)
      /\ UNCHANGED <<received, sending>>
  BY DEF Submit
<1>2. /\ submitted' \in Seq(1..Events) /\ Len(submitted') = Len(submitted) + 1
      /\ Len(submitted) \in Nat
      /\ \A k \in 1..Len(submitted) : submitted'[k] = submitted[k]
      /\ submitted'[Len(submitted) + 1] = e
  BY <1>1, AppendProperties, LenProperties DEF PipelineInv, QueueTyped
<1>3. /\ waiting' \in Seq(1..Events) /\ Len(waiting') = Len(waiting) + 1
      /\ Len(waiting) \in Nat
      /\ \A k \in 1..Len(waiting) : waiting'[k] = waiting[k]
      /\ waiting'[Len(waiting) + 1] = e
  BY <1>1, AppendProperties, LenProperties DEF PipelineInv, QueueTyped
<1>4. ASSUME NEW a, Accepted(a)
      PROVE  Accepted(a)' /\ Before(a, e)'
  BY <1>2, <1>4 DEF Accepted, Before
<1>5. ASSUME NEW a, NEW b, Before(a, b)
      PROVE  Before(a, b)'
  BY <1>2, <1>5 DEF Before
<1>6. Accepted(e)'
  BY <1>2 DEF Accepted
<1>7. QueueTyped'
  BY <1>1, <1>2, <1>3 DEF QueueTyped, PipelineInv
<1>8. \A j \in 1..Len(waiting') : (j \in 1..Len(waiting) /\ waiting'[j] = waiting[j])
                                  \/ (j = Len(waiting) + 1 /\ waiting'[j] = e)
  BY <1>3
<1>9. InPipeline'
  BY <1>1, <1>4, <1>6, <1>8 DEF PipelineInv, InPipeline
<1>10. PipelineOrder'
  BY <1>1, <1>3, <1>4, <1>5, <1>8 DEF PipelineInv, InPipeline, PipelineOrder
<1> QED
  BY <1>7, <1>9, <1>10 DEF PipelineInv

LEMMA TakeKeepsOrder ==
    ASSUME PipelineInv, TakeEvent
    PROVE  PipelineInv'
<1>1. /\ sending = 0 /\ waiting # <<>> /\ sending' = Head(waiting) /\ waiting' = Tail(waiting)
      /\ UNCHANGED <<submitted, received>>
  BY DEF TakeEvent, Taken
<1>2. waiting \in Seq(1..Events)
  BY DEF PipelineInv, QueueTyped
<1>3. /\ waiting' \in Seq(1..Events) /\ sending' \in 1..Events /\ sending' = waiting[1]
      /\ Len(waiting) \in Nat \ {0} /\ Len(waiting') = Len(waiting) - 1
      /\ \A i \in 1..Len(waiting') : waiting'[i] = waiting[i + 1]
  <2>1. sending' = waiting[1]
    BY <1>1, <1>2
  <2>2. Len(waiting) \in Nat \ {0}
    BY <1>1, <1>2, EmptySeq
  <2>3. /\ waiting' \in Seq(1..Events) /\ sending' \in 1..Events
        /\ Len(waiting') = Len(waiting) - 1
        /\ \A i \in 1..Len(waiting') : waiting'[i] = waiting[i + 1]
    BY <1>1, <1>2, HeadTailProperties
  <2> QED
    BY <2>1, <2>2, <2>3
<1>4. \A i \in 1..Len(waiting') : i + 1 \in 1..Len(waiting) /\ 1 < i + 1 /\ waiting'[i] = waiting[i + 1]
  BY <1>3
<1>5. (\A a : Accepted(a)' <=> Accepted(a)) /\ (\A a, b : Before(a, b)' <=> Before(a, b))
  BY <1>1 DEF Accepted, Before
<1>6. QueueTyped'
  BY <1>1, <1>3, SenderAssumption DEF PipelineInv, QueueTyped
<1>7. 1 \in 1..Len(waiting)
  BY <1>3
<1>8. InPipeline'
  BY <1>1, <1>3, <1>4, <1>5, <1>7 DEF PipelineInv, InPipeline
<1>9. \A i, j \in 1..Len(waiting') : i < j => i + 1 < j + 1
  BY <1>3
<1>10. PipelineOrder'
  BY <1>1, <1>3, <1>4, <1>5, <1>7, <1>9 DEF PipelineInv, PipelineOrder
<1> QED
  BY <1>6, <1>8, <1>10 DEF PipelineInv

(* The request ends, however; received grows by what was being sent or not *)
(* at all, and the queue stays or is dropped.                              *)
LEMMA EndKeepsOrder ==
    ASSUME PipelineInv, UNCHANGED submitted, sending' = 0,
           waiting' \in {waiting, <<>>},
           received' = received \/ (sending # 0 /\ received' = Append(received, sending))
    PROVE  PipelineInv'
<1>1. (\A a : Accepted(a)' <=> Accepted(a)) /\ (\A a, b : Before(a, b)' <=> Before(a, b))
  BY DEF Accepted, Before
<1>2. /\ waiting' \in Seq(1..Events) /\ Len(waiting) \in Nat
      /\ Len(waiting') = Len(waiting) \/ Len(waiting') = 0
      /\ \A j \in 1..Len(waiting') : j \in 1..Len(waiting) /\ waiting'[j] = waiting[j]
  <2>1. waiting \in Seq(1..Events) /\ Len(waiting) \in Nat
    BY LenProperties DEF PipelineInv, QueueTyped
  <2>2. CASE waiting' = waiting
    BY <2>1, <2>2
  <2>3. CASE waiting' = <<>>
    <3>1. waiting' \in Seq(1..Events) /\ Len(waiting') = 0
      BY <2>3, EmptySeq
    <3> QED
      BY <2>1, <3>1
  <2> QED
    BY <2>2, <2>3
<1>3. CASE received' = received
  <2>1. QueueTyped' /\ InPipeline' /\ PipelineOrder'
    BY <1>1, <1>2, <1>3, SenderAssumption DEF PipelineInv, QueueTyped, InPipeline, PipelineOrder
  <2> QED
    BY <2>1 DEF PipelineInv
<1>4. CASE sending # 0 /\ received' = Append(received, sending)
  <2>1. sending \in 1..Events /\ received \in Seq(1..Events)
    BY <1>4 DEF PipelineInv, QueueTyped
  <2>2. /\ received' \in Seq(1..Events) /\ Len(received') = Len(received) + 1
        /\ Len(received) \in Nat
        /\ \A k \in 1..Len(received) : received'[k] = received[k]
        /\ received'[Len(received) + 1] = sending
    BY <1>4, <2>1, AppendProperties, LenProperties
  <2>3. \A i \in 1..Len(received') : (i \in 1..Len(received) /\ received'[i] = received[i])
                                     \/ (i = Len(received) + 1 /\ received'[i] = sending)
    BY <2>2
  <2>4. QueueTyped'
    BY <1>2, <2>2, SenderAssumption DEF PipelineInv, QueueTyped
  <2>5. InPipeline'
    BY <1>1, <1>2, <1>4, <2>3 DEF PipelineInv, InPipeline
  <2>6. PipelineOrder'
    BY <1>1, <1>2, <1>4, <2>2, <2>3 DEF PipelineInv, PipelineOrder
  <2> QED
    BY <2>4, <2>5, <2>6 DEF PipelineInv
<1> QED
  BY <1>3, <1>4

LEMMA PipelineInvStep == PipelineInv /\ SenderMoves => PipelineInv'
<1> SUFFICES ASSUME PipelineInv, SenderMoves
             PROVE  PipelineInv'
  OBVIOUS
<1>1. ASSUME UNCHANGED <<submitted, waiting, sending, received>>
      PROVE  PipelineInv'
  BY <1>1 DEF PipelineInv, QueueTyped, InPipeline, PipelineOrder, Accepted, Before
<1>2. ASSUME NEW e \in 1..Events, LogEvent(e)
      PROVE  PipelineInv'
  BY <1>1, <1>2 DEF LogEvent
<1>3. ASSUME NEW e \in 1..Events, Submit(e)
      PROVE  PipelineInv'
  <2>1. CASE executor = "open"
    BY <1>3, <2>1, SubmitKeepsOrder
  <2>2. CASE executor # "open"
    BY <1>1, <1>3, <2>2 DEF Submit
  <2> QED
    BY <2>1, <2>2
<1>4. CASE TakeEvent
  BY <1>4, TakeKeepsOrder
<1>5. ASSUME NEW reaches \in BOOLEAN, EventSent(reaches)
      PROVE  PipelineInv'
  BY <1>5, EndKeepsOrder DEF EventSent
<1>6. CASE SenderTerminated
  BY <1>6, EndKeepsOrder DEF SenderTerminated
<1>7. CASE ResetBudget \/ DetachAppender \/ ShutdownSender \/ UNCHANGED senderVars
  BY <1>1, <1>7 DEF ResetBudget, DetachAppender, ShutdownSender, senderVars
<1> QED
  BY <1>2, <1>3, <1>4, <1>5, <1>6, <1>7 DEF SenderMoves

LEMMA PipelineInvOrder == PipelineInv => OrderKept
<1> SUFFICES ASSUME PipelineInv
             PROVE  OrderKept
  OBVIOUS
<1>1. DOMAIN received = 1..Len(received) /\ DOMAIN submitted = 1..Len(submitted)
  BY LenProperties DEF PipelineInv, QueueTyped
<1>2. ASSUME NEW i \in DOMAIN received, NEW j \in DOMAIN received, i < j
      PROVE  \E k, l \in DOMAIN submitted :
                k < l /\ submitted[k] = received[i] /\ submitted[l] = received[j]
  <2>1. Before(received[i], received[j])
    BY <1>1, <1>2 DEF PipelineInv, PipelineOrder
  <2> QED
    BY <1>1, <2>1 DEF Before
<1> QED
  BY <1>2 DEF OrderKept
-----------------------------------------------------------------------------
(***************************************************************************)
(* Heap dumps.                                                             *)
(***************************************************************************)
HeapMoves ==
    \/ HeapStep(Dumps)
    \/ \E d \in Dumps : TriggerDump(d) \/ TimerFires(d)
    \/ RemoveWatcher
    \/ UNCHANGED heapVars

(* The plugin's side, and the two directories.  A dump that was commanded  *)
(* and is still being written keeps the guard set unless it was cleared,   *)
(* and no dump ever commanded is free to be commanded again.               *)
GuardInv ==
    /\ watching \in BOOLEAN /\ dumpInProgress \in BOOLEAN /\ lapsed \in BOOLEAN
    /\ timers \subseteq automatic /\ automatic \subseteq Known
    /\ dumping \subseteq Dumps /\ automatic \subseteq Dumps
    /\ ~lapsed /\ dumping \cap automatic # {} => dumpInProgress
    /\ ~lapsed => \A a, b \in dumping \cap automatic : a = b

LEMMA GuardInvInit == HeapInit => GuardInv
  BY DEF HeapInit, GuardInv, Known

LEMMA GuardInvStep == GuardInv /\ HeapMoves => GuardInv'
<1> SUFFICES ASSUME GuardInv, HeapMoves
             PROVE  GuardInv'
  OBVIOUS
<1> USE DEF GuardInv, Known
<1>1. ASSUME NEW d \in Dumps, TriggerDump(d)
      PROVE  GuardInv'
  <2>1. d \notin automatic /\ d \notin dumping
    BY <1>1 DEF TriggerDump
  <2>2. /\ ~lapsed => dumping \cap automatic = {}
        /\ dumping' \cap automatic' = (dumping \cap automatic) \cup {d}
    BY <1>1, <2>1 DEF TriggerDump, MayTrigger
  <2> QED
    BY <1>1, <2>1, <2>2 DEF TriggerDump, Timers, loggerSide
<1>2. ASSUME NEW d \in Dumps, ManualDump(d)
      PROVE  GuardInv'
  <2>1. dumping' \cap automatic' = dumping \cap automatic
    BY <1>2 DEF ManualDump
  <2> QED
    BY <1>2, <2>1 DEF ManualDump, loggerSide
<1>3. ASSUME NEW d \in Dumps, TimerFires(d)
      PROVE  GuardInv'
  BY <1>3 DEF TimerFires, Cleared, loggerSide
<1>4. ASSUME NEW d \in Dumps, DumpWritten(d)
      PROVE  GuardInv'
  <2>1. /\ dumping' = dumping \ {d} /\ files' = files \cup {d}
        /\ UNCHANGED <<watching, timers, automatic, processed>>
    BY <1>4 DEF DumpWritten, loggerSide
  <2>2. CASE watching /\ ~notifyInFlight
    <3>1. dumpInProgress' = FALSE /\ excused' = excused
          /\ lapsed' = (lapsed \/ (dumpInProgress /\ automatic \cap (dumping \ {d}) # {}))
      BY <1>4, <2>2 DEF DumpWritten, Cleared
    <3> QED
      BY <2>1, <3>1
  <2>3. CASE ~(watching /\ ~notifyInFlight)
    <3>1. excused' = excused \cup {d} /\ UNCHANGED <<dumpInProgress, lapsed>>
      BY <1>4, <2>3 DEF DumpWritten
    <3> QED
      BY <2>1, <3>1
  <2> QED
    BY <2>2, <2>3
<1>5. ASSUME NEW d \in Dumps, DumpFails(d)
      PROVE  GuardInv'
  BY <1>5 DEF DumpFails, loggerSide
<1>6. ASSUME NEW d \in Dumps, NEW reaches \in BOOLEAN, NotifyEnds(d, reaches)
      PROVE  GuardInv'
  BY <1>6 DEF NotifyEnds
<1>7. ASSUME NEW k \in 0..MaxPatterns, AnalysisEnds(k)
      PROVE  GuardInv'
  BY <1>7 DEF AnalysisEnds, Moved, pluginSide
<1>8. ASSUME NEW d \in Dumps, Resubmit(d)
      PROVE  GuardInv'
  BY <1>8 DEF Resubmit, pluginSide
<1>9. CASE WorkerTakes \/ (\E reaches \in BOOLEAN : ReportPattern(reaches)) \/ JobRaises \/ LoggerCrashes
  BY <1>9 DEF WorkerTakes, ReportPattern, JobRaises, LoggerCrashes, pluginSide
<1>10. CASE RemoveWatcher \/ UNCHANGED heapVars
  BY <1>10 DEF RemoveWatcher, heapVars, pluginSide, loggerSide
<1> HIDE DEF GuardInv, Known
<1> QED
  BY <1>1, <1>2, <1>3, <1>4, <1>5, <1>6, <1>7, <1>8, <1>9, <1>10 DEF HeapMoves, HeapStep, Worker

LEMMA GuardInvCommand == GuardInv => OneCommand
<1> SUFFICES ASSUME GuardInv, ~lapsed
             PROVE  Cardinality(dumping \cap automatic) <= 1
  BY DEF OneCommand
<1>1. CASE dumping \cap automatic = {}
  BY <1>1, FS_EmptySet
<1>2. ASSUME NEW d \in dumping \cap automatic
      PROVE  Cardinality(dumping \cap automatic) <= 1
  <2>1. dumping \cap automatic = {d}
    BY <1>2 DEF GuardInv
  <2> QED
    BY <2>1, FS_Singleton
<1> QED
  BY <1>1, <1>2
-----------------------------------------------------------------------------
(* The heap-logger.  What moves a dump through it: a dump is in one place, *)
(* it is analysed where it lies, nothing of it has been reported before it *)
(* was moved, and what is left of a job is what has not been reported yet. *)
LoggerInv ==
    /\ files \subseteq Dumps /\ processed \subseteq Dumps /\ files \cap processed = {}
    /\ dumping \subseteq Dumps /\ dumping \cap (files \cup processed) = {}
    /\ excused \subseteq Dumps
    /\ queue \in Seq(Dumps)
    /\ job \in [dump: Dumps \cup {NoDump}, left: 0..MaxPatterns]
    /\ found \in [Dumps -> 0..MaxPatterns] /\ reports \in [Dumps -> Nat]
    /\ job # NoJob /\ job.left = 0 => job.dump \in files
    /\ job.left > 0 => job.dump \in processed /\ reports[job.dump] + job.left <= found[job.dump]
    /\ \A d \in Dumps \ processed : reports[d] = 0 /\ found[d] = 0
    /\ ReportedOnce

LEMMA LoggerInvInit == HeapInit => LoggerInv
<1> SUFFICES ASSUME HeapInit
             PROVE  LoggerInv
  OBVIOUS
<1>1. queue \in Seq(Dumps)
  BY EmptySeq DEF HeapInit
<1> QED
  BY <1>1, HeapAssumption DEF HeapInit, LoggerInv, ReportedOnce, NoJob

(* The heap-logger's variables but the queue. *)
analysis == <<files, processed, job, found, reports>>

LEMMA LoggerInvStep == LoggerInv /\ HeapMoves => LoggerInv'
<1> SUFFICES ASSUME LoggerInv, HeapMoves
             PROVE  LoggerInv'
  OBVIOUS
<1> USE HeapAssumption DEF LoggerInv, ReportedOnce, NoJob
<1>a. MaxPatterns \in Nat
  OBVIOUS
<1>1. ASSUME NEW d \in Dumps, TriggerDump(d) \/ ManualDump(d)
      PROVE  LoggerInv'
  BY <1>1 DEF TriggerDump, ManualDump, Known, loggerSide
<1>2. ASSUME NEW d \in Dumps, DumpWritten(d)
      PROVE  LoggerInv'
  <2>1. /\ dumping' = dumping \ {d} /\ files' = files \cup {d} /\ d \in dumping
        /\ UNCHANGED loggerSide /\ excused' \subseteq excused \cup {d}
    BY <1>2 DEF DumpWritten
  <2> QED
    BY <2>1 DEF loggerSide
<1>3. ASSUME NEW d \in Dumps, DumpFails(d) \/ TimerFires(d)
      PROVE  LoggerInv'
  BY <1>3 DEF DumpFails, TimerFires, loggerSide
<1>4. ASSUME NEW d \in Dumps, UNCHANGED <<analysis, dumping>>,
             queue' \in {queue, Queued(d)}, excused' \subseteq excused \cup {d}
      PROVE  LoggerInv'
  <2>1. Queued(d) \in Seq(Dumps)
    BY AppendProperties DEF Queued
  <2> QED
    BY <1>4, <2>1 DEF analysis
<1>5. ASSUME NEW d \in Dumps, NEW reaches \in BOOLEAN, NotifyEnds(d, reaches) \/ Resubmit(d)
      PROVE  LoggerInv'
  BY <1>4, <1>5 DEF NotifyEnds, Resubmit, analysis, pluginSide
<1>6. CASE WorkerTakes
  <2>1. Head(queue) \in Dumps /\ Tail(queue) \in Seq(Dumps)
    BY <1>6, HeadTailProperties DEF WorkerTakes
  <2>2. /\ queue' = Tail(queue)
        /\ job' = IF Head(queue) \in files THEN [dump |-> Head(queue), left |-> 0] ELSE NoJob
        /\ UNCHANGED <<files, processed, found, reports, dumping, excused>>
    BY <1>6 DEF WorkerTakes, Present, pluginSide
  <2> QED
    BY <2>1, <2>2
<1>7. ASSUME NEW k \in 0..MaxPatterns, AnalysisEnds(k)
      PROVE  LoggerInv'
  <2> DEFINE d == job.dump
  <2>1. /\ d \in files /\ d \in Dumps /\ d \notin processed /\ d \notin dumping
        /\ reports[d] = 0
    BY <1>7 DEF AnalysisEnds, Analysing
  <2>2. /\ files' = files \ {d} /\ processed' = processed \cup {d}
        /\ found' = [found EXCEPT ![d] = k]
        /\ job' = IF k = 0 THEN NoJob ELSE [job EXCEPT !.left = k]
        /\ UNCHANGED <<queue, reports, dumping, excused>>
    BY <1>7 DEF AnalysisEnds, Moved, pluginSide
  <2>3. /\ found' \in [Dumps -> 0..MaxPatterns]
        /\ \A other \in Dumps \ {d} : found'[other] = found[other]
        /\ found'[d] = k
    BY <2>1, <2>2
  <2>4. job' \in [dump: Dumps \cup {NoDump}, left: 0..MaxPatterns]
        /\ (IF k = 0 THEN job' = NoJob ELSE job'.dump = d /\ job'.left = k)
    BY <2>2
  <2> HIDE DEF d
  <2> QED
    BY <2>1, <2>2, <2>3, <2>4
<1>8. ASSUME NEW reaches \in BOOLEAN, ReportPattern(reaches)
      PROVE  LoggerInv'
  <2> DEFINE d == job.dump
  <2>1. d \in Dumps /\ d \in processed /\ job.left \in 1..MaxPatterns
        /\ reports[d] + job.left <= found[d]
    BY <1>8 DEF ReportPattern
  <2>2. /\ reports' = IF reaches THEN [reports EXCEPT ![d] = @ + 1] ELSE reports
        /\ job' = IF job.left = 1 THEN NoJob ELSE [job EXCEPT !.left = @ - 1]
        /\ UNCHANGED <<files, processed, queue, found, dumping, excused>>
    BY <1>8 DEF ReportPattern, pluginSide
  <2>3. /\ reports' \in [Dumps -> Nat] /\ reports'[d] <= reports[d] + 1
        /\ \A other \in Dumps \ {d} : reports'[other] = reports[other]
    BY <2>1, <2>2
  <2>4. job' \in [dump: Dumps \cup {NoDump}, left: 0..MaxPatterns]
        /\ (IF job.left = 1 THEN job' = NoJob ELSE job'.dump = d /\ job'.left = job.left - 1 /\ job'.left > 0)
    <3>1. CASE job.left = 1
      BY <2>2, <3>1
    <3>2. CASE job.left # 1
      <4>1. job.left - 1 \in 0..MaxPatterns /\ job.left - 1 > 0
        BY <1>a, <2>1, <3>2
      <4>2. job' = [job EXCEPT !.left = job.left - 1]
        BY <2>2, <3>2
      <4> QED
        BY <3>2, <4>1, <4>2
    <3> QED
      BY <3>1, <3>2
  <2>5. reports[d] \in Nat /\ found[d] \in Nat /\ reports'[d] \in Nat
    BY <2>1, <2>3
  <2> HIDE DEF d
  <2>6. reports'[d] <= found[d]
    BY <1>a, <2>1, <2>3, <2>5
  <2>7. ReportedOnce'
    BY <2>2, <2>3, <2>6
  <2>8. job'.left > 0 => /\ job'.dump = d /\ d \in processed'
                         /\ reports'[d] + job'.left <= found'[d]
    BY <1>a, <2>1, <2>2, <2>3, <2>4, <2>5
  <2>9. ~(job' # NoJob /\ job'.left = 0)
    BY <2>4
  <2>10. \A other \in Dumps \ processed' : reports'[other] = 0 /\ found'[other] = 0
    BY <2>1, <2>2, <2>3
  <2>11. UNCHANGED <<files, processed, queue, found, dumping, excused>>
    BY <2>2
  <2> QED
    BY <2>3, <2>4, <2>7, <2>8, <2>9, <2>10, <2>11
<1>9. CASE JobRaises
  <2>1. job.dump \in Dumps
    BY <1>9 DEF JobRaises
  <2> QED
    BY <1>9, <2>1 DEF JobRaises, AfterError, pluginSide
<1>10. CASE LoggerCrashes
  <2>1. \A i \in DOMAIN queue : queue[i] \in Dumps
    BY LenProperties, ElementOfSeq
  <2>2. queue' \in Seq(Dumps)
    BY <1>10, EmptySeq DEF LoggerCrashes
  <2> QED
    BY <1>10, <2>1, <2>2 DEF LoggerCrashes, pluginSide
<1>11. CASE RemoveWatcher \/ UNCHANGED heapVars
  BY <1>11 DEF RemoveWatcher, heapVars, pluginSide, loggerSide
<1> HIDE DEF LoggerInv
<1> QED
  BY <1>1, <1>2, <1>3, <1>5, <1>6, <1>7, <1>8, <1>9, <1>10, <1>11 DEF HeapMoves, HeapStep, Worker
-----------------------------------------------------------------------------
(* What is left of the types: the notification guard, and the bounds.      *)
NotifyInv ==
    /\ notifyInFlight \in BOOLEAN /\ notifying \subseteq Dumps
    /\ IF notifyInFlight THEN \E d \in Dumps : notifying = {d} ELSE notifying = {}
    /\ crashes \in 0..MaxCrashes /\ resubmits \in 0..MaxResubmits

LEMMA NotifyInvInit == HeapInit => NotifyInv
<1>1. MaxCrashes \in Nat /\ MaxResubmits \in Nat
  BY HeapAssumption
<1> SUFFICES ASSUME HeapInit
             PROVE  NotifyInv
  OBVIOUS
<1>2. notifyInFlight = FALSE /\ notifying = {} /\ crashes = 0 /\ resubmits = 0
  BY DEF HeapInit
<1>3. crashes \in 0..MaxCrashes /\ resubmits \in 0..MaxResubmits
  BY <1>1, <1>2
<1>4. notifyInFlight \in BOOLEAN /\ ~notifyInFlight /\ notifying \subseteq Dumps
  BY <1>2
<1> QED
  BY <1>2, <1>3, <1>4 DEF NotifyInv

LEMMA NotifyInvStep == NotifyInv /\ HeapMoves => NotifyInv'
<1> SUFFICES ASSUME NotifyInv, HeapMoves
             PROVE  NotifyInv'
  OBVIOUS
<1> USE HeapAssumption DEF NotifyInv
<1>1. ASSUME NEW d \in Dumps, DumpWritten(d)
      PROVE  NotifyInv'
  <2>1. CASE watching /\ ~notifyInFlight
    BY <1>1, <2>1 DEF DumpWritten
  <2>2. CASE ~(watching /\ ~notifyInFlight)
    BY <1>1, <2>2 DEF DumpWritten
  <2> QED
    BY <2>1, <2>2
<1>2. ASSUME NEW d \in Dumps, NEW reaches \in BOOLEAN, NotifyEnds(d, reaches)
      PROVE  NotifyInv'
  BY <1>2 DEF NotifyEnds
<1>3. ASSUME NEW d \in Dumps, TriggerDump(d) \/ ManualDump(d) \/ TimerFires(d) \/ DumpFails(d)
      PROVE  NotifyInv'
  BY <1>3 DEF TriggerDump, ManualDump, TimerFires, DumpFails
<1>4. CASE Worker \/ RemoveWatcher \/ UNCHANGED heapVars
  <2>1. UNCHANGED <<notifyInFlight, notifying, crashes, resubmits>>
    BY <1>4 DEF Worker, WorkerTakes, AnalysisEnds, ReportPattern, JobRaises, RemoveWatcher,
                heapVars, pluginSide
  <2> QED
    BY <2>1
<1>5. CASE LoggerCrashes
  <2>1. crashes \in Nat /\ MaxCrashes \in Nat
    OBVIOUS
  <2> QED
    BY <1>5, <2>1 DEF LoggerCrashes, pluginSide
<1>6. ASSUME NEW d \in Dumps, Resubmit(d)
      PROVE  NotifyInv'
  <2>1. resubmits \in Nat /\ MaxResubmits \in Nat
    OBVIOUS
  <2> QED
    BY <1>6, <2>1 DEF Resubmit, pluginSide
<1> HIDE DEF NotifyInv
<1> QED
  BY <1>1, <1>2, <1>3, <1>4, <1>5, <1>6 DEF HeapMoves, HeapStep

HeapInv == GuardInv /\ LoggerInv /\ NotifyInv

LEMMA HeapTypes == HeapInv => HeapTypeOK
<1> SUFFICES ASSUME HeapInv
             PROVE  HeapTypeOK
  OBVIOUS
<1>1. Cardinality(notifying) = IF notifyInFlight THEN 1 ELSE 0
  BY FS_EmptySet, FS_Singleton DEF HeapInv, NotifyInv
<1> QED
  BY <1>1 DEF HeapInv, GuardInv, LoggerInv, NotifyInv, HeapTypeOK
-----------------------------------------------------------------------------
(* Nothing is lost sight of: a dump leaves the queue for the worker, and   *)
(* the worker only for processed/ or with an error.                        *)
InQueue(d) == \E i \in DOMAIN queue : queue[i] = d

LEMMA LeftoverStep == LoggerInv /\ LeftoverExcused /\ HeapMoves => LeftoverExcused'
<1> SUFFICES ASSUME LoggerInv, LeftoverExcused, HeapMoves
             PROVE  LeftoverExcused'
  OBVIOUS
<1>a. LeftoverExcused <=> \A d \in files : d \in notifying \cup excused \cup {job.dump} \/ InQueue(d)
  BY DEF LeftoverExcused, InQueue
<1>b. ASSUME \A d \in files' : d \in notifying' \cup excused' \cup {job'.dump} \/ InQueue(d)'
      PROVE  LeftoverExcused'
  BY <1>b DEF LeftoverExcused, InQueue
<1>c. queue' = queue => \A d : InQueue(d)' <=> InQueue(d)
  BY DEF InQueue
<1>d. ASSUME NEW d \in Dumps, queue' = Queued(d)
      PROVE  InQueue(d)' /\ \A other : InQueue(other) => InQueue(other)'
  <2>1. queue \in Seq(Dumps)
    BY DEF LoggerInv
  <2>2. /\ DOMAIN queue = 1..Len(queue) /\ Len(queue) \in Nat
        /\ DOMAIN queue' = 1..(Len(queue) + 1)
        /\ \A i \in 1..Len(queue) : queue'[i] = queue[i]
        /\ queue'[Len(queue) + 1] = d
    BY <1>d, <2>1, AppendProperties, LenProperties DEF Queued
  <2> QED
    BY <2>2 DEF InQueue
<1>e. ASSUME queue # <<>>, queue' = Tail(queue)
      PROVE  \A d : InQueue(d) => d = Head(queue) \/ InQueue(d)'
  <2>1. queue \in Seq(Dumps)
    BY DEF LoggerInv
  <2>2. Head(queue) = queue[1]
    BY <1>e, <2>1
  <2>3. DOMAIN queue = 1..Len(queue) /\ Len(queue) \in Nat \ {0}
    BY <1>e, <2>1, LenProperties, EmptySeq
  <2>4. /\ queue' \in Seq(Dumps) /\ Len(queue') = Len(queue) - 1
        /\ \A i \in 1..Len(queue') : queue'[i] = queue[i + 1]
    BY <1>e, <2>1, HeadTailProperties
  <2>5. DOMAIN queue' = 1..Len(queue')
    BY <2>4, LenProperties
  <2>6. ASSUME NEW i \in 1..Len(queue), i # 1
        PROVE  i - 1 \in 1..Len(queue') /\ queue'[i - 1] = queue[i]
    <3>1. i - 1 \in 1..Len(queue') /\ (i - 1) + 1 = i
      BY <2>3, <2>4, <2>6
    <3> QED
      BY <2>4, <3>1
  <2> QED
    BY <2>2, <2>3, <2>5, <2>6 DEF InQueue
<1>1. ASSUME NEW d \in Dumps, TriggerDump(d) \/ ManualDump(d) \/ TimerFires(d) \/ DumpFails(d)
      PROVE  LeftoverExcused'
  BY <1>a, <1>b, <1>c, <1>1 DEF TriggerDump, ManualDump, TimerFires, DumpFails, loggerSide
<1>2. ASSUME NEW d \in Dumps, DumpWritten(d)
      PROVE  LeftoverExcused'
  <2>1. /\ files' = files \cup {d} /\ UNCHANGED <<queue, job>>
        /\ d \in notifying' \cup excused' /\ notifying \subseteq notifying' /\ excused \subseteq excused'
    BY <1>2 DEF DumpWritten, loggerSide
  <2> QED
    BY <1>a, <1>b, <1>c, <2>1
<1>3. ASSUME NEW d \in Dumps, NEW reaches \in BOOLEAN, NotifyEnds(d, reaches)
      PROVE  LeftoverExcused'
  <2>1. files' = files /\ job' = job /\ notifying' = notifying \ {d}
    BY <1>3 DEF NotifyEnds
  <2>2. CASE reaches
    BY <1>a, <1>b, <1>d, <1>3, <2>1, <2>2 DEF NotifyEnds
  <2>3. CASE ~reaches
    BY <1>a, <1>b, <1>c, <1>3, <2>1, <2>3 DEF NotifyEnds
  <2> QED
    BY <2>2, <2>3
<1>4. ASSUME NEW d \in Dumps, Resubmit(d)
      PROVE  LeftoverExcused'
  BY <1>a, <1>b, <1>d, <1>4 DEF Resubmit, pluginSide
<1>5. CASE WorkerTakes
  <2>1. /\ queue # <<>> /\ queue' = Tail(queue) /\ job = NoJob
        /\ (Head(queue) \in files => job'.dump = Head(queue))
        /\ UNCHANGED <<files, notifying, excused>>
    BY <1>5 DEF WorkerTakes, Present, pluginSide, NoJob
  <2>2. NoDump \notin files
    BY HeapAssumption DEF LoggerInv
  <2>3. job.dump = NoDump
    BY <2>1 DEF NoJob
  <2> QED
    BY <1>a, <1>b, <1>e, <2>1, <2>2, <2>3
<1>6. ASSUME NEW k \in 0..MaxPatterns, AnalysisEnds(k)
      PROVE  LeftoverExcused'
  BY <1>a, <1>b, <1>c, <1>6 DEF AnalysisEnds, Moved, pluginSide
<1>7. ASSUME NEW reaches \in BOOLEAN, ReportPattern(reaches)
      PROVE  LeftoverExcused'
  <2>1. job.dump \notin files
    BY <1>7 DEF ReportPattern, LoggerInv
  <2> QED
    BY <1>a, <1>b, <1>c, <1>7, <2>1 DEF ReportPattern, pluginSide
<1>8. CASE JobRaises
  BY <1>a, <1>b, <1>c, <1>8 DEF JobRaises, AfterError, pluginSide
<1>9. CASE LoggerCrashes
  <2>1. \A d \in files : InQueue(d) => d \in excused'
    BY <1>9 DEF LoggerCrashes, InQueue
  <2>2. \A d \in files : d = job.dump => d \in excused'
    BY <1>9, HeapAssumption DEF LoggerCrashes, LoggerInv
  <2>3. files' = files /\ notifying' = notifying /\ excused \subseteq excused'
    BY <1>9 DEF LoggerCrashes, pluginSide
  <2> QED
    BY <1>a, <1>b, <2>1, <2>2, <2>3
<1>10. CASE RemoveWatcher \/ UNCHANGED heapVars
  BY <1>a, <1>b, <1>c, <1>10 DEF RemoveWatcher, heapVars, pluginSide, loggerSide
<1> QED
  BY <1>1, <1>2, <1>3, <1>4, <1>5, <1>6, <1>7, <1>8, <1>9, <1>10 DEF HeapMoves, HeapStep, Worker
-----------------------------------------------------------------------------
(***************************************************************************)
(* The plugin as a whole.                                                  *)
(***************************************************************************)
Composed ==
    /\ load \in Loads
    /\ disabling \in {"no", "heap", "appender", "sender"}
    /\ watching = (disabling = "no")
    /\ attached = (disabling \in {"no", "heap"})
    /\ (executor = "open") = (disabling # "sender")

(* A step of the whole is a step of each half, or leaves it alone.         *)
LEMMA StepOfHalves == Composed /\ [Next]_vars => SenderMoves /\ HeapMoves
<1> SUFFICES ASSUME Composed, [Next]_vars
             PROVE  SenderMoves /\ HeapMoves
  OBVIOUS
<1>1. load.events \subseteq 1..Events /\ load.dumps \subseteq Dumps
  BY LoadsAssumption DEF Composed
<1>2. CASE SenderStep(load.events) /\ UNCHANGED <<heapVars, disabling, load>>
  BY <1>1, <1>2 DEF SenderStep, SenderMoves, HeapMoves
<1>3. CASE HeapStep(load.dumps) /\ UNCHANGED <<senderVars, disabling, load>>
  <2>1. HeapStep(Dumps)
    BY <1>1, <1>3 DEF HeapStep
  <2> QED
    BY <1>3, <2>1 DEF SenderMoves, HeapMoves
<1>4. CASE Scheduled
  BY <1>1, <1>4 DEF Scheduled, SenderMoves, HeapMoves
<1>5. CASE OnDisable
  BY <1>5 DEF OnDisable, SenderMoves, HeapMoves
<1>6. CASE DisableEnds
  BY <1>6 DEF DisableEnds, SenderMoves, HeapMoves
<1>7. CASE UNCHANGED vars
  BY <1>7 DEF vars, SenderMoves, HeapMoves
<1> QED
  BY <1>2, <1>3, <1>4, <1>5, <1>6, <1>7 DEF Next

(* Who takes which half down, and when. *)
LEMMA ComposedStep == Composed /\ [Next]_vars => Composed'
<1> SUFFICES ASSUME Composed, [Next]_vars
             PROVE  Composed'
  OBVIOUS
<1>1. CASE SenderStep(load.events) /\ UNCHANGED <<heapVars, disabling, load>>
  <2>1. UNCHANGED <<attached, executor>>
    BY <1>1 DEF SenderStep, LogEvent, Submit, TakeEvent, ResetBudget, EventSent
  <2> QED
    BY <1>1, <2>1 DEF Composed, heapVars, pluginSide
<1>2. CASE HeapStep(load.dumps) /\ UNCHANGED <<senderVars, disabling, load>>
  <2>1. watching' = watching
    BY <1>2 DEF HeapStep, ManualDump, DumpWritten, DumpFails, Resubmit, NotifyEnds, Worker,
                WorkerTakes, AnalysisEnds, ReportPattern, JobRaises, LoggerCrashes, pluginSide
  <2> QED
    BY <1>2, <2>1 DEF Composed, senderVars
<1>3. CASE Scheduled
  BY <1>3 DEF Scheduled, TriggerDump, TimerFires, Composed, senderVars
<1>4. CASE OnDisable
  <2> USE DEF Composed
  <2>1. CASE disabling = "no" /\ disabling' = "heap" /\ RemoveWatcher /\ UNCHANGED senderVars
    BY <1>4, <2>1 DEF OnDisable, RemoveWatcher, senderVars
  <2>2. CASE disabling = "heap" /\ disabling' = "appender" /\ DetachAppender /\ UNCHANGED heapVars
    <3>1. attached' = FALSE /\ UNCHANGED <<load, watching, executor>>
      BY <1>4, <2>2 DEF OnDisable, DetachAppender, heapVars, pluginSide
    <3>2. watching = FALSE /\ (executor = "open") = TRUE
      BY <2>2
    <3>3. /\ disabling' \in {"no", "heap", "appender", "sender"}
          /\ (disabling' = "no") = FALSE /\ (disabling' \in {"no", "heap"}) = FALSE
          /\ (disabling' # "sender") = TRUE
      BY <2>2
    <3> QED
      BY <3>1, <3>2, <3>3
  <2>3. CASE disabling = "appender" /\ disabling' = "sender" /\ ShutdownSender /\ UNCHANGED heapVars
    BY <1>4, <2>3 DEF OnDisable, ShutdownSender, heapVars, pluginSide
  <2> QED
    BY <1>4, <2>1, <2>2, <2>3 DEF OnDisable
<1>5. CASE DisableEnds
  BY <1>5 DEF DisableEnds, SenderTerminated, Composed, heapVars, pluginSide
<1>6. CASE UNCHANGED vars
  BY <1>6 DEF vars, Composed, senderVars, heapVars, pluginSide
<1> QED
  BY <1>1, <1>2, <1>3, <1>4, <1>5, <1>6 DEF Next

PluginInv == Composed /\ BudgetInv /\ PipelineInv /\ HeapInv /\ LeftoverExcused

LEMMA PluginInvCorrect == Spec => []PluginInv
<1>1. Init => PluginInv
  <2> SUFFICES ASSUME Init
               PROVE  PluginInv
    OBVIOUS
  <2>1. SenderInit /\ HeapInit
    BY DEF Init
  <2>2. Composed
    BY DEF Init, Composed, SenderInit, HeapInit
  <2>3. LeftoverExcused
    BY <2>1 DEF HeapInit, LeftoverExcused
  <2> QED
    BY <2>1, <2>2, <2>3, BudgetInvInit, PipelineInvInit, GuardInvInit, LoggerInvInit, NotifyInvInit
       DEF PluginInv, HeapInv
<1>2. PluginInv /\ [Next]_vars => PluginInv'
  BY StepOfHalves, ComposedStep, BudgetInvStep, PipelineInvStep, GuardInvStep, LoggerInvStep,
     NotifyInvStep, LeftoverStep DEF PluginInv, HeapInv
<1> QED
  BY <1>1, <1>2, PTL DEF Spec

(* Every variable of the plugin and of the heap-logger keeps its type, and *)
(* what onDisable has taken down is down.                                  *)
THEOREM TypeCorrect == Spec => []TypeOK
<1>1. PluginInv => TypeOK
  BY HeapTypes DEF PluginInv, Composed, BudgetInv, PipelineInv, QueueTyped, TypeOK, SenderTypeOK
<1> QED
  BY <1>1, PluginInvCorrect, PTL

(* No more than MAX_EVENTS_PER_SECOND events pass between two resets.      *)
THEOREM BudgetIsHeld == Spec => []LimitHeld
<1>1. PluginInv => LimitHeld
  BY DEF PluginInv, BudgetInv
<1> QED
  BY <1>1, PluginInvCorrect, PTL

(* The server receives events in the order of their acceptance, each at    *)
(* most once, also while the plugin is disabled.                           *)
THEOREM ReceivedInOrder == Spec => []OrderKept
<1>1. PluginInv => OrderKept
  BY PipelineInvOrder DEF PluginInv
<1> QED
  BY <1>1, PluginInvCorrect, PTL

(* As long as mDumpInProgress was never cleared during a dump, no second   *)
(* one is commanded.                                                       *)
THEOREM OneCommandAtATime == Spec => []OneCommand
<1>1. PluginInv => OneCommand
  BY GuardInvCommand DEF PluginInv, HeapInv
<1> QED
  BY <1>1, PluginInvCorrect, PTL

(* No pattern is reported twice, whatever is posted again or crashes.      *)
THEOREM NeverReportedTwice == Spec => []ReportedOnce
<1>1. PluginInv => ReportedOnce
  BY DEF PluginInv, HeapInv, LoggerInv
<1> QED
  BY <1>1, PluginInvCorrect, PTL

(* A dump nobody works on is there because a step failed or its line was   *)
(* ignored.                                                                *)
THEOREM LeftoversAreExcused == Spec => []LeftoverExcused
<1>1. PluginInv => LeftoverExcused
  BY DEF PluginInv
<1> QED
  BY <1>1, PluginInvCorrect, PTL
=============================================================================
