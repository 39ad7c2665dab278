------------------------------ MODULE HeapDump ------------------------------
(***************************************************************************)
(* Heap dumps: the plugin commands one on a LowMemoryEvent or an operator  *)
(* does by hand, spark writes it and logs a line, the plugin's log watcher *)
(* posts the path to the heap-logger, and that analyses one dump after the *)
(* other and reports what leaks.  Two atomic flags guard the plugin's      *)
(* side, an in-memory queue and the move of the file the other.  Module    *)
(* Plugin composes it with ExceptionSender.                                *)
(* A definition named Bug... is a mutated form of the definition after it. *)
(***************************************************************************)
EXTENDS Naturals, Sequences, FiniteSets

CONSTANTS
    Dumps,          \* bound: the dumps spark writes
    MaxPatterns,    \* bound: leak patterns found in one dump
    MaxCrashes,     \* bound: crashes of the heap-logger
    MaxResubmits,   \* bound: dumps posted to the heap-logger by hand
    NoDump          \* the worker has no job

ASSUME HeapAssumption ==
    /\ IsFiniteSet(Dumps) /\ NoDump \notin Dumps
    /\ {MaxPatterns, MaxCrashes, MaxResubmits} \subseteq Nat

VARIABLES
    watching,       \* is the log watcher attached?
    dumpInProgress, \* mDumpInProgress
    notifyInFlight, \* mNotifyInFlight
    timers,         \* dumps whose 30-minute timer has not fired
    dumping,        \* dumps spark is writing
    automatic,      \* the ones the plugin commanded
    notifying,      \* dumps whose notification is being posted
    files,          \* dumps in HEAPDUMP_DIR
    processed,      \* dumps in its subdirectory processed/
    queue,          \* the heap-logger's queue
    job,            \* the dump its worker is at, and how far
    found,          \* patterns each dump's analysis has found
    reports,        \* reports the exception logger has received of each dump
    crashes, resubmits,
    lapsed,         \* was the guard ever cleared during an automatic dump? (history)
    excused         \* dumps whose notification, job or analysis failed (history)

pluginSide == <<watching, dumpInProgress, notifyInFlight, timers, dumping, automatic, notifying>>
loggerSide == <<processed, queue, job, found, reports>>
heapVars   == <<pluginSide, files, loggerSide, crashes, resubmits, lapsed, excused>>

NoJob == [dump |-> NoDump, left |-> 0]
Known == dumping \cup files \cup processed \cup excused

HeapTypeOK ==
    /\ watching \in BOOLEAN /\ dumpInProgress \in BOOLEAN /\ notifyInFlight \in BOOLEAN
    /\ timers \subseteq automatic
    /\ dumping \subseteq Dumps /\ automatic \subseteq Dumps /\ excused \subseteq Dumps
    /\ Cardinality(notifying) = IF notifyInFlight THEN 1 ELSE 0
    /\ files \subseteq Dumps /\ processed \subseteq Dumps /\ files \cap processed = {}
    /\ queue \in Seq(Dumps)
    /\ job \in [dump: Dumps \cup {NoDump}, left: 0..MaxPatterns]
    /\ found \in [Dumps -> 0..MaxPatterns]
    /\ reports \in [Dumps -> Nat]
    /\ crashes \in 0..MaxCrashes /\ resubmits \in 0..MaxResubmits
    /\ lapsed \in BOOLEAN

HeapInit ==
    /\ watching = TRUE /\ dumpInProgress = FALSE /\ notifyInFlight = FALSE
    /\ timers = {} /\ dumping = {} /\ automatic = {} /\ notifying = {}
    /\ files = {} /\ processed = {} /\ queue = <<>> /\ job = NoJob
    /\ found = [d \in Dumps |-> 0] /\ reports = [d \in Dumps |-> 0]
    /\ crashes = 0 /\ resubmits = 0 /\ lapsed = FALSE /\ excused = {}
-----------------------------------------------------------------------------
(* The plugin and spark. *)

Cleared(stillDumping) ==
    /\ dumpInProgress' = FALSE
    /\ lapsed' = (lapsed \/ (dumpInProgress /\ automatic \cap stillDumping # {}))

(* LowMemoryEvent: one command at a time, and a timer that resets the flag.*)
BugMayTrigger == ~notifyInFlight
MayTrigger == ~dumpInProgress
BugTimers(d) == IF notifyInFlight THEN timers ELSE timers \cup {d}
Timers(d) == timers \cup {d}

TriggerDump(d) ==
    /\ watching /\ d \notin Known
    /\ MayTrigger
    /\ dumpInProgress' = TRUE
    /\ timers' = Timers(d)
    /\ dumping' = dumping \cup {d} /\ automatic' = automatic \cup {d}
    /\ UNCHANGED <<watching, notifyInFlight, notifying, files, loggerSide, crashes, resubmits, lapsed, excused>>

(* An operator runs /spark heapdump. *)
ManualDump(d) ==
    /\ d \notin Known
    /\ dumping' = dumping \cup {d}
    /\ UNCHANGED <<watching, dumpInProgress, notifyInFlight, timers, automatic, notifying,
                   files, loggerSide, crashes, resubmits, lapsed, excused>>

(* The timer belongs to one dump but resets the flag of whichever is on.   *)
TimerFires(d) ==
    /\ d \in timers
    /\ timers' = timers \ {d}
    /\ Cleared(dumping)
    /\ UNCHANGED <<watching, notifyInFlight, dumping, automatic, notifying, files, loggerSide,
                   crashes, resubmits, excused>>

(* Spark logs that the dump is written, whoever asked for it.  While a     *)
(* notification is under way the line is ignored, and then the flag stays. *)
DumpWritten(d) ==
    /\ d \in dumping
    /\ dumping' = dumping \ {d}
    /\ files' = files \cup {d}
    /\ IF watching /\ ~notifyInFlight
       THEN /\ notifyInFlight' = TRUE
            /\ Cleared(dumping \ {d})
            /\ notifying' = notifying \cup {d}
            /\ UNCHANGED excused
       ELSE /\ excused' = excused \cup {d}
            /\ UNCHANGED <<dumpInProgress, notifyInFlight, notifying, lapsed>>
    /\ UNCHANGED <<watching, timers, automatic, loggerSide, crashes, resubmits>>

(* Spark fails: no line is ever logged. *)
DumpFails(d) ==
    /\ d \in dumping
    /\ dumping' = dumping \ {d}
    /\ excused' = excused \cup {d}
    /\ UNCHANGED <<watching, dumpInProgress, notifyInFlight, timers, automatic, notifying,
                   files, loggerSide, crashes, resubmits, lapsed>>

(* The notification reaches the heap-logger's queue, or fails.             *)
BugQueued(d) == IF queue = <<>> THEN <<d>> ELSE queue
Queued(d) == Append(queue, d)

NotifyEnds(d, reaches) ==
    /\ d \in notifying
    /\ notifying' = notifying \ {d}
    /\ notifyInFlight' = FALSE
    /\ IF reaches THEN queue' = Queued(d) /\ UNCHANGED excused
       ELSE excused' = excused \cup {d} /\ UNCHANGED queue
    /\ UNCHANGED <<watching, dumpInProgress, timers, dumping, automatic, files, processed, job,
                   found, reports, crashes, resubmits, lapsed>>

RemoveWatcher ==
    /\ watching' = FALSE
    /\ UNCHANGED <<dumpInProgress, notifyInFlight, timers, dumping, automatic, notifying,
                   files, loggerSide, crashes, resubmits, lapsed, excused>>
-----------------------------------------------------------------------------
(* The heap-logger. *)

(* Somebody posts a dump again, say one whose first notification was lost. *)
Resubmit(d) ==
    /\ resubmits < MaxResubmits
    /\ d \in files \cup processed
    /\ resubmits' = resubmits + 1
    /\ queue' = Queued(d)
    /\ UNCHANGED <<pluginSide, files, processed, job, found, reports, crashes, lapsed, excused>>

(* A job whose file is not there is dropped. *)
BugPresent(d) == d \in files \cup processed
Present(d) == d \in files

WorkerTakes ==
    /\ job = NoJob /\ queue # <<>>
    /\ queue' = Tail(queue)
    /\ job' = IF Present(Head(queue)) THEN [NoJob EXCEPT !.dump = Head(queue)] ELSE NoJob
    /\ UNCHANGED <<pluginSide, files, processed, found, reports, crashes, resubmits, lapsed, excused>>

Analysing == job # NoJob /\ job.left = 0

(* The dump is moved out of the way before anything is reported. *)
BugMoved(d) == IF queue = <<>> THEN files \ {d} ELSE files
Moved(d) == files \ {d}

(* heaptool ends: the file is moved whatever came out.  No output, or no   *)
(* JSON, is no pattern.                                                    *)
AnalysisEnds(patterns) ==
    /\ Analysing
    /\ LET d == job.dump IN
       /\ files' = Moved(d)
       /\ processed' = processed \cup {d}
       /\ found' = [found EXCEPT ![d] = patterns]
       /\ job' = IF patterns = 0 THEN NoJob ELSE [job EXCEPT !.left = patterns]
    /\ UNCHANGED <<pluginSide, queue, reports, crashes, resubmits, lapsed, excused>>

(* One report after the other; one that fails is logged and not sent again.*)
ReportPattern(reaches) ==
    /\ job.left > 0
    /\ reports' = IF reaches THEN [reports EXCEPT ![job.dump] = @ + 1] ELSE reports
    /\ job' = IF job.left = 1 THEN NoJob ELSE [job EXCEPT !.left = @ - 1]
    /\ UNCHANGED <<pluginSide, files, processed, queue, found, crashes, resubmits, lapsed, excused>>

(* Whatever an analysis or a malformed pattern raises, the worker goes on. *)
BugAfterError == Append(queue, job.dump)
AfterError == queue

JobRaises ==
    /\ job # NoJob
    /\ job' = NoJob /\ queue' = AfterError
    /\ excused' = excused \cup {job.dump}
    /\ UNCHANGED <<pluginSide, files, processed, found, reports, crashes, resubmits, lapsed>>

(* The queue dies with the process; the files stay. *)
LoggerCrashes ==
    /\ crashes < MaxCrashes
    /\ crashes' = crashes + 1
    /\ excused' = excused \cup {queue[i] : i \in DOMAIN queue} \cup ({job.dump} \ {NoDump})
    /\ queue' = <<>> /\ job' = NoJob
    /\ UNCHANGED <<pluginSide, files, processed, found, reports, resubmits, lapsed>>

Worker == WorkerTakes \/ (\E k \in 0..MaxPatterns : AnalysisEnds(k))
          \/ (\E reaches \in BOOLEAN : ReportPattern(reaches)) \/ JobRaises

HeapStep(dumps) ==
    \/ \E d \in dumps : ManualDump(d) \/ DumpWritten(d) \/ DumpFails(d) \/ Resubmit(d)
    \/ \E d \in dumps, reaches \in BOOLEAN : NotifyEnds(d, reaches)
    \/ Worker
    \/ dumps # {} /\ LoggerCrashes
-----------------------------------------------------------------------------
(* mDumpInProgress keeps the plugin from commanding a second dump while    *)
(* one is being written, unless it was cleared during a dump: by its own   *)
(* timer, by the timer of an earlier dump, or by another dump's line.      *)
OneCommand == ~lapsed => Cardinality(dumping \cap automatic) <= 1

(* A pattern is reported at most once, although dumps are posted again and *)
(* the process crashes between the move and the reports: a dump that was   *)
(* moved is never analysed again.                                          *)
ReportedOnce == \A d \in Dumps : reports[d] <= found[d]

(* A dump that is still in the directory once nothing is on its way to it  *)
(* is there because a step failed or its line was ignored, and never       *)
(* because the plugin, the queue and the worker lost sight of it.          *)
LeftoverExcused ==
    \A d \in files :
        \/ d \in notifying \cup excused \cup {job.dump}
        \/ \E i \in DOMAIN queue : queue[i] = d

(* Every job the heap-logger has taken into its queue is worked off.       *)
QueueDrains == queue # <<>> ~> queue = <<>> /\ job = NoJob
=============================================================================
