------------------------------- MODULE Plugin -------------------------------
(***************************************************************************)
(* The game server plugin as a whole: the exception sender and the heap    *)
(* dump integration side by side, and onDisable, which takes both down.    *)
(***************************************************************************)
EXTENDS ExceptionSender, HeapDump

CONSTANT Loads        \* bound: what may happen to the server in one behaviour,
                      \* sets of events to log and of dumps to write

ASSUME LoadsAssumption == Loads \subseteq [events: SUBSET (1..Events), dumps: SUBSET Dumps]

VARIABLES
    disabling,        \* the last step of onDisable that has been taken
    load              \* the load of this behaviour, which never changes

vars == <<senderVars, heapVars, disabling, load>>

TypeOK ==
    /\ SenderTypeOK /\ HeapTypeOK
    /\ load \in Loads
    /\ disabling \in {"no", "heap", "appender", "sender"}
    /\ watching = (disabling = "no")
    /\ attached = (disabling \in {"no", "heap"})
    /\ (executor = "open") = (disabling # "sender")

Init == SenderInit /\ HeapInit /\ disabling = "no" /\ load \in Loads

OnDisable ==
    /\ UNCHANGED load
    /\ \/ disabling = "no" /\ disabling' = "heap" /\ RemoveWatcher /\ UNCHANGED senderVars
       \/ disabling = "heap" /\ disabling' = "appender" /\ DetachAppender /\ UNCHANGED heapVars
       \/ disabling = "appender" /\ disabling' = "sender" /\ ShutdownSender /\ UNCHANGED heapVars

DisableEnds == SenderTerminated /\ UNCHANGED <<heapVars, disabling, load>>

(* The scheduler cancels the timers of a plugin that is being disabled,    *)
(* and its listeners hear no more events.                                  *)
Scheduled ==
    /\ disabling = "no"
    /\ \E d \in load.dumps : TriggerDump(d) \/ TimerFires(d)
    /\ UNCHANGED <<senderVars, disabling, load>>

Next ==
    \/ SenderStep(load.events) /\ UNCHANGED <<heapVars, disabling, load>>
    \/ HeapStep(load.dumps) /\ UNCHANGED <<senderVars, disabling, load>>
    \/ Scheduled \/ OnDisable \/ DisableEnds

Spec == Init /\ [][Next]_vars

(* The scheduler fires timers.  The heap-logger's worker goes on: heaptool *)
(* ends, and a post ends within the five minutes its client allows.  The   *)
(* thread that runs onDisable goes on, and awaitTermination returns.  The  *)
(* plugin's own requests may never end, and spark may never write.         *)
Fairness ==
    /\ WF_vars(\E d \in Dumps : TimerFires(d) /\ disabling = "no" /\ UNCHANGED <<senderVars, disabling, load>>)
    /\ WF_vars(Worker /\ UNCHANGED <<senderVars, disabling, load>>)
    /\ WF_vars(DisableEnds)
    /\ WF_vars(disabling # "no" /\ OnDisable)

FairSpec == Spec /\ Fairness
-----------------------------------------------------------------------------
(* Disabling the plugin ends, even if a request to the server never does.  *)
Disabled == disabling # "no" ~> executor = "stopped"

(* mDumpInProgress does not stay set while the plugin is enabled: if       *)
(* spark's line never comes, or comes while it is ignored, a timer clears  *)
(* the flag.                                                               *)
GuardServed == dumpInProgress ~> ~dumpInProgress \/ disabling # "no"
=============================================================================
