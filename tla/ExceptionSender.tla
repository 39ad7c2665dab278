-------------------------- MODULE ExceptionSender --------------------------
(***************************************************************************)
(* The reporting half of the game server plugin: the log appender with its *)
(* budget of exceptions per second, and the sender, one thread that posts  *)
(* what the appender submits.  Any thread may log; the budget is an atomic *)
(* counter that a thread of its own resets.  Module Plugin composes it     *)
(* with HeapDump and has the order in which the plugin is disabled.        *)
(* A definition named Bug... is a mutated form of the definition after it. *)
(***************************************************************************)
EXTENDS Naturals, Sequences, SequencesExt

CONSTANTS
    Events,     \* bound: the exceptions logged, 1..n in the order they are logged
    Limit,      \* MAX_EVENTS_PER_SECOND
    Resets      \* bound: resets of the budget

ASSUME SenderAssumption == Events \in Nat /\ Limit \in Nat /\ Resets \in Nat

VARIABLES
    attached,   \* is the appender on the root logger?
    resetting,  \* is the rate limit thread running?
    budget,     \* mEventsThisSecond
    resets,     \* how often the budget has been reset
    entering,   \* events past the budget whose thread has still to submit them
    submitted,  \* events the executor accepted, in order (a history variable)
    waiting,    \* the executor's queue
    sending,    \* the event being posted, 0 if none
    executor,   \* "open", "draining" after shutdown(), or "stopped"
    received,   \* events the server has received, in order
    window      \* events past the budget since its last reset (history)

senderVars == <<attached, resetting, budget, resets, entering, submitted, waiting, sending,
                executor, received, window>>

Logged == entering \cup Range(submitted)

SenderTypeOK ==
    /\ attached \in BOOLEAN /\ resetting \in BOOLEAN
    /\ budget \in 0..Events /\ resets \in 0..Resets /\ window \in 0..Events
    /\ entering \subseteq 1..Events
    /\ submitted \in Seq(1..Events) /\ waiting \in Seq(1..Events) /\ received \in Seq(1..Events)
    /\ sending \in 0..Events
    /\ executor \in {"open", "draining", "stopped"}

SenderInit ==
    /\ attached = TRUE /\ resetting = TRUE
    /\ budget = 0 /\ resets = 0 /\ window = 0
    /\ entering = {} /\ submitted = <<>> /\ waiting = <<>> /\ received = <<>>
    /\ sending = 0 /\ executor = "open"
-----------------------------------------------------------------------------
(* A thread logs an exception at a reportable level.  Each attempt counts, *)
(* also the ones that exceed the budget.                                   *)
BugWithin == budget <= Limit
Within == budget < Limit

LogEvent(e) ==
    /\ attached /\ budget < Events
    /\ e \notin Logged /\ \A other \in Logged : other < e
    /\ budget' = budget + 1
    /\ IF Within THEN entering' = entering \cup {e} /\ window' = window + 1
       ELSE UNCHANGED <<entering, window>>
    /\ UNCHANGED <<attached, resetting, resets, submitted, waiting, sending, executor, received>>

ResetBudget ==
    /\ resetting /\ resets < Resets
    /\ resets' = resets + 1
    /\ budget' = 0 /\ window' = 0
    /\ UNCHANGED <<attached, resetting, entering, submitted, waiting, sending, executor, received>>

(* The executor takes the event, or rejects it when it has been shut down. *)
Submit(e) ==
    /\ e \in entering
    /\ entering' = entering \ {e}
    /\ IF executor = "open" THEN submitted' = Append(submitted, e) /\ waiting' = Append(waiting, e)
       ELSE UNCHANGED <<submitted, waiting>>
    /\ UNCHANGED <<attached, resetting, budget, resets, sending, executor, received, window>>
-----------------------------------------------------------------------------
(* The sender thread.  The request has no timeout: it may take forever.    *)

BugTaken == Last(waiting)
Taken == Head(waiting)

TakeEvent ==
    /\ sending = 0 /\ waiting # <<>> /\ executor # "stopped"
    /\ sending' = Taken
    /\ waiting' = Tail(waiting)
    /\ UNCHANGED <<attached, resetting, budget, resets, entering, submitted, executor, received, window>>

(* Any status is the end of it, and so is an exception: nothing is retried.*)
EventSent(reaches) ==
    /\ sending # 0
    /\ received' = IF reaches THEN Append(received, sending) ELSE received
    /\ sending' = 0
    /\ UNCHANGED <<attached, resetting, budget, resets, entering, submitted, waiting, executor, window>>
-----------------------------------------------------------------------------
(* The steps of onDisable that concern this half.  A thread that is past   *)
(* the budget goes on to submit.                                           *)

DetachAppender ==
    /\ attached' = FALSE /\ resetting' = FALSE
    /\ UNCHANGED <<budget, resets, entering, submitted, waiting, sending, executor, received, window>>

ShutdownSender ==
    /\ executor' = "draining"
    /\ UNCHANGED <<attached, resetting, budget, resets, entering, submitted, waiting, sending, received, window>>

(* The executor ends by itself when it has nothing left to do; after three *)
(* seconds shutdownNow drops the queue and interrupts the request, which   *)
(* may have been received.                                                 *)
BugGivesUp == waiting # <<>> /\ sending = 0
GivesUp == TRUE

SenderTerminated ==
    /\ executor = "draining"
    /\ \/ waiting = <<>> /\ sending = 0 /\ UNCHANGED received
       \/ GivesUp /\ sending # 0 /\ received' \in {received, Append(received, sending)}
       \/ GivesUp /\ sending = 0 /\ UNCHANGED received
    /\ executor' = "stopped"
    /\ waiting' = <<>> /\ sending' = 0
    /\ UNCHANGED <<attached, resetting, budget, resets, entering, submitted, window>>

SenderStep(events) ==
    \/ \E e \in events : LogEvent(e) \/ Submit(e)
    \/ TakeEvent
    \/ events # {} /\ ResetBudget
    \/ \E reaches \in BOOLEAN : EventSent(reaches)
-----------------------------------------------------------------------------
(* Whatever threads log at once and whenever the reset falls, no more than *)
(* MAX_EVENTS_PER_SECOND events pass the budget between two resets.        *)
LimitHeld == window <= Limit

(* The server receives events in the order the executor accepted them, and *)
(* each at most once, although an interrupted or failed request may or may *)
(* not have been received.                                                 *)
OrderKept ==
    \A i, j \in DOMAIN received : i < j =>
        \E k, l \in DOMAIN submitted :
            k < l /\ submitted[k] = received[i] /\ submitted[l] = received[j]
=============================================================================
