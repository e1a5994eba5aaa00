------------------------------ MODULE Resolver ------------------------------
(****************************************************************************)
(* One resolve: Resolver.Begin and queueDiffs (lib/resolver.go) run by a    *)
(* ResolveRecorder (lib/resolvestatus.go).                                  *)
(*                                                                          *)
(* The goroutines: the main one, which goes through the phases; a forwarder *)
(* of the pipeline's errors; a waiter for every rectification queued; the   *)
(* recorder's drain, which moves what arrives in Log to the status; and the *)
(* caller of Wait and CurrentStatus (AutoResolver.resolveOnce).  The        *)
(* pipeline of diff and name resolution is its promise, PairStream.         *)
(****************************************************************************)
EXTENDS Integers, Sequences, FiniteSets

CONSTANTS
    Deps,          \* deployments, intended or running
    Versions,      \* what can be deployed
    LogCap         \* capacity of the recorder's Log channel

LogCapAssumption == LogCap \in Nat \ {0}
DepsAssumption == "none" \notin Deps     \* no deployment is named like NoEntry's

VARIABLES
    intended,      \* the version of each deployment in the GDM
    actual,        \* the version of each deployment found running
    main,          \* where the main goroutine is
    erred,         \* rr.err is set: a phase failed
    pending, passed, failed, pairsClosed, errsClosed,   \* the pipeline
    forwarder,     \* where the forwarder is, and the deployment in hand
    waiter,        \* where the waiter of each deployment is
    result,        \* whether the rectification of each ended in an error
    log,           \* the Log channel
    logClosed,     \* close(rr.Log) has been called
    drain,         \* the entry the drain has received and not yet recorded
    recorded,      \* status.Log
    finished,      \* the finished channel is closed
    stable         \* the status taken after Wait returned

stream == <<pending, passed, failed, pairsClosed, errsClosed>>
given == <<intended, actual>>
workers == <<forwarder, waiter, result>>
recorder == <<log, logClosed, drain, recorded, finished>>
vars == <<given, main, erred, stream, workers, recorder, stable>>

Absent == "absent"       \* not intended, or not running
Unset == "unset"         \* intended with no instances or version 0.0.0
NoEntry == [dep |-> "none", error |-> FALSE]
NoStatus == {NoEntry}
Entries == [dep : Deps, error : BOOLEAN]

(* DeployablePair.Kind of the pair that the diff makes for a deployment.    *)
Kind(d) ==
    IF actual[d] = Absent THEN "added"
    ELSE IF intended[d] = Absent THEN "removed"
    ELSE IF actual[d] = intended[d] THEN "same" ELSE "modified"

(* nameResolver.HandlePairs looks for an artifact, and may refuse the pair. *)
NeedsArtifact == {d \in Deps : Kind(d) \in {"added", "modified"}}

Stream == INSTANCE PairStream WITH refusable <- NeedsArtifact

(* What queueDiffs passes over: removed deployments, equal ones, new ones   *)
(* that are not set up.                                                     *)
NothingToDo(d) ==
    \/ Kind(d) \in {"removed", "same"}
    \/ Kind(d) = "added" /\ intended[d] = Unset

TypeOK ==
    /\ intended \in [Deps -> Versions \cup {Absent, Unset}]
    /\ actual \in [Deps -> Versions \cup {Absent}]
    /\ main \in {"running", "queue", "waiters", "errors", "close", "finish", "done",
                 "panicked"}
    /\ erred \in BOOLEAN
    /\ {pending, passed, failed} \subseteq SUBSET Deps
    /\ pairsClosed \in BOOLEAN
    /\ errsClosed \in BOOLEAN
    /\ forwarder \in Entries \cup {NoEntry}
    /\ waiter \in [Deps -> {"none", "wait", "send", "done"}]
    /\ result \in [Deps -> BOOLEAN]
    /\ log \in Seq(Entries) /\ Len(log) <= LogCap
    /\ logClosed \in BOOLEAN
    /\ drain \in Entries \cup {NoEntry}
    /\ recorded \subseteq Entries
    /\ finished \in BOOLEAN
    /\ stable = NoStatus \/ stable \subseteq Entries

Init ==
    /\ intended \in [Deps -> Versions \cup {Absent, Unset}]
    /\ actual \in [Deps -> Versions \cup {Absent}]
    /\ \A d \in Deps : intended[d] # Absent \/ actual[d] # Absent
    /\ main = "running"
    /\ erred = FALSE
    /\ Stream!StreamInit
    /\ forwarder = NoEntry
    /\ waiter = [d \in Deps |-> "none"]
    /\ result = [d \in Deps |-> FALSE]
    /\ log = <<>>
    /\ logClosed = FALSE
    /\ drain = NoEntry
    /\ recorded = {}
    /\ finished = FALSE
    /\ stable = NoStatus

----------------------------------------------------------------------------
(* The phases of Begin.                                                     *)

(* The clusters are filtered and asked what is running; the diff and the    *)
(* name resolution are started.                                             *)
RunningDeployments ==
    /\ main = "running"
    /\ main' = "queue"
    /\ UNCHANGED <<given, erred, stream, workers, recorder, stable>>

(* Asking fails: every later phase is skipped, and logger.Wait() is called  *)
(* on the logger that was never made.  A panic of this goroutine ends the   *)
(* process.                                                                 *)
RunningDeploymentsFails ==
    /\ main = "running"
    /\ erred' = TRUE
    /\ main' = "panicked"
    /\ UNCHANGED <<given, stream, workers, recorder, stable>>

(* queueDiffs receives a pair.  PushIfEmpty may find the queue in use, in   *)
(* which case the diff is dropped until the next resolve.                   *)
QueueDiffs ==
    /\ main = "queue"
    /\ \E d \in Deps :
          /\ Stream!Pass(d)
          /\ \/ waiter' = waiter
             \/ ~NothingToDo(d) /\ waiter' = [waiter EXCEPT ![d] = "wait"]
    /\ UNCHANGED <<given, main, erred, forwarder, result, recorder, stable>>

(* The loop ends with Pairs, then wg.Wait().                                *)
QueueDiffsEnds ==
    /\ main = "queue"
    /\ Stream!ClosePairs
    /\ main' = "waiters"
    /\ UNCHANGED <<given, erred, workers, recorder, stable>>

WaitersDoneMutant == TRUE                                   \* mutant: no wg.Wait()
WaitersDone == \A d \in Deps : waiter[d] \in {"none", "done"}

WaitForWaiters ==
    /\ main = "waiters"
    /\ WaitersDone
    /\ main' = "errors"
    /\ UNCHANGED <<given, erred, stream, workers, recorder, stable>>

(* logger.Wait(): until the forwarder is done.                              *)
WaitForForwarder ==
    /\ main = "errors"
    /\ errsClosed
    /\ main' = "close"
    /\ UNCHANGED <<given, erred, stream, workers, recorder, stable>>

CloseLog ==
    /\ main = "close"
    /\ logClosed' = TRUE
    /\ main' = "finish"
    /\ UNCHANGED <<given, erred, stream, workers, log, drain, recorded, finished,
                   stable>>

MainFinishes ==
    /\ main = "finish"
    /\ finished' = TRUE
    /\ main' = "done"
    /\ UNCHANGED <<given, erred, stream, workers, log, logClosed, drain, recorded,
                   stable>>

MainStep ==
    \/ RunningDeployments
    \/ RunningDeploymentsFails
    \/ QueueDiffs
    \/ QueueDiffsEnds
    \/ WaitForWaiters
    \/ WaitForForwarder
    \/ CloseLog
    \/ MainFinishes

----------------------------------------------------------------------------
(* recorder.Log <- entry: waits for room.                                   *)
SendLog(e) ==
    /\ Len(log) < LogCap
    /\ log' = Append(log, e)

(* The forwarder of the pipeline's errors, started with the pipeline.       *)
ForwardErr ==
    /\ main # "running"
    /\ forwarder = NoEntry
    /\ \E d \in Deps :
          /\ Stream!Fail(d)
          /\ forwarder' = [dep |-> d, error |-> TRUE]
    /\ UNCHANGED <<given, main, erred, waiter, result, recorder, stable>>

ForwarderSend ==
    /\ forwarder # NoEntry
    /\ SendLog(forwarder)
    /\ forwarder' = NoEntry
    /\ UNCHANGED <<given, main, erred, stream, waiter, result, logClosed, drain,
                   recorded, finished, stable>>

ForwarderEnds ==
    /\ main # "running"
    /\ forwarder = NoEntry
    /\ Stream!CloseErrs
    /\ UNCHANGED <<given, main, erred, workers, recorder, stable>>

ForwarderStep == ForwardErr \/ ForwarderSend \/ ForwarderEnds

(* QueueSet.Wait returns to a waiter with how the rectification ended, and  *)
(* the waiter sends it.                                                     *)
WaitReturns(d) ==
    /\ waiter[d] = "wait"
    /\ waiter' = [waiter EXCEPT ![d] = "send"]
    /\ \E e \in BOOLEAN : result' = [result EXCEPT ![d] = e]
    /\ UNCHANGED <<given, main, erred, stream, forwarder, recorder, stable>>

WaiterSend(d) ==
    /\ waiter[d] = "send"
    /\ SendLog([dep |-> d, error |-> result[d]])
    /\ waiter' = [waiter EXCEPT ![d] = "done"]
    /\ UNCHANGED <<given, main, erred, stream, forwarder, result, logClosed, drain,
                   recorded, finished, stable>>

WaiterStep(d) == WaitReturns(d) \/ WaiterSend(d)

(* The recorder's drain receives an entry, then records it under the lock.  *)
DrainReceive ==
    /\ drain = NoEntry
    /\ log # <<>>
    /\ drain' = Head(log)
    /\ log' = Tail(log)
    /\ UNCHANGED <<given, main, erred, stream, workers, logClosed, recorded, finished,
                   stable>>

DrainRecordMutant ==                 \* mutant: only errors are appended
    /\ drain # NoEntry
    /\ recorded' = IF drain.error THEN recorded \cup {drain} ELSE recorded
    /\ drain' = NoEntry
    /\ UNCHANGED <<given, main, erred, stream, workers, log, logClosed, finished,
                   stable>>
DrainRecord ==
    /\ drain # NoEntry
    /\ recorded' = recorded \cup {drain}
    /\ drain' = NoEntry
    /\ UNCHANGED <<given, main, erred, stream, workers, log, logClosed, finished,
                   stable>>

(* Wait returns, and the caller takes CurrentStatus.                        *)
TakeStable ==
    /\ finished
    /\ stable = NoStatus
    /\ stable' = recorded
    /\ UNCHANGED <<given, main, erred, stream, workers, recorder>>

----------------------------------------------------------------------------
Drained == finished /\ drain = NoEntry /\ log = <<>>

(* Nothing is left to do, or the process has ended.                         *)
Rest ==
    /\ main = "panicked" \/ (Drained /\ stable # NoStatus)
    /\ UNCHANGED vars

Step ==
    \/ MainStep
    \/ ForwarderStep
    \/ \E d \in Deps : WaiterStep(d)
    \/ DrainReceive
    \/ DrainRecord
    \/ TakeStable

Next ==
    \/ main # "panicked" /\ Step
    \/ Rest

(* Goroutines are scheduled, RunningDeployments returns, and so does Wait   *)
(* (see R11nQueue).                                                         *)
Fairness ==
    /\ WF_vars(main # "panicked" /\ MainStep)
    /\ WF_vars(main # "panicked" /\ ForwarderStep)
    /\ \A d \in Deps : WF_vars(main # "panicked" /\ WaiterStep(d))
    /\ WF_vars(main # "panicked" /\ (DrainReceive \/ DrainRecord))
    /\ WF_vars(main # "panicked" /\ TakeStable)

Spec == Init /\ [][Next]_vars

FairSpec == Spec /\ Fairness

----------------------------------------------------------------------------
(* Properties.                                                              *)

(* A send on a closed channel panics: once Log is closed, no goroutine has  *)
(* anything to send on it, nor will have.                                   *)
NoSendOnClosed ==
    logClosed => /\ forwarder = NoEntry /\ errsClosed
                 /\ \A d \in Deps : waiter[d] \notin {"wait", "send"}

(* The deployments a resolve has something to report of: their names did    *)
(* not resolve, or their rectification was queued.                          *)
Reported == failed \cup {d \in Deps : waiter[d] # "none"}

(* Nothing is lost or doubled between the goroutines and the status: a      *)
(* deployment to be reported is still with its goroutine, or in exactly one *)
(* entry, in Log, in the drain's hand or in the status.                     *)
EntriesOf(d) ==
    Cardinality({n \in DOMAIN log : log[n].dep = d})
    + Cardinality({e \in {drain} \ {NoEntry} : e.dep = d})
    + Cardinality({e \in recorded : e.dep = d})
NothingLost ==
    \A d \in Deps :
        LET held == \/ waiter[d] \in {"wait", "send"}
                    \/ (forwarder # NoEntry /\ forwarder.dep = d)
        IN  EntriesOf(d) = IF d \in Reported /\ ~held THEN 1 ELSE 0

(* A resolve ends, and in time everything it had to report is in its        *)
(* status.                                                                  *)
ResolveEnds ==
    <>(main = "panicked" \/ (finished /\ {e.dep : e \in recorded} = Reported))

----------------------------------------------------------------------------
(* Said of the code by its comments or its use, and not so: see the README. *)

(* "The returned statuses are 'stable' - the unchanging, complete status of *)
(* the previous resolve": what is taken once Wait has returned has all that *)
(* the resolve reported.                                                    *)
StableIsComplete == stable # NoStatus => {e.dep : e \in stable} = Reported

(* A phase that fails ends the resolve with its error, not the process.     *)
NeverPanics == main # "panicked"

(* "In the case where the GDM and ADS deployments are the same, the /status *)
(* will be described as 'unchanged'": an equal deployment has an entry once *)
(* the resolve is over.                                                     *)
SameIsReported ==
    Drained => \A d \in Deps : Kind(d) = "same" => \E e \in recorded : e.dep = d
=============================================================================
