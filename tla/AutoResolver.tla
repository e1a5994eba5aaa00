---------------------------- MODULE AutoResolver ----------------------------
(****************************************************************************)
(* The endless resolution cycle of a server: lib/auto_resolver.go.  Kickoff *)
(* starts four goroutines that pass one trigger around over unbuffered      *)
(* channels:                                                                *)
(*                                                                          *)
(*   resolve loop --announce--> multicast --> afterDone, errorLogging       *)
(*        ^                                      |                          *)
(*        +-------------- trigger ---------------+                          *)
(*                                                                          *)
(* while GET /status (server/handle_status.go) calls Statuses.  What is     *)
(* done under the RWMutex is one step; a rendezvous is one step of both.    *)
(* A goroutine that returns goes through loopTilDone: it ends if done is    *)
(* closed and starts over if not.                                           *)
(****************************************************************************)
EXTENDS Integers, FiniteSets

CONSTANTS
    Readers,       \* goroutines that ask for the statuses
    Ids            \* bound: resolves are numbered modulo this

IdsAssumption == Ids \in Nat /\ Ids >= 4

VARIABLES
    kick,          \* Kickoff: "trigger" (its first trigger) or "returned"
    done,          \* whether the done channel is closed
    loop,          \* the resolve loop
    multicast,     \* the goroutine that repeats announcements
    afterDone,     \* the listener that triggers the next cycle
    errorLogging,  \* the listener that logs errors
    current,       \* currentRecorder: the resolve it records, or NoResolve
    over,          \* whether the resolve last begun has finished
    begun,         \* number of the resolve last begun
    stable,        \* stableStatus
    live,          \* liveStatus
    at             \* where each reader is

listeners == <<multicast, afterDone, errorLogging>>
statuses == <<stable, live>>
vars == <<kick, done, loop, listeners, current, over, begun, statuses, at>>

NoResolve == -1
NoStatus == [of |-> NoResolve, finished |-> FALSE]
Status == [of : 0..(Ids - 1), finished : BOOLEAN] \cup {NoStatus}

After(n) == (n + 1) % Ids

TypeOK ==
    /\ kick \in {"trigger", "returned"}
    /\ done \in BOOLEAN
    /\ loop \in {"wait", "check", "read", "failed", "run", "announce", "store",
                 "report", "clear", "gone"}
    /\ multicast \in {"listen", "first", "second", "gone"}
    /\ afterDone \in {"listen", "sleep", "trigger", "gone"}
    /\ errorLogging \in {"listen", "gone"}
    /\ current \in (0..(Ids - 1)) \cup {NoResolve}
    /\ over \in BOOLEAN
    /\ begun \in 0..(Ids - 1)
    /\ stable \in Status
    /\ live \in Status
    /\ at \in [Readers -> {"idle", "update", "read", "panicked"}]

Init ==
    /\ kick = "trigger"
    /\ done = FALSE
    /\ loop = "wait"
    /\ multicast = "listen"
    /\ afterDone = "listen"
    /\ errorLogging = "listen"
    /\ current = NoResolve
    /\ over = TRUE
    /\ begun = 0
    /\ stable = NoStatus
    /\ live = NoStatus
    /\ at = [r \in Readers |-> "idle"]

(* Where loopTilDone sends a goroutine that returns.                        *)
Top(start) == IF done THEN "gone" ELSE start

(* The holder of Kickoff's result closes it.                                *)
CloseDone ==
    /\ kick = "returned"
    /\ ~done
    /\ done' = TRUE
    /\ UNCHANGED <<kick, loop, listeners, current, over, begun, statuses, at>>

----------------------------------------------------------------------------
(* The resolve loop.                                                        *)

TriggerReady == kick = "trigger" \/ afterDone = "trigger"

(* A trigger is received by either select of resolveLoop; both then go on   *)
(* to the second one.                                                       *)
ReceiveTrigger ==
    /\ loop \in {"wait", "check"}
    /\ \/ kick = "trigger" /\ kick' = "returned" /\ UNCHANGED afterDone
       \/ /\ afterDone = "trigger"
          /\ afterDone' = Top("listen")
          /\ UNCHANGED kick
    /\ loop' = "check"
    /\ UNCHANGED <<done, multicast, errorLogging, current, over, begun, statuses, at>>

LoopEnds ==
    /\ loop \in {"wait", "check"}
    /\ done
    /\ loop' = "gone"
    /\ UNCHANGED <<kick, done, listeners, current, over, begun, statuses, at>>

(* The default case of the second select: neither done nor a trigger is     *)
(* ready.                                                                   *)
ResolveOnce ==
    /\ loop = "check"
    /\ ~done
    /\ ~TriggerReady
    /\ loop' = "read"
    /\ UNCHANGED <<kick, done, listeners, current, over, begun, statuses, at>>

(* ReadState or state.Deployments fails; the error is announced.            *)
ReadFails ==
    /\ loop = "read"
    /\ loop' = "failed"
    /\ UNCHANGED <<kick, done, listeners, current, over, begun, statuses, at>>

Begin ==
    /\ loop = "read"
    /\ begun' = After(begun)
    /\ current' = After(begun)
    /\ over' = FALSE
    /\ loop' = "run"
    /\ UNCHANGED <<kick, done, listeners, statuses, at>>

(* The resolve finishes by itself, and Wait returns.                        *)
ResolveFinishes ==
    /\ ~over
    /\ over' = TRUE
    /\ UNCHANGED <<kick, done, loop, listeners, current, begun, statuses, at>>

WaitReturnsMutant ==                 \* mutant: Done() for Wait()
    /\ loop = "run"
    /\ loop' = "announce"
    /\ UNCHANGED <<kick, done, listeners, current, over, begun, statuses, at>>
WaitReturns ==
    /\ loop = "run"
    /\ over
    /\ loop' = "announce"
    /\ UNCHANGED <<kick, done, listeners, current, over, begun, statuses, at>>

(* The result, or the error that kept the resolve from starting, goes to    *)
(* multicast.                                                               *)
AnnounceMutant ==                    \* mutant: errors are not announced
    /\ \/ /\ loop = "announce" /\ multicast = "listen"
          /\ loop' = "store" /\ multicast' = "first"
       \/ loop = "failed" /\ loop' = Top("wait") /\ UNCHANGED multicast
    /\ UNCHANGED <<kick, done, afterDone, errorLogging, current, over, begun,
                   statuses, at>>
Announce ==
    /\ multicast = "listen"
    /\ multicast' = "first"
    /\ \/ loop = "announce" /\ loop' = "store"
       \/ loop = "failed" /\ loop' = Top("wait")
    /\ UNCHANGED <<kick, done, afterDone, errorLogging, current, over, begun,
                   statuses, at>>

(* CurrentStatus of the current recorder.                                   *)
CurrentStatus == [of |-> current, finished |-> over]

StoreStable ==
    /\ loop = "store"
    /\ stable' = CurrentStatus
    /\ loop' = "report"
    /\ UNCHANGED <<kick, done, listeners, current, over, begun, live, at>>

(* The loop's own call of Statuses.                                         *)
Report ==
    /\ loop = "report"
    /\ live' = CurrentStatus
    /\ loop' = "clear"
    /\ UNCHANGED <<kick, done, listeners, current, over, begun, stable, at>>

(* The deferred write of resolveOnce.                                       *)
ClearRecorder ==
    /\ loop = "clear"
    /\ current' = NoResolve
    /\ loop' = Top("wait")
    /\ UNCHANGED <<kick, done, listeners, over, begun, statuses, at>>

LoopStep ==
    \/ ReceiveTrigger
    \/ LoopEnds
    \/ ResolveOnce
    \/ ReadFails
    \/ Begin
    \/ WaitReturns
    \/ Announce
    \/ StoreStable
    \/ Report
    \/ ClearRecorder

----------------------------------------------------------------------------
(* The listeners.                                                           *)

(* multicast repeats the announcement to afterDone, then to errorLogging.   *)
TellAfterDone ==
    /\ multicast = "first"
    /\ afterDone = "listen"
    /\ multicast' = "second"
    /\ afterDone' = "sleep"
    /\ UNCHANGED <<kick, done, loop, errorLogging, current, over, begun, statuses, at>>

TellErrorLogging ==
    /\ multicast = "second"
    /\ errorLogging = "listen"
    /\ multicast' = Top("listen")
    /\ errorLogging' = Top("listen")
    /\ UNCHANGED <<kick, done, loop, afterDone, current, over, begun, statuses, at>>

MulticastEnds ==
    /\ done
    /\ multicast = "listen"
    /\ multicast' = "gone"
    /\ UNCHANGED <<kick, done, loop, afterDone, errorLogging, current, over, begun,
                   statuses, at>>

(* UpdateTime has passed.                                                   *)
Wake ==
    /\ afterDone = "sleep"
    /\ afterDone' = "trigger"
    /\ UNCHANGED <<kick, done, loop, multicast, errorLogging, current, over, begun,
                   statuses, at>>

AfterDoneEnds ==
    /\ done
    /\ afterDone \in {"listen", "sleep"}
    /\ afterDone' = "gone"
    /\ UNCHANGED <<kick, done, loop, multicast, errorLogging, current, over, begun,
                   statuses, at>>

ErrorLoggingEnds ==
    /\ done
    /\ errorLogging = "listen"
    /\ errorLogging' = "gone"
    /\ UNCHANGED <<kick, done, loop, multicast, afterDone, current, over, begun,
                   statuses, at>>

MulticastStep == TellAfterDone \/ TellErrorLogging \/ MulticastEnds
AfterDoneStep == Wake \/ AfterDoneEnds

----------------------------------------------------------------------------
(* GET /status: updateStatus looks at currentRecorder before it locks, and  *)
(* uses it after; the reply is read under the read lock.  A panic ends the  *)
(* request.                                                                 *)
StatusesCheck(r) ==
    /\ at[r] = "idle"
    /\ at' = [at EXCEPT ![r] = IF current = NoResolve THEN "read" ELSE "update"]
    /\ UNCHANGED <<kick, done, loop, listeners, current, over, begun, statuses>>

UpdateStatus(r) ==
    /\ at[r] = "update"
    /\ IF current = NoResolve
       THEN at' = [at EXCEPT ![r] = "panicked"] /\ UNCHANGED live
       ELSE at' = [at EXCEPT ![r] = "read"] /\ live' = CurrentStatus
    /\ UNCHANGED <<kick, done, loop, listeners, current, over, begun, stable>>

StatusesReply(r) ==
    /\ at[r] \in {"read", "panicked"}
    /\ at' = [at EXCEPT ![r] = "idle"]
    /\ UNCHANGED <<kick, done, loop, listeners, current, over, begun, statuses>>

ReaderStep(r) == StatusesCheck(r) \/ UpdateStatus(r) \/ StatusesReply(r)

----------------------------------------------------------------------------
Next ==
    \/ CloseDone
    \/ LoopStep
    \/ ResolveFinishes
    \/ MulticastStep
    \/ AfterDoneStep
    \/ ErrorLoggingEnds
    \/ \E r \in Readers : ReaderStep(r)

Spec == Init /\ [][Next]_vars

(* Goroutines are scheduled, timers fire, and a resolve ends (its calls and *)
(* its rectifications have timeouts).  No reader has to ask, and nothing    *)
(* has to close done.                                                       *)
Fairness ==
    /\ WF_vars(LoopStep)
    /\ WF_vars(ResolveFinishes)
    /\ WF_vars(MulticastStep)
    /\ WF_vars(AfterDoneStep)
    /\ WF_vars(ErrorLoggingEnds)

FairSpec == Spec /\ Fairness

----------------------------------------------------------------------------
(* Properties.                                                              *)

(* The places the trigger of a cycle can be.                                *)
Triggers ==
    {p \in {"kick", "loop", "multicast", "afterDone"} :
        \/ p = "kick" /\ kick = "trigger"
        \/ p = "loop" /\ loop \in {"check", "read", "failed", "run", "announce"}
        \/ p = "multicast" /\ multicast = "first"
        \/ p = "afterDone" /\ afterDone \in {"sleep", "trigger"}}

(* One cycle at a time, and never none: exactly one trigger is about, or at *)
(* most one once done is closed, and a resolve under way has the loop       *)
(* waiting for it.  So an "extra trigger before starting Resolve" is never  *)
(* received.                                                                *)
OneCycle ==
    /\ Cardinality(Triggers) <= 1
    /\ ~done => Triggers # {}
    /\ ~over => loop = "run"

(* The stable status is of a finished resolve, and of the last one begun    *)
(* that can have finished: "the unchanging, complete status of the previous *)
(* resolve".                                                                *)
StableIsPrevious ==
    stable # NoStatus =>
        /\ stable.finished
        /\ \/ begun = stable.of
           \/ begun = After(stable.of) /\ loop \in {"run", "announce", "store"}

(* The cycle never stops: resolveOnce is entered again and again for as     *)
(* long as done is open, whatever fails.                                    *)
CyclesRecur == []<>(loop = "read" \/ done)

----------------------------------------------------------------------------
(* Said of the code by its comments or its use, and not so: see the README. *)

(* "Statuses returns the current status of the resolution underway": it     *)
(* returns, whatever the loop is doing.                                     *)
StatusesReturns == \A r \in Readers : at[r] # "panicked"
=============================================================================
