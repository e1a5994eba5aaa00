----------------------------- MODULE Resolution -----------------------------
(****************************************************************************)
(* The three layers of a server's resolution, one of them at a time: the    *)
(* endless cycle of AutoResolver, the resolve that each of its rounds runs  *)
(* (Resolver), and the pipeline that feeds a resolve (Pipeline).  A layer   *)
(* sees the one below it as a promise: a resolve is an interval to the      *)
(* cycle, and the pipeline a PairStream to the resolve.                     *)
(****************************************************************************)
EXTENDS Integers, Sequences, FiniteSets

CONSTANTS
    Readers, Ids,                                           \* of AutoResolver
    Deps, Versions, LogCap,                                 \* of Resolver
    Pairs, Stages, MaxBuffer, Failing, Refusable            \* of Pipeline

VARIABLES
    part,          \* the layer at work
    kick, done, loop, multicast, afterDone, errorLogging, current, over, begun,
    stableStatus, live, at,
    intended, actual, main, erred, pending, passed, failed, pairsClosed, errsClosed,
    forwarder, waiter, result, log, logClosed, drain, recorded, finished, stable,
    buffer, todo, pairs, errs, pairsShut, errsShut, worker, merger,
    out, refused, outClosed, refusedClosed

Cycle == INSTANCE AutoResolver WITH stable <- stableStatus
Resolve == INSTANCE Resolver
Pipe == INSTANCE Pipeline
    WITH Deps <- Pairs, passed <- out, failed <- refused,
         pairsClosed <- outClosed, errsClosed <- refusedClosed

ASSUME CycleAssumption == Cycle!IdsAssumption
ASSUME ResolveAssumption == Resolve!LogCapAssumption /\ Resolve!DepsAssumption
ASSUME PipeAssumption == Pipe!StagesAssumption

cycleVars ==
    <<kick, done, loop, multicast, afterDone, errorLogging, current, over, begun,
      stableStatus, live, at>>
resolveVars ==
    <<intended, actual, main, erred, pending, passed, failed, pairsClosed, errsClosed,
      forwarder, waiter, result, log, logClosed, drain, recorded, finished, stable>>
pipeVars ==
    <<buffer, todo, pairs, errs, pairsShut, errsShut, worker, merger,
      out, refused, outClosed, refusedClosed>>
vars == <<part, cycleVars, resolveVars, pipeVars>>

(* A layer that is not at work stays in one of its initial states.          *)
Init ==
    /\ part \in {"cycle", "resolve", "pipeline"}
    /\ Cycle!Init
    /\ Resolve!Init
    /\ Pipe!Init
    /\ part # "resolve" => \A d \in Deps : intended[d] = "unset" /\ actual[d] = "absent"
    /\ part # "pipeline" => buffer = 0

Next ==
    /\ UNCHANGED part
    /\ \/ part = "cycle" /\ Cycle!Next /\ UNCHANGED <<resolveVars, pipeVars>>
       \/ part = "resolve" /\ Resolve!Next /\ UNCHANGED <<cycleVars, pipeVars>>
       \/ part = "pipeline" /\ Pipe!Next /\ UNCHANGED <<cycleVars, resolveVars>>

Spec ==
    /\ Init
    /\ [][Next]_vars
    /\ \/ part = "cycle" /\ Cycle!Fairness
       \/ part = "resolve" /\ Resolve!Fairness
       \/ part = "pipeline" /\ Pipe!Fairness

----------------------------------------------------------------------------
(* Properties.                                                              *)

(* The cycle has one trigger, and keeps it (auto_resolver.go:143-210).      *)
OneCycle == Cycle!OneCycle

(* A stable status is of a resolve that is over, the last or the one before *)
(* it (auto_resolver.go:187).                                               *)
StableIsPrevious == Cycle!StableIsPrevious

(* Until done is closed, resolves follow one another for ever.              *)
CyclesRecur == part = "cycle" => Cycle!CyclesRecur

(* Nothing is sent on a closed Log (resolvestatus.go:130).                  *)
NoSendOnClosed == Resolve!NoSendOnClosed

(* Every result is in one place until it is recorded                        *)
(* (resolver.go:85-125, resolvestatus.go:60-100).                           *)
NothingLost == Resolve!NothingLost

(* A resolve ends with everything it had to report.                         *)
ResolveEnds == part = "resolve" => Resolve!ResolveEnds

(* The pipeline's goroutines keep the promise of PairStream, in safety and  *)
(* in liveness (pipeline.go:25-80).                                         *)
KeepsPromise ==
    /\ Pipe!Stream!StreamSafety
    /\ part = "pipeline" => Pipe!Stream!StreamFairness
=============================================================================
