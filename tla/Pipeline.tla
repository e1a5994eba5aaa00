------------------------------ MODULE Pipeline ------------------------------
(****************************************************************************)
(* The pipeline between the diff and the queues: the differ goroutine of    *)
(* lib/deployment_diff.go, then DeployableChans.Pipeline of lib/pipeline.go *)
(* once per stage (ResolveNames, Log), then the two loops that drain the    *)
(* last stage.                                                              *)
(*                                                                          *)
(* A stage has two goroutines.  Its worker takes pairs from the stage       *)
(* before, and hands on either the pair or, over the unbuffered transErrs,  *)
(* a resolution.  Its merger passes on what comes from transErrs and from   *)
(* the Errs of the stage before.  Channel k is the output of stage k, and   *)
(* channel 0 the differ's.  A rendezvous is one step of both sides.         *)
(****************************************************************************)
EXTENDS Integers, Sequences

CONSTANTS
    Deps,          \* the deployments there is a pair for
    Stages,        \* number of stages
    MaxBuffer,     \* bound: how many deployments are running
    Failing,       \* the stages whose processor may return an error
    Refusable      \* the deployments for which it may

StagesAssumption ==
    /\ Stages \in Nat \ {0}
    /\ MaxBuffer \in Nat
    /\ Failing \subseteq 1..Stages
    /\ Refusable \subseteq Deps

VARIABLES
    buffer,        \* capacity of the differ's channels: deployments running
    todo,          \* pairs the differ has still to send
    pairs,         \* pairs[k]: the buffer of Pairs of channel k
    errs,          \* errs[k]: the buffer of Errs of channel k
    pairsShut,     \* pairsShut[k]: Pairs of channel k is closed
    errsShut,      \* errsShut[k]: Errs of channel k is closed
    worker,        \* where the worker of each stage is, and the pair in hand
    merger,        \* the same for the mergers, and which inputs are nil
    passed,        \* received by the loop over the last Pairs
    failed,        \* received by the loop over the last Errs
    pairsClosed,   \* the loop over the last Pairs has ended
    errsClosed     \* the loop over the last Errs has ended

differ == <<buffer, todo>>
channels == <<pairs, errs, pairsShut, errsShut>>
consumers == <<passed, failed, pairsClosed, errsClosed>>
vars == <<differ, channels, worker, merger, consumers>>

Channels == 0..Stages
StageIds == 1..Stages
NoDep == "none"

Capacity(k) == IF k = 0 THEN buffer ELSE 1

TypeOK ==
    /\ buffer \in 0..MaxBuffer
    /\ todo \subseteq Deps
    /\ \A k \in Channels : /\ pairs[k] \in Seq(Deps)
                           /\ errs[k] \in Seq(Deps)
                           /\ Len(pairs[k]) <= Capacity(k)
                           /\ Len(errs[k]) <= Capacity(k)
    /\ pairsShut \in [Channels -> BOOLEAN]
    /\ errsShut \in [Channels -> BOOLEAN]
    /\ worker \in [StageIds -> [at : {"receive", "report", "send", "close", "shut",
                                      "gone"},
                                dep : Deps \cup {NoDep}]]
    /\ merger \in [StageIds -> [at : {"receive", "send", "gone"},
                                dep : Deps \cup {NoDep},
                                upstream : BOOLEAN, local : BOOLEAN]]
    /\ passed \subseteq Deps
    /\ failed \subseteq Deps
    /\ pairsClosed \in BOOLEAN
    /\ errsClosed \in BOOLEAN

Init ==
    /\ buffer \in 0..MaxBuffer
    /\ todo = Deps
    /\ pairs = [k \in Channels |-> <<>>]
    /\ errs = [k \in Channels |-> <<>>]
    /\ pairsShut = [k \in Channels |-> FALSE]
    /\ errsShut = [k \in Channels |-> FALSE]
    /\ worker = [k \in StageIds |-> [at |-> "receive", dep |-> NoDep]]
    /\ merger = [k \in StageIds |-> [at |-> "receive", dep |-> NoDep,
                                     upstream |-> TRUE, local |-> TRUE]]
    /\ passed = {}
    /\ failed = {}
    /\ pairsClosed = FALSE
    /\ errsClosed = FALSE

----------------------------------------------------------------------------
(* The differ sends a pair, to the buffer or, with none, to the worker.     *)
DifferSend ==
    /\ \E d \in todo :
          /\ todo' = todo \ {d}
          /\ IF buffer = 0
             THEN /\ worker[1].at = "receive"
                  /\ worker' = [worker EXCEPT ![1].dep = d, ![1].at = "send"]
                  /\ UNCHANGED pairs
             ELSE /\ Len(pairs[0]) < buffer
                  /\ pairs' = [pairs EXCEPT ![0] = Append(@, d)]
                  /\ UNCHANGED worker
    /\ UNCHANGED <<buffer, errs, pairsShut, errsShut, merger, consumers>>

(* DeployableChans.Close, deferred by the differ.                           *)
DifferClose ==
    /\ todo = {}
    /\ ~pairsShut[0]
    /\ pairsShut' = [pairsShut EXCEPT ![0] = TRUE]
    /\ errsShut' = [errsShut EXCEPT ![0] = TRUE]
    /\ UNCHANGED <<differ, pairs, errs, worker, merger, consumers>>

----------------------------------------------------------------------------
(* The worker of stage k.                                                   *)

WorkerReceive(k) ==
    /\ worker[k].at = "receive"
    /\ \/ /\ pairs[k - 1] # <<>>
          /\ pairs' = [pairs EXCEPT ![k - 1] = Tail(@)]
          /\ worker' = [worker EXCEPT ![k].dep = Head(pairs[k - 1]), ![k].at = "send"]
       \/ /\ pairs[k - 1] = <<>>
          /\ pairsShut[k - 1]
          /\ worker' = [worker EXCEPT ![k].at = "close"]
          /\ UNCHANGED pairs
    /\ UNCHANGED <<differ, errs, pairsShut, errsShut, merger, consumers>>

(* HandlePairs returns an error instead of a pair.                          *)
ProcessorFailsMutant(k) ==           \* mutant: the error is not sent on
    /\ k \in Failing
    /\ worker[k].dep \in Refusable
    /\ worker[k].at = "send"
    /\ worker' = [worker EXCEPT ![k].at = "receive", ![k].dep = NoDep]
    /\ UNCHANGED <<differ, channels, merger, consumers>>
ProcessorFails(k) ==
    /\ k \in Failing
    /\ worker[k].dep \in Refusable
    /\ worker[k].at = "send"
    /\ worker' = [worker EXCEPT ![k].at = "report"]
    /\ UNCHANGED <<differ, channels, merger, consumers>>

(* transErrs <- rez, received by the merger of the stage.                   *)
WorkerReport(k) ==
    /\ worker[k].at = "report"
    /\ merger[k].at = "receive"
    /\ worker' = [worker EXCEPT ![k].at = "receive", ![k].dep = NoDep]
    /\ merger' = [merger EXCEPT ![k].at = "send", ![k].dep = worker[k].dep]
    /\ UNCHANGED <<differ, channels, consumers>>

WorkerSend(k) ==
    /\ worker[k].at = "send"
    /\ Len(pairs[k]) < Capacity(k)
    /\ pairs' = [pairs EXCEPT ![k] = Append(@, worker[k].dep)]
    /\ worker' = [worker EXCEPT ![k].at = "receive", ![k].dep = NoDep]
    /\ UNCHANGED <<differ, errs, pairsShut, errsShut, merger, consumers>>

(* The deferred calls: close(transErrs), then close(to).                    *)
WorkerEnds(k) ==
    /\ \/ /\ worker[k].at = "close"
          /\ worker' = [worker EXCEPT ![k].at = "shut"]
          /\ UNCHANGED pairsShut
       \/ /\ worker[k].at = "shut"
          /\ worker' = [worker EXCEPT ![k].at = "gone"]
          /\ pairsShut' = [pairsShut EXCEPT ![k] = TRUE]
    /\ UNCHANGED <<differ, pairs, errs, errsShut, merger, consumers>>

TransErrsShut(k) == worker[k].at \in {"shut", "gone"}

WorkerStep(k) ==
    \/ WorkerReceive(k)
    \/ ProcessorFails(k)
    \/ WorkerReport(k)
    \/ WorkerSend(k)
    \/ WorkerEnds(k)

----------------------------------------------------------------------------
(* The merger of stage k.                                                   *)

MergerReceive(k) ==
    /\ merger[k].at = "receive"
    /\ merger[k].upstream
    /\ errs[k - 1] # <<>>
    /\ errs' = [errs EXCEPT ![k - 1] = Tail(@)]
    /\ merger' = [merger EXCEPT ![k].at = "send", ![k].dep = Head(errs[k - 1])]
    /\ UNCHANGED <<differ, pairs, pairsShut, errsShut, worker, consumers>>

(* A closed input is set to nil.                                            *)
MergerDrops(k) ==
    /\ merger[k].at = "receive"
    /\ \/ /\ merger[k].upstream
          /\ errs[k - 1] = <<>>
          /\ errsShut[k - 1]
          /\ merger' = [merger EXCEPT ![k].upstream = FALSE]
       \/ /\ merger[k].local
          /\ TransErrsShut(k)
          /\ merger' = [merger EXCEPT ![k].local = FALSE]
    /\ UNCHANGED <<differ, channels, worker, consumers>>

MergerSend(k) ==
    /\ merger[k].at = "send"
    /\ Len(errs[k]) < Capacity(k)
    /\ errs' = [errs EXCEPT ![k] = Append(@, merger[k].dep)]
    /\ merger' = [merger EXCEPT ![k].at = "receive", ![k].dep = NoDep]
    /\ UNCHANGED <<differ, pairs, pairsShut, errsShut, worker, consumers>>

InputsNil(k) == ~merger[k].upstream /\ ~merger[k].local

MergerEnds(k) ==
    /\ merger[k].at = "receive"
    /\ InputsNil(k)
    /\ merger' = [merger EXCEPT ![k].at = "gone"]
    /\ errsShut' = [errsShut EXCEPT ![k] = TRUE]
    /\ UNCHANGED <<differ, pairs, errs, pairsShut, worker, consumers>>

MergerStep(k) ==
    \/ MergerReceive(k)
    \/ MergerDrops(k)
    \/ MergerSend(k)
    \/ MergerEnds(k)

----------------------------------------------------------------------------
(* The loops over the output of the last stage.                             *)

ConsumePairs ==
    /\ ~pairsClosed
    /\ \/ /\ pairs[Stages] # <<>>
          /\ pairs' = [pairs EXCEPT ![Stages] = Tail(@)]
          /\ passed' = passed \cup {Head(pairs[Stages])}
          /\ UNCHANGED pairsClosed
       \/ /\ pairs[Stages] = <<>>
          /\ pairsShut[Stages]
          /\ pairsClosed' = TRUE
          /\ UNCHANGED <<pairs, passed>>
    /\ UNCHANGED <<differ, errs, pairsShut, errsShut, worker, merger, failed, errsClosed>>

ConsumeErrs ==
    /\ ~errsClosed
    /\ \/ /\ errs[Stages] # <<>>
          /\ errs' = [errs EXCEPT ![Stages] = Tail(@)]
          /\ failed' = failed \cup {Head(errs[Stages])}
          /\ UNCHANGED errsClosed
       \/ /\ errs[Stages] = <<>>
          /\ errsShut[Stages]
          /\ errsClosed' = TRUE
          /\ UNCHANGED <<errs, failed>>
    /\ UNCHANGED <<differ, pairs, pairsShut, errsShut, worker, merger, passed, pairsClosed>>

----------------------------------------------------------------------------
Ended == pairsClosed /\ errsClosed

(* Once both loops have ended the pipeline has nothing more to do.          *)
Rest == Ended /\ UNCHANGED vars

Next ==
    \/ DifferSend
    \/ DifferClose
    \/ \E k \in StageIds : WorkerStep(k) \/ MergerStep(k)
    \/ ConsumePairs
    \/ ConsumeErrs
    \/ Rest

(* Every goroutine that can go on is scheduled.                             *)
Fairness ==
    /\ WF_vars(DifferSend \/ DifferClose)
    /\ \A k \in StageIds : WF_vars(WorkerStep(k)) /\ WF_vars(MergerStep(k))
    /\ WF_vars(ConsumePairs)
    /\ WF_vars(ConsumeErrs)

Spec == Init /\ [][Next]_vars /\ Fairness

----------------------------------------------------------------------------
(* Properties.                                                              *)

(* The pipeline keeps PairStream's promise, in safety and in liveness: no   *)
(* pair is lost, doubled or delivered after its channel closed, whatever    *)
(* fails, and both loops end.                                               *)
Stream == INSTANCE PairStream
    WITH pending <- Deps \ (passed \cup failed), refusable <- Refusable
KeepsPromise == Stream!StreamSpec
=============================================================================
