------------------------- MODULE RunningDeployments -------------------------
(****************************************************************************)
(* What is running: deployer.RunningDeployments of                          *)
(* ext/singularity/actual_deployment_set.go asks every Singularity for its  *)
(* requests and assembles a deployment from each.  A resolve redeploys what *)
(* is not in the answer, so a partial answer must not pass for a full one.  *)
(*                                                                          *)
(* The goroutines: a lister per Singularity, the dispatcher of reqCh, an    *)
(* assembler per request received, a sleeping retry per failed request, the *)
(* closer, and the collecting loop.  reqCh and depCh are buffered; errCh is *)
(* not, so an error is one step of both sides.  A request is in one place   *)
(* at a time, so channels are sets.  What is left running when the loop     *)
(* returns an error, or panics, is not followed.                            *)
(****************************************************************************)
EXTENDS Integers, FiniteSets

CONSTANTS
    Requests,       \* Singularity requests
    Sings,          \* Singularities
    Host,           \* the Singularity of each request
    ReqCap,         \* capacity of reqCh
    DepCap,         \* capacity of depCh
    Pool,           \* MaxAssemblers
    RetryLimit      \* retryLimit

ASSUME HostAssumption == Host \in [Requests -> Sings]
ASSUME SizesAssumption == {ReqCap, DepCap, Pool} \subseteq Nat \ {0}
ASSUME RetryLimitAssumption == RetryLimit \in Nat
ASSUME RequestsAssumption == IsFiniteSet(Requests)

VARIABLES
    lister,         \* where each singPipeline is
    unsent,         \* requests a lister has still to send
    reqCh,          \* requests in reqCh
    assembler,      \* where the assembler of each request is, or the error it sends
    leaving,        \* number of assemblers with only deferred calls left
    depCh,          \* requests whose deployment is in depCh
    sleeping,       \* requests about to be retried
    retries,        \* retryCounter.count
    depWait,        \* the wait group of requests
    closer,         \* where the closing goroutine is
    main,           \* the collecting loop
    deps,           \* requests whose deployment was collected
    ignored         \* requests whose deployment was malformed or not ours

listing == <<lister, unsent>>
assembly == <<assembler, leaving>>
retrying == <<sleeping, retries>>
answer == <<deps, ignored>>
vars == <<listing, reqCh, assembly, depCh, retrying, depWait, closer, main, answer>>

(* What a request or a list can fail with: the error is ignored, leads to a *)
(* retry, or ends the collection.                                           *)
Errors == {"malformed", "retry", "fatal"}

TypeOK ==
    /\ lister \in [Sings -> {"get", "send", "malformed", "fatal", "done",
                         "dropped"}]
    /\ unsent \in [Sings -> SUBSET Requests]
    /\ reqCh \subseteq Requests /\ Cardinality(reqCh) <= ReqCap
    /\ assembler \in [Requests -> {"none", "pool", "work", "dep"} \cup Errors]
    /\ leaving \in Nat
    /\ depCh \subseteq Requests /\ Cardinality(depCh) <= DepCap
    /\ sleeping \subseteq Requests
    /\ retries \in [Requests -> 0..(RetryLimit + 1)]
    /\ depWait \in 0..Cardinality(Requests)
    /\ closer \in {"sing", "dep", "assemble", "reqs", "errs", "gone"}
    /\ main \in {"loop", "returned", "failed", "panicked"}
    /\ deps \subseteq Requests
    /\ ignored \subseteq Requests

Init ==
    /\ lister = [s \in Sings |-> "get"]
    /\ unsent = [s \in Sings |-> {}]
    /\ reqCh = {}
    /\ assembler = [r \in Requests |-> "none"]
    /\ leaving = 0
    /\ depCh = {}
    /\ sleeping = {}
    /\ retries = [r \in Requests |-> 0]
    /\ depWait = 0
    /\ closer = "sing"
    /\ main = "loop"
    /\ deps = {}
    /\ ignored = {}

----------------------------------------------------------------------------
(* singPipeline.                                                            *)

GetRequests(s) ==
    /\ lister[s] = "get"
    /\ \/ /\ lister' = [lister EXCEPT ![s] = "send"]
          /\ unsent' = [unsent EXCEPT ![s] = {r \in Requests : Host[r] = s}]
       \/ /\ lister' = [lister EXCEPT ![s] = "fatal"]
          /\ UNCHANGED unsent
       \/ /\ lister' = [lister EXCEPT ![s] = "malformed"]
          /\ UNCHANGED unsent
    /\ UNCHANGED <<reqCh, assembly, depCh, retrying, depWait, closer, main, answer>>

(* A request is counted, then sent; the count shows to others only once all *)
(* listers have ended.                                                      *)
SendRequest(s) ==
    /\ lister[s] = "send"
    /\ Cardinality(reqCh) < ReqCap
    /\ \E r \in unsent[s] : /\ unsent' = [unsent EXCEPT ![s] = @ \ {r}]
                            /\ reqCh' = reqCh \cup {r}
    /\ depWait' = depWait + 1
    /\ UNCHANGED <<lister, assembly, depCh, retrying, closer, main, answer>>

ListerEnds(s) ==
    /\ lister[s] = "send"
    /\ unsent[s] = {}
    /\ lister' = [lister EXCEPT ![s] = "done"]
    /\ UNCHANGED <<unsent, reqCh, assembly, depCh, retrying, depWait, closer, main, answer>>

ListerStep(s) == GetRequests(s) \/ SendRequest(s) \/ ListerEnds(s)

----------------------------------------------------------------------------
(* depPipeline and its assemblers.                                          *)

Assembling == {r \in Requests : assembler[r] # "none"}

(* Assemblers that hold a place in poolLimit.                               *)
InPool == {r \in Assembling : assembler[r] # "pool"}

Dispatch ==
    /\ \E r \in reqCh : /\ reqCh' = reqCh \ {r}
                        /\ assembler' = [assembler EXCEPT ![r] = "pool"]
    /\ UNCHANGED <<listing, leaving, depCh, retrying, depWait, closer, main, answer>>

EnterPool(r) ==
    /\ assembler[r] = "pool"
    /\ Cardinality(InPool) + leaving < Pool
    /\ assembler' = [assembler EXCEPT ![r] = "work"]
    /\ UNCHANGED <<listing, reqCh, leaving, depCh, retrying, depWait, closer, main, answer>>

AssembleDeployState(r) ==
    /\ assembler[r] = "work"
    /\ \E x \in {"dep"} \cup Errors : assembler' = [assembler EXCEPT ![r] = x]
    /\ UNCHANGED <<listing, reqCh, leaving, depCh, retrying, depWait, closer, main, answer>>

(* The assembler has sent: its deferred calls give the place in the pool    *)
(* back and tell depAssWait.                                                *)
Sent(r) ==
    /\ assembler' = [assembler EXCEPT ![r] = "none"]
    /\ leaving' = leaving + 1

SendDep(r) ==
    /\ assembler[r] = "dep"
    /\ Cardinality(depCh) < DepCap
    /\ depCh' = depCh \cup {r}
    /\ Sent(r)
    /\ UNCHANGED <<listing, reqCh, retrying, depWait, closer, main, answer>>

AssemblerStep(r) == EnterPool(r) \/ AssembleDeployState(r) \/ SendDep(r)

AssemblerEnds ==
    /\ leaving > 0
    /\ leaving' = leaving - 1
    /\ UNCHANGED <<listing, reqCh, assembler, depCh, retrying, depWait, closer, main, answer>>

----------------------------------------------------------------------------
(* The collecting loop.                                                     *)

(* depWait.Done(), which panics on a count of zero.                         *)
Done ==
    IF depWait = 0
    THEN main' = "panicked" /\ UNCHANGED depWait
    ELSE depWait' = depWait - 1 /\ UNCHANGED main

ReceiveDep ==
    /\ \E r \in depCh : depCh' = depCh \ {r} /\ deps' = deps \cup {r}
    /\ Done
    /\ UNCHANGED <<listing, reqCh, assembly, retrying, closer, ignored>>

ErrsClosed == closer = "gone"

ReceiveMalformedMutant(r) ==         \* mutant: without depWait.Done()
    /\ assembler[r] = "malformed"
    /\ ~ErrsClosed
    /\ Sent(r)
    /\ ignored' = ignored \cup {r}
    /\ UNCHANGED <<listing, reqCh, depCh, retrying, closer, deps, main, depWait>>
ReceiveMalformed(r) ==
    /\ assembler[r] = "malformed"
    /\ ~ErrsClosed
    /\ Sent(r)
    /\ ignored' = ignored \cup {r}
    /\ Done
    /\ UNCHANGED <<listing, reqCh, depCh, retrying, closer, deps>>

(* retryCounter.maybe: the request is sent again a little later, or the     *)
(* limit is passed.                                                         *)
MayRetry(r) == retries[r] <= RetryLimit

ReceiveRetry(r) ==
    /\ assembler[r] = "retry"
    /\ ~ErrsClosed
    /\ Sent(r)
    /\ IF MayRetry(r)
       THEN /\ retries' = [retries EXCEPT ![r] = @ + 1]
            /\ sleeping' = sleeping \cup {r}
            /\ UNCHANGED main
       ELSE main' = "failed" /\ UNCHANGED retrying
    /\ UNCHANGED <<listing, reqCh, depCh, depWait, closer, answer>>

ReceiveFatal(r) ==
    /\ assembler[r] = "fatal"
    /\ ~ErrsClosed
    /\ Sent(r)
    /\ main' = "failed"
    /\ UNCHANGED <<listing, reqCh, depCh, retrying, depWait, closer, answer>>

(* The error of a lister is treated as one of a deployment.  A lister whose *)
(* list was malformed ends like any other; it is told apart for the         *)
(* properties.                                                              *)
ReceiveListError(s) ==
    /\ \/ /\ lister[s] = "malformed"
          /\ lister' = [lister EXCEPT ![s] = "dropped"]
          /\ Done
       \/ /\ lister[s] = "fatal"
          /\ lister' = [lister EXCEPT ![s] = "done"]
          /\ main' = "failed"
          /\ UNCHANGED depWait
    /\ UNCHANGED <<unsent, reqCh, assembly, depCh, retrying, closer, answer>>

Return ==
    /\ ErrsClosed
    /\ main' = "returned"
    /\ UNCHANGED <<listing, reqCh, assembly, depCh, retrying, depWait, closer, answer>>

MainStep ==
    \/ ReceiveDep
    \/ \E r \in Requests : ReceiveMalformed(r) \/ ReceiveRetry(r) \/ ReceiveFatal(r)
    \/ \E s \in Sings : ReceiveListError(s)
    \/ Return

----------------------------------------------------------------------------
(* The retry's send, which waits for room.  On the closed channel it panics *)
(* and the panic is caught.                                                 *)
ReqsClosed == closer \in {"errs", "gone"}

Retry(r) ==
    /\ r \in sleeping
    /\ ReqsClosed \/ Cardinality(reqCh) < ReqCap
    /\ sleeping' = sleeping \ {r}
    /\ reqCh' = IF ReqsClosed THEN reqCh ELSE reqCh \cup {r}
    /\ UNCHANGED <<listing, assembly, depCh, retries, depWait, closer, main, answer>>

(* The same for an error sent on the closed errCh.                          *)
SendErrorClosed(r) ==
    /\ assembler[r] \in Errors
    /\ ErrsClosed
    /\ Sent(r)
    /\ UNCHANGED <<listing, reqCh, depCh, retrying, depWait, closer, main, answer>>

(* The closing goroutine waits for the listers, for the requests to be      *)
(* dealt with and for the assemblers, then closes reqCh and errCh.          *)
DepsDoneMutant == TRUE                                      \* mutant: no depWait.Wait()
DepsDone == depWait = 0
AssemblersDone == Assembling = {} /\ leaving = 0

CloserStep ==
    /\ \/ /\ closer = "sing" /\ \A s \in Sings : lister[s] \in {"done", "dropped"}
          /\ closer' = "dep"
       \/ closer = "dep" /\ DepsDone /\ closer' = "assemble"
       \/ closer = "assemble" /\ AssemblersDone /\ closer' = "reqs"
       \/ closer = "reqs" /\ closer' = "errs"
       \/ closer = "errs" /\ closer' = "gone"
    /\ UNCHANGED <<listing, reqCh, assembly, depCh, retrying, depWait, main, answer>>

----------------------------------------------------------------------------
Next ==
    \/ /\ main = "loop"
       /\ \/ \E s \in Sings : ListerStep(s)
          \/ Dispatch
          \/ \E r \in Requests : AssemblerStep(r) \/ Retry(r) \/ SendErrorClosed(r)
          \/ AssemblerEnds
          \/ MainStep
          \/ CloserStep
    \/ main # "loop" /\ UNCHANGED vars

Spec == Init /\ [][Next]_vars

(* Goroutines are scheduled, requests to Singularity end and sleepers wake. *)
InLoop(A) == main = "loop" /\ A
Fairness ==
    /\ \A s \in Sings : WF_vars(InLoop(ListerStep(s)))
    /\ WF_vars(InLoop(Dispatch))
    /\ \A r \in Requests : /\ WF_vars(InLoop(AssemblerStep(r)))
                           /\ WF_vars(InLoop(Retry(r)))
                           /\ WF_vars(InLoop(SendErrorClosed(r)))
    /\ WF_vars(InLoop(AssemblerEnds))
    /\ WF_vars(InLoop(MainStep))
    /\ WF_vars(InLoop(CloserStep))

FairSpec == Spec /\ Fairness

----------------------------------------------------------------------------
(* Properties.                                                              *)

(* Requests sent and not dealt with, wherever they are.                     *)
Outstanding == reqCh \cup Assembling \cup depCh \cup sleeping

(* Every list of requests has been read as far as it has been asked for.    *)
ListsRead == \A s \in Sings : lister[s] # "dropped"

(* Until an error ends the loop the wait group counts exactly those: a      *)
(* retry keeps its count while it sleeps, and no result is counted off      *)
(* twice.                                                                   *)
CountsOutstanding ==
    ListsRead /\ main # "failed" => depWait = Cardinality(Outstanding)

(* If every list could be read, one returned without an error is complete   *)
(* but for deployments found malformed or not ours, and no goroutine is     *)
(* left behind, however results, retries and the closing of the channels    *)
(* interleave: the wait group that the closing waits for counts right.      *)
AllCollected ==
    /\ CountsOutstanding
    /\ ListsRead /\ main = "returned" =>
          /\ deps \cup ignored = Requests
          /\ Outstanding = {} /\ leaving = 0 /\ \A s \in Sings : lister[s] = "done"

(* RunningDeployments returns, a list or an error, whatever the             *)
(* Singularities answer for a request and however often.  That the lists of *)
(* requests themselves are readable is a premise: see NeverPanics.          *)
Returns == []ListsRead => <>(main \in {"returned", "failed"})

----------------------------------------------------------------------------
(* Said of the code by its comments or its use, and not so: see the README. *)

(* "returns a list of actual deployments", whatever the Singularities       *)
(* answered: what is returned without an error is complete.                 *)
ListIsComplete == main = "returned" => deps \cup ignored = Requests

(* The error of a list is counted off as if it were of a request (line 108) *)
(* and a result too many is not caught: the count must never go below zero. *)
NeverPanics == main # "panicked"
=============================================================================
