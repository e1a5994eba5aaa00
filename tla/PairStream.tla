----------------------------- MODULE PairStream -----------------------------
(****************************************************************************)
(* What the end of a pipeline of DeployableChans promises the two loops     *)
(* that drain it (lib/resolver.go: queueDiffs over Pairs, the forwarder     *)
(* over Errs): every pair comes out of exactly one of the two channels,     *)
(* once, and both channels are closed in the end.                           *)
(****************************************************************************)
CONSTANT Deps      \* the deployments whose pairs enter the pipeline

VARIABLES
    refusable,     \* pairs that the processors may turn into errors
    pending,       \* pairs that neither loop has received
    passed,        \* pairs received from Pairs
    failed,        \* pairs whose DiffResolution was received from Errs
    pairsClosed,   \* the loop over Pairs has ended
    errsClosed     \* the loop over Errs has ended

streamVars == <<refusable, pending, passed, failed, pairsClosed, errsClosed>>

StreamInit ==
    /\ refusable \subseteq Deps
    /\ pending = Deps
    /\ passed = {}
    /\ failed = {}
    /\ pairsClosed = FALSE
    /\ errsClosed = FALSE

(* A pair is received from Pairs.                                           *)
Pass(d) ==
    /\ ~pairsClosed
    /\ d \in pending
    /\ pending' = pending \ {d}
    /\ passed' = passed \cup {d}
    /\ UNCHANGED <<failed, pairsClosed, errsClosed>>

(* Its resolution, an error, is received from Errs instead.                 *)
Fail(d) ==
    /\ ~errsClosed
    /\ d \in pending \cap refusable
    /\ pending' = pending \ {d}
    /\ failed' = failed \cup {d}
    /\ UNCHANGED <<passed, pairsClosed, errsClosed>>

(* The channels close in either order, Pairs when only errors can be left;  *)
(* when both have closed, nothing is left.                                  *)
ClosePairs ==
    /\ ~pairsClosed
    /\ pending \subseteq refusable
    /\ errsClosed => pending = {}
    /\ pairsClosed' = TRUE
    /\ UNCHANGED <<pending, passed, failed, errsClosed>>

CloseErrs ==
    /\ ~errsClosed
    /\ pairsClosed => pending = {}
    /\ errsClosed' = TRUE
    /\ UNCHANGED <<pending, passed, failed, pairsClosed>>

StreamNext ==
    /\ \/ \E d \in Deps : Pass(d) \/ Fail(d)
       \/ ClosePairs
       \/ CloseErrs
    /\ UNCHANGED refusable

StreamSafety == StreamInit /\ [][StreamNext]_streamVars
StreamFairness == WF_streamVars(StreamNext)
StreamSpec == StreamSafety /\ StreamFairness
=============================================================================
