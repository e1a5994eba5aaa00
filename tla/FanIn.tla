-------------------------------- MODULE FanIn --------------------------------
(***************************************************************************)
(* Functions run in goroutines of their own, each of which may send one    *)
(* message on an unbuffered channel before it is done; a further goroutine *)
(* closes the channel when all are done.  firsterr.Parallel waits for the  *)
(* first message, an error, and ParseManifests of the OTPL parser for      *)
(* every message, a configuration, until the channel is closed.            *)
(***************************************************************************)
EXTENDS Naturals, FiniteSets, Sequences, SequencesExt

CONSTANTS
    Modes,      \* of {"first", "all"}
    Dirs        \* the configuration directories, and the functions

\* A directory is a name, of a cluster and maybe a flavour and more, and
\* what its files are.
DirsAssumption == Modes \subseteq {"first", "all"} /\ IsFiniteSet(Dirs)

VARIABLES
    mode,
    st,         \* what a goroutine is doing
    closed,     \* the channel is closed
    caller,     \* "waits", or what it returned with
    manifests   \* flavour and cluster to the configuration it came from

vars == <<mode, st, closed, caller, manifests>>

getClusterAndFlavor(d) ==
    <<d.name[1], IF Len(d.name) > 1 THEN d.name[2] ELSE "">>

\* parseSingleOTPLConfig: nothing without a readable singularity.json; the
\* other file adds the instances and the owners, if it can be read.
parseSingleOTPLConfig(d) ==
    IF d.singularity # "readable" THEN {}
    ELSE {[of |-> d.name, owners |-> IF d.request = "readable" THEN {d.name} ELSE {}]}

Init ==
    /\ mode \in Modes
    /\ st = [d \in Dirs |-> "running"]
    /\ closed = FALSE
    /\ caller = "waits"
    /\ manifests = <<>>

\* The function returns; it has a message or is done.
Run(d) ==
    /\ st[d] = "running"
    /\ \/ /\ mode = "first"
          /\ st' = [st EXCEPT ![d] = "sending"]
       \/ /\ mode = "first" \/ parseSingleOTPLConfig(d) = {}
          /\ st' = [st EXCEPT ![d] = "done"]
       \/ /\ mode = "all" /\ parseSingleOTPLConfig(d) # {}
          /\ st' = [st EXCEPT ![d] = "sending"]
    /\ UNCHANGED <<mode, closed, caller, manifests>>

\* The message goes from the goroutine to the caller.
First(d) ==
    /\ mode = "first" /\ st[d] = "sending" /\ caller = "waits"
    /\ st' = [st EXCEPT ![d] = "done"]
    /\ caller' = "error"
    /\ UNCHANGED <<mode, closed, manifests>>

\* The specification of the cluster is set and the owners are added to
\* those of the flavour.
Collect(d) ==
    /\ mode = "all" /\ st[d] = "sending" /\ caller = "waits"
    /\ st' = [st EXCEPT ![d] = "done"]
    /\ \E c \in parseSingleOTPLConfig(d) :
        LET key == getClusterAndFlavor(d)
        IN manifests' = [k \in DOMAIN manifests \cup {key} |->
                             IF k = key THEN c ELSE manifests[k]]
    /\ UNCHANGED <<mode, closed, caller>>

CloseMutant ==                       \* mutant: Done before the send
    /\ ~closed
    /\ \A d \in Dirs : st[d] # "running"
    /\ closed' = TRUE
    /\ UNCHANGED <<mode, st, caller, manifests>>

\* wg.Wait(); close(errs)
Close ==
    /\ ~closed
    /\ \A d \in Dirs : st[d] = "done"
    /\ closed' = TRUE
    /\ UNCHANGED <<mode, st, caller, manifests>>


\* A receive from the closed channel: no error, or the end of the range.
Return ==
    /\ closed /\ caller = "waits"
    /\ caller' = "nil"
    /\ UNCHANGED <<mode, st, closed, manifests>>

Next == (\E d \in Dirs : Run(d) \/ First(d) \/ Collect(d)) \/ Close \/ Return

-----------------------------------------------------------------------------
\* A caller that returns without an error has waited for every function: none
\* of them is still running or had an error to tell, and every directory with
\* a readable configuration has its cluster and flavour in the manifests
\* (P.Set, P.Returned: firsterr.go:158-188; ParseManifests: otpl.go:100-148).
NilMeansAll ==
    caller = "nil" =>
        /\ \A d \in Dirs : st[d] = "done"
        /\ mode = "all" =>
               \A d \in Dirs : parseSingleOTPLConfig(d) # {} =>
                   getClusterAndFlavor(d) \in DOMAIN manifests

-----------------------------------------------------------------------------
(* Said of the code by its comments or its use, and not so: see the README. *)

\* The goroutines of a call that returned end.
NoneLeaks == \A d \in Dirs : caller = "error" => st[d] # "sending"

\* A directory's configuration is in the manifests.
EveryConfigIsTaken ==
    caller = "nil" /\ mode = "all" =>
        \A d \in Dirs : \A c \in parseSingleOTPLConfig(d) :
            c \in {manifests[k] : k \in DOMAIN manifests}
=============================================================================
