----------------------------- MODULE Concurrency -----------------------------
(***************************************************************************)
(* The concurrent containers and helpers of the libraries, one of them at  *)
(* a time: the maps generated from CMap for each of their key types, and   *)
(* the goroutines of FanIn.                                                *)
(***************************************************************************)
EXTENDS Naturals, FiniteSets, Sequences

CONSTANTS Procs, Maps, Dirs, MaxOps

VARIABLES part, m, held, did, result, ops, mode, st, closed, caller, manifests

cmapVars == <<m, held, did, result, ops>>
fanVars == <<mode, st, closed, caller, manifests>>
vars == <<part, m, held, did, result, ops, mode, st, closed, caller, manifests>>

\* A deployment is named by its cluster and its manifest, a manifest by its
\* source and flavour; a value is its name and its content.
Sources == {"s", "t"}
ManifestID(v) == v.source
DeploymentID(v) == <<v.cluster, v.source>>
One(v) == v.content = 1

Deployments ==
    INSTANCE CMap WITH Keys <- {<<"c", s>> : s \in Sources}, ID <- DeploymentID, Want <- One,
        Values <- [source : Sources, cluster : {"c"}, content : 1..2]

Manifests ==
    INSTANCE CMap WITH Keys <- Sources, ID <- ManifestID, Want <- One,
        Values <- [source : Sources, content : 1..2]

\* The values of DeployStates are deployments with a status.
DeployStates ==
    INSTANCE CMap WITH Keys <- {<<"c", s>> : s \in Sources}, ID <- DeploymentID, Want <- One,
        Values <- [source : Sources, cluster : {"c"}, content : {1}, status : {"active", "failed"}]

Fan == INSTANCE FanIn WITH Modes <- {"first", "all"}

Init ==
    /\ part \in {"deployments", "manifests", "deploystates", "fan"}
    /\ ops = IF part = "fan" THEN 0 ELSE MaxOps
    /\ part # "fan" => mode = "first"
    /\ Manifests!Init /\ Fan!Init

\* A call of a method of one of the maps.
DeploymentsCall == part = "deployments" /\ Deployments!Next /\ UNCHANGED fanVars
ManifestsCall == part = "manifests" /\ Manifests!Next /\ UNCHANGED fanVars
DeployStatesCall == part = "deploystates" /\ DeployStates!Next /\ UNCHANGED fanVars
FanStep == part = "fan" /\ Fan!Next /\ UNCHANGED cmapVars

Next ==
    /\ UNCHANGED part
    /\ DeploymentsCall \/ ManifestsCall \/ DeployStatesCall \/ FanStep

Spec == Init /\ [][Next]_vars

-----------------------------------------------------------------------------
\* AddReplacesNothing of each of the generated maps (lib/*_generated.go).
AddReplacesNothing ==
    Deployments!AddReplacesNothing /\ Manifests!AddReplacesNothing /\ DeployStates!AddReplacesNothing

\* NilMeansAll of the parallel helpers (firsterr.go:158-188, otpl.go:100-148).
NilMeansAll == Fan!NilMeansAll
=============================================================================
