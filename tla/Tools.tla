------------------------------- MODULE Tools -------------------------------
(****************************************************************************)
(* What lies under and beside the server, one part at a time: the cache of  *)
(* image names and the builder that fills it, the tables of the PostgreSQL  *)
(* store, the deploy, init and metadata commands, their configuration, and  *)
(* the concurrent containers of the libraries.                              *)
(****************************************************************************)
EXTENDS Naturals, Sequences, FiniteSets

CONSTANTS
    Procs, MaxOps, MaxFaults,
    Sids, Tags, Images, NoName, TagOf, SidOf, RevOf, AdvisoriesOf,        \* of NameCache
    Builds, Inputs, Second, Spelling,                                  \* of Build
    Mids, Kinds, Owners, Versions, Names, Values, Volumes, MaxRows, MaxWrites,
    Repos, Offsets, Flavors, Flags, Contexts, Clusters, Servers, Detected, Existing,
    PollIntervalForClient, MaxOthers,                                  \* of Command
    Environments, Answers, Edited, Arguments, MaxRuns,                 \* of Config
    Maps, Dirs                                                         \* of Concurrency

VARIABLES
    part,
    tags, pushed, meta, names, quals, lost, nextId, proc, ops, faults, mixed,
    pc, in, ctx, prods, at, containers, local, registry, inserted, labelled, stamps, failures,
    components, clusters, deployments, owned, envs, volumes, wrote, failed, writes,
    cmd, gdm, metadata, item, others,
    file, dirs, commands, said, unsure, runs, mishaps,
    container, m, held, did, result, calls, mode, st, closed, caller, manifests

Cache == INSTANCE NameCache WITH None <- NoName, Advisories <- AdvisoriesOf
Builder == INSTANCE Build WITH names <- inserted, faults <- failures
Database == INSTANCE Tables
CommandLine == INSTANCE Command WITH meta <- metadata
Configuration == INSTANCE Config WITH proc <- commands, faults <- mishaps
Containers == INSTANCE Concurrency WITH part <- container, ops <- calls

ASSUME CacheAssumption == Cache!LabelsAssumption
ASSUME BuilderAssumption == Builder!BuildsAssumption
ASSUME CommandAssumption == CommandLine!FlagsAssumption
ASSUME ConfigAssumption == Configuration!EditedAssumption
ASSUME ContainersAssumption == Containers!Fan!DirsAssumption

cacheVars == <<tags, pushed, meta, names, quals, lost, nextId, proc, ops, faults, mixed>>
buildVars ==
    <<pc, in, ctx, prods, at, containers, local, registry, inserted, labelled, stamps, failures>>
tableVars ==
    <<components, clusters, deployments, owned, envs, volumes, wrote, failed, writes>>
commandVars == <<cmd, gdm, metadata, item, others>>
configVars == <<file, dirs, commands, said, unsure, runs, mishaps>>
containerVars ==
    <<container, m, held, did, result, calls, mode, st, closed, caller, manifests>>
vars == <<part, cacheVars, buildVars, tableVars, commandVars, configVars, containerVars>>

(* What is not at work stays in one of its initial states.                  *)
Init ==
    /\ part \in {"cache", "build", "tables", "command", "config", "containers"}
    /\ Cache!Init /\ Database!Init /\ CommandLine!Init /\ Configuration!Init
    /\ Containers!Init
    /\ part # "containers" => container = "fan" /\ mode = "first"
    /\ Builder!Init
    /\ part # "build" => in = [b \in Builds |-> CHOOSE i \in Inputs[b] : TRUE]

Others(mine) ==
    /\ UNCHANGED part
    /\ mine # "cache" => UNCHANGED cacheVars
    /\ mine # "build" => UNCHANGED buildVars
    /\ mine # "tables" => UNCHANGED tableVars
    /\ mine # "command" => UNCHANGED commandVars
    /\ mine # "config" => UNCHANGED configVars
    /\ mine # "containers" => UNCHANGED containerVars

Next ==
    \/ part = "cache" /\ Cache!Next /\ Others("cache")
    \/ part = "build" /\ Builder!Next /\ Others("build")
    \/ part = "tables" /\ Database!Next /\ Others("tables")
    \/ part = "command" /\ CommandLine!Next /\ Others("command")
    \/ part = "config" /\ Configuration!Next /\ Others("config")
    \/ part = "containers" /\ Containers!Next /\ Others("containers")

Spec == Init /\ [][Next]_vars

----------------------------------------------------------------------------
(* Properties.                                                              *)

(* No image is found before all its advisories are in (image_mapping.go).   *)
AdvisoriesKept == Cache!AdvisoriesKept

(* An image that the cache has the name of is found (image_mapping.go).     *)
FoundIfThere == Cache!FoundIfThere

(* What a builder tells the cache is in the registry (ext/docker/build.go). *)
RecordedIsPushed == Builder!RecordedIsPushed

(* What is read from the tables is what was written last                    *)
(* (postgresstatemanager_write.go, postgresstatemanager_read.go).           *)
WrittenIsRead == Database!WrittenIsRead

(* A command changes what its user has named (cli/, lib/resolvefilter.go).  *)
NamedIsChanged == CommandLine!NamedIsChanged

(* What is set in the configuration stays set (graph/local_config.go).      *)
SetIsKept == Configuration!SetIsKept

(* A fan-in that returns nil has waited for all (firsterr.go, otpl.go).     *)
NilMeansAll == Containers!NilMeansAll

(* Add and AddAll replace no entry of a map (the generated cmaps).          *)
AddReplacesNothing == Containers!AddReplacesNothing
=============================================================================
