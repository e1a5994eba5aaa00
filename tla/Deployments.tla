---------------------------- MODULE Deployments ----------------------------
(****************************************************************************)
(* Manifests, what is written down, and deployments, what they amount to    *)
(* with the defaults of the clusters (lib/map_state_to_deployments.go):     *)
(* merging and unmerging defaults, comparing, and the flaws a state may     *)
(* have.  Nothing here has state.                                           *)
(*                                                                          *)
(* A manifest is owners (a sequence), a kind and a spec for each of some    *)
(* clusters.  A spec is                                                     *)
(*   [version, instances, env, metadata, resources, volumes, startup,       *)
(*    schedule]                                                             *)
(* and a deployment is a spec with owners (a set) and a kind; what          *)
(* identifies it, a manifest and a cluster, is the key it is found under.   *)
(* env, metadata and resources are functions on sets of names.  A startup   *)
(* is [skip, seconds, path, protocol, failures]: `seconds' stands for the   *)
(* seven integers, which the code treats alike, and the failure statuses    *)
(* are a set, since the code sorts them before it compares.                 *)
(****************************************************************************)
EXTENDS Integers, Sequences, FiniteSets, SequencesExt, TLC

Empty == [n \in {} |-> 0]
NoVolume == 0                        \* a nil *Volume
NoKind == ""
Service == "http-service"
Scheduled == "scheduled"
RequestKinds == {Service, "worker", "on-demand", Scheduled, "once"}
ManifestKinds == RequestKinds \cup {"scheduled-job"}

----------------------------------------------------------------------------
(* Startup checks.                                                          *)

zeroStartup == [skip |-> FALSE, seconds |-> 0, path |-> "", protocol |-> "", failures |-> {}]

(* s is the cluster's, base the spec's: what the spec leaves zero.          *)
MergeDefaults(s, base) ==
    [f \in DOMAIN base |-> IF base[f] = zeroStartup[f] THEN s[f] ELSE base[f]]

(* What the cluster gives anyway is left out, unless it was written before. *)
UnmergeDefaults(s, base, old) ==
    [f \in DOMAIN base |->
        IF base[f] = s[f] /\ old[f] = zeroStartup[f] THEN zeroStartup[f] ELSE base[f]]

(* The fields two startups differ in; those of a skipped check do not count.*)
StartupDiff(s, o) ==
    LET l == IF s.skip THEN zeroStartup ELSE s
        r == IF o.skip THEN zeroStartup ELSE o
    IN  {f \in DOMAIN zeroStartup \ {"skip"} : l[f] # r[f]}
        \cup (IF s.skip # o.skip THEN {"skip"} ELSE {})

FatalStartup(s) ==
    /\ ~s.skip
    /\ \/ s.seconds < 0
       \/ s.protocol \notin {"http", "https", "HTTP", "HTTPS"}
       \/ \E code \in s.failures : code < 0
ShoutedStartup(s) == ~s.skip /\ s.protocol \in {"http", "https"}

----------------------------------------------------------------------------
(* Resources, in thousandths; a value that is no number is Junk.            *)

Junk == -1
Defaults == [cpus |-> 100, memory |-> 100000, ports |-> 1000]
Amount(r, n) == IF n \in DOMAIN r /\ r[n] # Junk THEN r[n] ELSE Defaults[n]

Near(a, b) == -1 <= a - b /\ a - b <= 1
ResourcesEqual(r, o) ==
    /\ Cardinality(DOMAIN r) = Cardinality(DOMAIN o)
    /\ Amount(r, "ports") = Amount(o, "ports")
    /\ \A n \in {"cpus", "memory"} : Near(Amount(r, n), Amount(o, n))

MissingResources(r) == DOMAIN Defaults \ DOMAIN r

----------------------------------------------------------------------------
(* Volumes, as bags; nil is never equal to anything, comparing it panics.   *)

Copies(vs, v) == {i \in DOMAIN vs : vs[i] = v}
VolumesEqual(vs, o) ==
    /\ Len(vs) = Len(o)
    /\ \A v \in ToSet(vs) \cup ToSet(o) :
          Cardinality(Copies(vs, v)) = Cardinality(Copies(o, v))

(* Repair moves the others down in the array, which the manifest and the    *)
(* deployment share; only the deployment's slice is cut shorter.            *)
WithoutNil(vs) ==
    LET kept == {i \in DOMAIN vs : vs[i] # NoVolume}
        nth(n) == CHOOSE i \in kept : Cardinality({j \in kept : j <= i}) = n
    IN  [n \in 1..Cardinality(kept) |-> vs[nth(n)]]
RepairedInPlace(vs) ==
    [i \in DOMAIN vs |-> IF i <= Len(WithoutNil(vs)) THEN WithoutNil(vs)[i] ELSE vs[i]]

----------------------------------------------------------------------------
(* Owners.                                                                  *)

NewOwnerSet(owners) == ToSet(owners)

(* Each owner once.                                                         *)
InOrder(owners) ==
    /\ owners \in Seq(Int)
    /\ \A i, j \in DOMAIN owners : i < j => owners[i] < owners[j]

(* A set as a sorted slice, and a slice sorted in place, which has each     *)
(* entry as often as before.                                                *)
Ascending(s) == \A i, j \in DOMAIN s : i < j => s[i] <= s[j]
Slice(owners) ==
    CHOOSE s \in [1..Cardinality(owners) -> owners] : InOrder(s) /\ ToSet(s) = owners
Sorted(s) == CHOOSE t \in [DOMAIN s -> ToSet(s)] : Ascending(t) /\ VolumesEqual(t, s)
OwnersDiff(os, o) == Cardinality(os) # Cardinality(o) \/ \E owner \in os : owner \notin o

----------------------------------------------------------------------------
(* Comparing.  The schedule is the deployment's to compare, not the spec's. *)

ConfigDiff(c, o) ==
    {f \in {"instances", "env", "metadata"} : c[f] # o[f]}
    \cup (IF ResourcesEqual(c.resources, o.resources)
             \/ (c.resources = Empty /\ o.resources = Empty) THEN {} ELSE {"resources"})
    \cup (IF VolumesEqual(c.volumes, o.volumes) THEN {} ELSE {"volumes"})
    \cup (IF StartupDiff(c.startup, o.startup) = {} THEN {} ELSE {"startup"})

SpecDiff(spec, other) ==
    ConfigDiff(spec, other) \cup (IF spec.version # other.version THEN {"version"} ELSE {})

Diff(d, o) ==
    {f \in {"version", "kind"} : d[f] # o[f]}
    \cup (IF OwnersDiff(d.owners, o.owners) THEN {"owners"} ELSE {})
    \cup (IF d.kind = Scheduled /\ d.schedule # o.schedule THEN {"schedule"} ELSE {})
    \cup ConfigDiff(d, o)

ManifestDiff(m, o) ==
    \/ m.kind # o.kind
    \/ Len(m.owners) # Len(o.owners) \/ OwnersDiff(NewOwnerSet(m.owners), NewOwnerSet(o.owners))
    \/ DOMAIN m.specs # DOMAIN o.specs
    \/ \E c \in DOMAIN m.specs : SpecDiff(m.specs[c], o.specs[c]) # {}

----------------------------------------------------------------------------
(* From manifests to deployments.  defs[c] is a cluster's [env, startup].   *)

(* own entries win over the cluster's.                                      *)
Over(own, cluster) ==
    [n \in DOMAIN own \cup DOMAIN cluster |-> IF n \in DOMAIN own THEN own[n] ELSE cluster[n]]

zeroSpec == [version |-> 0, instances |-> 0, env |-> Empty, metadata |-> Empty,
             resources |-> Empty, volumes |-> <<>>, startup |-> zeroStartup, schedule |-> ""]

(* The shape of what is written down, where every owner is named once and   *)
(* in order.                                                                *)
IsMap(f) == f = [n \in DOMAIN f |-> f[n]]
IsStartup(s) == IsMap(s) /\ DOMAIN s = DOMAIN zeroStartup
IsSpec(s) ==
    /\ IsMap(s) /\ DOMAIN s = DOMAIN zeroSpec
    /\ IsMap(s.env) /\ IsMap(s.metadata) /\ IsMap(s.resources) /\ IsStartup(s.startup)
    /\ s.volumes \in Seq(ToSet(s.volumes))
IsManifest(m) ==
    /\ m = [owners |-> m.owners, kind |-> m.kind, specs |-> m.specs]
    /\ InOrder(m.owners)
    /\ IsMap(m.specs) /\ \A c \in DOMAIN m.specs : IsSpec(m.specs[c])
IsCluster(d) == IsMap(d.env) /\ IsStartup(d.startup)

(* A spec with those it inherits from, of which there are none: the first   *)
(* that says anything counts, for a map entry by entry; the last startup.   *)
flattenDeployConfigs(ss) ==
    LET set(f) == SelectInSeq(ss, LAMBDA s : s[f] # zeroSpec[f])
        first(f) == IF set(f) = 0 THEN zeroSpec[f] ELSE ss[set(f)][f]
        all(f) == FoldLeft(LAMBDA own, s : Over(own, s[f]), Empty, ss)
    IN  [f \in DOMAIN zeroSpec |->
            CASE f \in {"version", "instances", "volumes", "schedule"} -> first(f)
              [] f \in {"env", "metadata", "resources"} -> all(f)
              [] f = "startup" -> Last(ss).startup]

BuildDeployment(m, written, cluster) ==
    LET spec == flattenDeployConfigs(<<written>>)
    IN  [[n \in DOMAIN spec \cup {"owners", "kind"} |->
            IF n = "owners" THEN NewOwnerSet(m.owners) ELSE IF n = "kind" THEN m.kind ELSE spec[n]]
         EXCEPT !.startup = MergeDefaults(cluster.startup, spec.startup),
                !.env = Over(spec.env, cluster.env)]

Defined(ms, defs) == \A id \in DOMAIN ms : DOMAIN ms[id].specs \subseteq DOMAIN defs

(* An id is <<manifest, cluster>>, so there is never a conflict.            *)
DeploymentsOf(ms, defs) ==
    [did \in {did \in (DOMAIN ms) \X (DOMAIN defs) : did[2] \in DOMAIN ms[did[1]].specs} |->
        BuildDeployment(ms[did[1]], ms[did[1]].specs[did[2]], defs[did[2]])]

(* And back.  An entry that the cluster gives anyway stays if it was there. *)
PutbackEnvMutant(env, cluster, oldEnv) ==      \* mutant: whatever was written before
    [n \in {n \in DOMAIN env : ~(n \in DOMAIN cluster /\ cluster[n] = env[n])} |-> env[n]]
PutbackEnv(env, cluster, oldEnv) ==
    [n \in {n \in DOMAIN env : n \in DOMAIN cluster /\ cluster[n] = env[n] => n \in DOMAIN oldEnv}
        |-> env[n]]

OldSpec(olds, id, c) ==
    IF id \in DOMAIN olds /\ c \in DOMAIN olds[id].specs THEN olds[id].specs[c] ELSE zeroSpec

DeploySpec(d) == [n \in DOMAIN zeroSpec |-> d[n]]
PutbackSpec(d, cluster, old) ==
    [DeploySpec(d) EXCEPT !.startup = UnmergeDefaults(cluster.startup, d.startup, old.startup),
                          !.env = PutbackEnv(d.env, cluster.env, old.env)]

ManifestID(did) == did[1]

(* The deployments are visited in the order of a map.  A manifest has the   *)
(* owners of the first of its deployments, sorted, and the kind of the last.*)
ClustersOf(ds, id) == {c \in {did[2] : did \in DOMAIN ds} : <<id, c>> \in DOMAIN ds}
ManifestOf(ds, id, specs) ==
    LET cs == ClustersOf(ds, id)
    IN  {[owners |-> Slice(ds[<<id, visit[1]>>].owners), kind |-> ds[<<id, visit[2]>>].kind,
          specs |-> specs]
         : visit \in {v \in cs \X cs : v[1] = v[2] => cs = {v[1]}}}
ManifestsOf(ds, spec) ==
    LET ids == {ManifestID(did) : did \in DOMAIN ds}
        choices == [id \in ids |-> ManifestOf(ds, id, [c \in ClustersOf(ds, id) |-> spec[<<id, c>>]])]
    IN  {ms \in [ids -> UNION {choices[id] : id \in ids}] : \A id \in ids : ms[id] \in choices[id]}

(* Each deployment carries the cluster that it has been merged with.        *)
PutbackManifests(ds, clusters, olds) ==
    ManifestsOf(ds, [did \in DOMAIN ds |->
                        PutbackSpec(ds[did], clusters[did], OldSpec(olds, did[1], did[2]))])

(* With all that they have of their clusters.                               *)
RawManifests(ds) == ManifestsOf(ds, [did \in DOMAIN ds |-> DeploySpec(ds[did])])

(* State.UpdateDeployments: the deployments of the state, with ds over them.*)
Carried(ds, defs) == [did \in DOMAIN ds |-> defs[did[2]]]
UpdateDeployments(ms, defs, ds) ==
    LET all == Over(ds, DeploymentsOf(ms, defs)) IN PutbackManifests(all, Carried(all, defs), ms)

----------------------------------------------------------------------------
(* Flaws.  Only a manifest's own flaw is repaired in the manifest: the      *)
(* others are repaired in deployments that are then forgotten.              *)

FlawedKind(kind) == kind \notin ManifestKinds
FatalKind(kind) == kind \notin ManifestKinds \cup {NoKind}

ConfigFlawed(c) ==
    \/ NoVolume \in ToSet(c.volumes)
    \/ MissingResources(c.resources) # {}
    \/ FatalStartup(c.startup) \/ ShoutedStartup(c.startup)
DeploymentFlawed(d) == FlawedKind(d.kind) \/ ConfigFlawed(d)
ManifestFlawed(m) == FlawedKind(m.kind)

StateFatal(ms, defs) ==
    \/ ~Defined(ms, defs)
    \/ \E id \in DOMAIN ms : FatalKind(ms[id].kind)
    \/ \E did \in DOMAIN DeploymentsOf(ms, defs) :
          FatalStartup(DeploymentsOf(ms, defs)[did].startup)

Validate(ms, defs) ==                \* there are flaws
    \/ ~Defined(ms, defs)
    \/ \E id \in DOMAIN ms : ManifestFlawed(ms[id])
    \/ \E did \in DOMAIN DeploymentsOf(ms, defs) : DeploymentFlawed(DeploymentsOf(ms, defs)[did])

(* repairState, where nothing is fatal.                                     *)
Repaired(ms) ==
    [id \in DOMAIN ms |->
        [owners |-> Sorted(ms[id].owners),
         kind |-> IF ms[id].kind = NoKind THEN Service ELSE ms[id].kind,
         specs |-> [c \in DOMAIN ms[id].specs |->
                      [ms[id].specs[c] EXCEPT !.volumes = RepairedInPlace(@)]]]]
=============================================================================
