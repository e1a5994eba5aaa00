----------------------------- MODULE Manifests -----------------------------
(****************************************************************************)
(* What becomes of a manifest that a client changes through the GDM.  The   *)
(* client is sent the defaults of the clusters, then the deployments, each  *)
(* merged with its cluster's defaults (lib/http_state_manager.go); makes    *)
(* manifests of them, in which everything is written out; updates one       *)
(* deployment (cli/actions/update.go); and sends all deployments, which the *)
(* server unmerges by what its own manifests leave to the defaults          *)
(* (lib/map_state_to_deployments.go).  The git repository takes a change of *)
(* one file.  Meanwhile manifests are set and the defaults edited.  The PUT *)
(* is one step here: its reads of the store are in GDMService.              *)
(****************************************************************************)
EXTENDS Deployments

CONSTANTS InitialManifests, InitialDefs,
          Written,      \* manifests that users set
          ClusterDefaults,  \* [env, startup] that an operator gives a cluster
          Versions,
          MaxChanges    \* bound

(* What users and operators write has the shape of manifests and defaults.  *)
ContentAssumption ==
    /\ IsMap(InitialManifests)
    /\ \A m \in {InitialManifests[id] : id \in DOMAIN InitialManifests} \cup Written : IsManifest(m)
    /\ Defined(InitialManifests, InitialDefs)
    /\ IsMap(InitialDefs)
    /\ \A d \in {InitialDefs[c] : c \in DOMAIN InitialDefs} \cup ClusterDefaults : IsCluster(d)

VARIABLES ms, defs,     \* as they are in the repository
          client, changes

vars == <<ms, defs, client, changes>>

idle == [at |-> "idle"]
Init == ms = InitialManifests /\ defs = InitialDefs /\ client = idle /\ changes = 0

----------------------------------------------------------------------------
(* The client.                                                              *)

GetDefs ==
    /\ client.at = "idle"
    /\ client' = [at |-> "gdm", defs |-> defs]
    /\ UNCHANGED <<ms, defs, changes>>

(* torn and base are for the properties: whether the defaults have changed  *)
(* between the two answers, and the manifests that the second was made of.  *)
GetManifests ==
    /\ client.at = "gdm"
    /\ \E raw \in RawManifests(DeploymentsOf(ms, defs)) :
          client' = [at |-> "update", defs |-> client.defs, ms |-> raw,
                     torn |-> client.defs # defs, base |-> ms]
    /\ UNCHANGED <<ms, defs, changes>>

(* A deployment that there is not is made of nothing, and has flaws.        *)
zeroDeployment == [n \in DOMAIN zeroSpec \cup {"owners", "kind"} |->
                      IF n = "owners" THEN {} ELSE IF n = "kind" THEN NoKind ELSE zeroSpec[n]]
Updated(gdm, did, version) ==
    [d \in {did} |->
        [IF did \in DOMAIN gdm THEN gdm[did] ELSE zeroDeployment EXCEPT !.version = version]]

Update(id, c, version) ==
    /\ client.at = "update"
    /\ \/ id \notin DOMAIN client.ms /\ client' = idle
       \/ /\ id \in DOMAIN client.ms
          /\ \E new \in UpdateDeployments(client.ms, client.defs,
                           Updated(DeploymentsOf(client.ms, client.defs), <<id, c>>, version)) :
                client' = IF Validate(new, client.defs) THEN idle
                          ELSE [at |-> "put", ds |-> DeploymentsOf(new, client.defs), defs |-> client.defs,
                                torn |-> client.torn, base |-> client.base,
                                asked |-> [id |-> id, c |-> c, version |-> version]]
    /\ UNCHANGED <<ms, defs, changes>>

----------------------------------------------------------------------------
(* The server.                                                              *)

assertOneChange(new) == Cardinality({id \in DOMAIN new : id \notin DOMAIN ms \/ new[id] # ms[id]}) <= 1

(* Files of manifests that are no more are left as they are.                *)
Stored(new) == Over(new, ms)
WriteState(new) ==
    IF ~StateFatal(new, defs) /\ assertOneChange(Repaired(new)) THEN ms' = Stored(Repaired(new)) ELSE UNCHANGED ms

PutGDM ==
    /\ client.at = "put"
    /\ \E new \in PutbackManifests(client.ds, Carried(client.ds, client.defs), ms) :
          IF Validate(new, defs) THEN UNCHANGED ms ELSE WriteState(new)
    /\ client' = idle
    /\ UNCHANGED <<defs, changes>>

(* `sous manifest set', by another client.                                  *)
PutManifest(id, m) ==
    /\ changes < MaxChanges /\ changes' = changes + 1
    /\ ~ManifestFlawed(m)
    /\ WriteState(Over([n \in {id} |-> m], ms))
    /\ UNCHANGED <<defs, client>>

(* The defaults are edited in the repository.                               *)
EditDefs(c, cluster) ==
    /\ changes < MaxChanges /\ changes' = changes + 1
    /\ defs' = [defs EXCEPT ![c] = cluster]
    /\ UNCHANGED <<ms, client>>

Next ==
    \/ GetDefs \/ GetManifests \/ PutGDM
    \/ \E id \in DOMAIN InitialManifests, c \in DOMAIN defs, v \in Versions : Update(id, c, v)
    \/ \E id \in DOMAIN InitialManifests, m \in Written : PutManifest(id, m)
    \/ \E c \in DOMAIN defs, d \in ClusterDefaults : EditDefs(c, d)
Spec == Init /\ [][Next]_vars

----------------------------------------------------------------------------
(* An update of one deployment changes the version in that spec and nothing *)
(* else that is written: what is left to the defaults is still left to      *)
(* them, and what is written is still written, be it the same as a default, *)
(* even if the defaults have been edited since they were read.              *)
ChangesVersion(a) == ms' = [ms EXCEPT ![a.id].specs[a.c].version = a.version]
OnlyTheVersion ==
    [][client.at = "put" /\ client' = idle /\ ~client.torn /\ client.base = ms /\ ms' # ms =>
         ChangesVersion(client.asked)]_vars

----------------------------------------------------------------------------
(* Said of the code by its comments or its use, and not so: see the README. *)

(* The same, of any update.  Defaults that are edited between the answers   *)
(* to the client's two requests are written into the manifest.              *)
DefaultsAreNotWritten ==
    [][client.at = "put" /\ client' = idle /\ client.base = ms /\ ms' # ms =>
         ChangesVersion(client.asked)]_vars

(* What others have written since is not undone.                            *)
OthersAreKept ==
    [][client.at = "put" /\ client' = idle /\ ~client.torn /\ ms' # ms =>
         ChangesVersion(client.asked)]_vars
=============================================================================
