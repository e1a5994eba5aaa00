------------------------------- MODULE Tables -------------------------------
(****************************************************************************)
(* The tables of the PostgreSQL state manager, as storeManifests fills them *)
(* (ext/storage/postgresstatemanager_write.go), with the statements that    *)
(* util/sqlgen makes, and as loadState reads them back                      *)
(* (postgresstatemanager_read.go).  Stores has the transactions that these  *)
(* are parts of.                                                            *)
(*                                                                          *)
(* A state is a function from some <<manifest, cluster>> to deployments     *)
(* [kind, owners, version, env, volumes].  The tables of environment,       *)
(* resources and metadata are alike, and one stands for them; the columns   *)
(* of startup checks, instances and schedule go with the version.           *)
(****************************************************************************)
EXTENDS Naturals, Sequences, FiniteSets, SequencesExt, TLC

CONSTANTS Mids, Clusters, Kinds, Owners, Versions, Names, Values, Volumes,
          MaxRows, MaxWrites                     \* bounds

VARIABLES components,    \* a set of <<manifest, kind>>, unique
          clusters,      \* the rows of clusters that there are
          deployments,   \* rows, in the order of their ids
          owned,         \* component_owners
          envs,          \* for some <<deployment id, name>>, unique, the value
          volumes,       \* a set of <<deployment id, volume>>
          wrote, failed, \* the state that was written last, and whether a write failed since
          writes

tables == <<components, clusters, deployments, owned, envs, volumes>>
vars == <<tables, wrote, failed, writes>>

----------------------------------------------------------------------------
(* sqlgen: rows are functions from columns to sequences of values; those of *)
(* the candidate columns tell rows apart.                                   *)

dupes(r, other, candidates) == candidates # {} /\ \A c \in candidates : r[c] = other[c]
Row(rows, row, candidates) ==
    IF \E i \in DOMAIN rows : dupes(rows[i], row, candidates) THEN rows ELSE Append(rows, row)
FieldSet(added, candidates) == FoldLeft(LAMBDA rows, r : Row(rows, r, candidates), <<>>, added)

(* The statement has placeholders, numbered through, as many in a column as *)
(* its format has; the values are handed over in one sequence.              *)
InsertValues(rows, colnames) ==
    FlattenSeq([i \in DOMAIN rows |->
        FlattenSeq([j \in DOMAIN colnames |->
            IF colnames[j] \in DOMAIN rows[i] THEN rows[i][colnames[j]] ELSE <<>>])])
InsertSQL(rows, colnames, marks) ==      \* the numbers of the placeholders
    LET width == FoldLeft(LAMBDA n, c : n + marks[c], 0, colnames)
        before(j) == FoldLeft(LAMBDA n, c : n + marks[c], 0, SubSeq(colnames, 1, j - 1))
    IN  [i \in DOMAIN rows |->
            [c \in ToSet(colnames) |->
                LET j == CHOOSE j \in DOMAIN colnames : colnames[j] = c
                IN  [n \in 1..marks[c] |-> (i - 1) * width + before(j) + n]]]

(* What the database makes of the two.                                      *)
Received(rows, colnames, marks) ==
    LET vals == InsertValues(rows, colnames)
        places == InsertSQL(rows, colnames, marks)
    IN  [i \in DOMAIN rows |-> [c \in ToSet(colnames) |->
            [n \in 1..marks[c] |->
                IF places[i][c][n] <= Len(vals) THEN vals[places[i][c][n]] ELSE "missing"]]]

----------------------------------------------------------------------------
(* Writing.                                                                 *)

Component(did, d) == <<did[1], d.kind>>
Lifecycles == {"active", "decommissioned"}     \* the enumeration of the schema

(* The id that the rows of environment and volumes get: the newest active   *)
(* row of the component in the cluster.                                     *)
RowsOf(rows, comp, cluster) ==
    {i \in DOMAIN rows : rows[i].comp = comp /\ rows[i].cluster = cluster}
Newest(ids) == CHOOSE i \in ids : \A j \in ids : j <= i
depIDMutant(rows, did, d) ==               \* mutant: the first row
    CHOOSE i \in RowsOf(rows, Component(did, d), did[2]) :
        \A j \in RowsOf(rows, Component(did, d), did[2]) : i <= j
depID(rows, did, d) ==
    Newest({i \in RowsOf(rows, Component(did, d), did[2]) : rows[i].lifecycle = "active"})

DeploymentRow(did, d, lifecycle) ==
    [comp |-> Component(did, d), cluster |-> did[2], version |-> d.version, lifecycle |-> lifecycle]

(* The differences to what is read, before anything is written.             *)
SameVolumes(a, b) == Len(a) = Len(b) /\ ToSet(a) = ToSet(b)
Same(d, o) == [d EXCEPT !.volumes = <<>>] = [o EXCEPT !.volumes = <<>>] /\ SameVolumes(d.volumes, o.volumes)
Updates(cur, new) == {did \in DOMAIN new : did \notin DOMAIN cur \/ ~Same(cur[did], new[did])}
Deletes(cur, new) == DOMAIN cur \ DOMAIN new

(* A cluster that comes twice in one statement cannot be updated.           *)
ClusterRows(dids) == FieldSet(SetToSeq({[name |-> <<did[2]>>, of |-> <<did>>] : did \in dids}), {"name"})
Conflicting(rows) == \E i, j \in DOMAIN rows : i # j /\ rows[i].name = rows[j].name

(* A deletion is a row of its own, whose lifecycle is spelt as no other:    *)
(* it is refused, and everything is rolled back.                            *)
Tombstone == "decommisioned"
Insertable(cur, new) ==
    /\ ~Conflicting(ClusterRows(Updates(cur, new) \cup Deletes(cur, new)))
    /\ Deletes(cur, new) # {} => Tombstone \in Lifecycles

storeManifests(cur, new) ==
    LET updates == Updates(cur, new)
        rows == deployments \o SetToSeq({DeploymentRow(did, new[did], "active") : did \in updates})
                            \o SetToSeq({DeploymentRow(did, cur[did], Tombstone) : did \in Deletes(cur, new)})
        added == UNION {{<<depID(rows, did, new[did]), n>> : n \in DOMAIN new[did].env} : did \in updates}
        keyed(key) == CHOOSE v \in Values : \E did \in updates :
            /\ key[1] = depID(rows, did, new[did]) /\ key[2] \in DOMAIN new[did].env
            /\ v = new[did].env[key[2]]
    IN  /\ components' = components \cup {Component(did, new[did]) : did \in updates}
                         \cup {Component(did, cur[did]) : did \in Deletes(cur, new)}
        /\ clusters' = clusters \cup {did[2] : did \in updates \cup Deletes(cur, new)}
        /\ deployments' = rows
        /\ owned' = owned \cup UNION {{<<Component(did, new[did]), o>> : o \in new[did].owners} : did \in updates}
        /\ envs' = [key \in DOMAIN envs \cup added |->
                       IF key \in DOMAIN envs THEN envs[key] ELSE keyed(key)]
        /\ volumes' = volumes \cup UNION {{<<depID(rows, did, new[did]), v>> : v \in ToSet(new[did].volumes)}
                                          : did \in updates}

----------------------------------------------------------------------------
(* Reading.  loadManifests: one row for every combination of what hangs on  *)
(* a deployment, in any order; a manifest has the kind that comes first and *)
(* all owners, a deployment the version that comes first and all entries.   *)

Live == {i \in DOMAIN deployments :
            i = Newest(RowsOf(deployments, deployments[i].comp, deployments[i].cluster))
            /\ deployments[i].lifecycle # "decommissioned"}
LiveOf(did) == {i \in Live : deployments[i].comp[1] = did[1] /\ deployments[i].cluster = did[2]}
LiveKinds(mid) == {deployments[i].comp[2] : i \in {i \in Live : deployments[i].comp[1] = mid}}

EntriesOf(ids) ==
    {env \in UNION {[ns -> Values] : ns \in {{key[2] : key \in {key \in DOMAIN envs : key[1] \in ids}}}} :
        \A n \in DOMAIN env : \E key \in DOMAIN envs : key[1] \in ids /\ key[2] = n /\ envs[key] = env[n]}
VolumesOf(ids) == {v[2] : v \in {v \in volumes : v[1] \in ids}}

Readings(did) ==
    {[kind |-> kind, version |-> deployments[i].version, env |-> env,
      volumes |-> SetToSeq(VolumesOf(LiveOf(did))),
      owners |-> {o[2] : o \in {o \in owned : o[1][1] = did[1] /\ o[1][2] \in LiveKinds(did[1])}}]
     : kind \in LiveKinds(did[1]), i \in LiveOf(did), env \in EntriesOf(LiveOf(did))}

(* loadClusters: a row for every advisory of the cluster, or one without;   *)
(* with each of them come the failure statuses.                             *)
loadCluster(statuses, advisories) ==
    [statuses |-> FlattenSeq([i \in 1..(IF advisories = <<>> THEN 1 ELSE Len(advisories)) |-> statuses]),
     advisories |-> advisories]

loadState ==
    LET dids == {did \in Mids \X Clusters : did[2] \in clusters /\ LiveOf(did) # {}}
    IN  {st \in [dids -> UNION {Readings(did) : did \in dids}] :
            /\ \A did \in dids : st[did] \in Readings(did)
            /\ \A did, o \in dids : did[1] = o[1] => st[did].kind = st[o].kind}

----------------------------------------------------------------------------
(* Whatever is written: the state that was, with a deployment changed,      *)
(* added or removed.                                                        *)

Deployment == [kind : Kinds, owners : SUBSET Owners, version : Versions,
               env : UNION {[ns -> Values] : ns \in SUBSET Names},
               volumes : {<<>>} \cup {<<v>> : v \in Volumes} \cup {<<v, v>> : v \in Volumes}]

(* What is of the manifest is the same in all its deployments.              *)
Changed(st, did, d) ==
    [o \in DOMAIN st \cup {did} |->
        IF o = did THEN d
        ELSE IF o[1] = did[1] THEN [st[o] EXCEPT !.kind = d.kind, !.owners = d.owners] ELSE st[o]]

(* cur is what has been read in the same transaction.                       *)
WriteState(cur, new) ==
    /\ writes' = writes + 1
    /\ Len(deployments) + Cardinality(Updates(cur, new)) <= MaxRows
    /\ IF Insertable(cur, new) THEN storeManifests(cur, new) /\ wrote' = new /\ failed' = FALSE
       ELSE failed' = TRUE /\ UNCHANGED <<tables, wrote>>

Init == /\ components = {} /\ clusters = {} /\ deployments = <<>>
        /\ owned = {} /\ envs = [key \in {} |-> 0] /\ volumes = {}
        /\ wrote = [did \in {} |-> 0] /\ failed = FALSE /\ writes = 0
Writable ==
    {Changed(wrote, did, d) : did \in Mids \X Clusters, d \in Deployment}
    \cup {[o \in DOMAIN wrote \ {did} |-> wrote[o]] : did \in DOMAIN wrote}
Next == writes < MaxWrites /\ \E new \in Writable, cur \in loadState : WriteState(cur, new)
Spec == Init /\ [][Next]_vars

----------------------------------------------------------------------------
(* Rows are only added: a deployment that returns to an earlier state has a *)
(* row more, and what hangs on the rows before is not read with it.  What   *)
(* is read is what was written last - but for a kind that changed, an owner *)
(* that left, and a volume that is there twice: see below.                  *)
Regular ==
    /\ \A mid \in Mids : Cardinality(LiveKinds(mid)) <= 1
    /\ \A o \in owned : \A did \in DOMAIN wrote : did[1] = o[1][1] => o[2] \in wrote[did].owners
    /\ \A did \in DOMAIN wrote : ~\E i, j \in DOMAIN wrote[did].volumes :
          i # j /\ wrote[did].volumes[i] = wrote[did].volumes[j]
WrittenIsRead ==
    Regular => \A st \in loadState :
        DOMAIN st = DOMAIN wrote /\ \A did \in DOMAIN st : Same(st[did], wrote[did])

----------------------------------------------------------------------------
(* Said of the code by its comments or its use, and not so: see the README. *)

(* A deletion can be written: its lifecycle is not one of the schema's.     *)
WritesSucceed == ~failed

(* With two kinds there are two deployments of which one is read, with the  *)
(* entries of both.                                                         *)
KindsAreApart ==
    \A st \in loadState : \A did \in DOMAIN st \cap DOMAIN wrote : st[did].env = wrote[did].env

(* Owners who left are gone.                                                *)
OwnersLeave ==
    \A st \in loadState : \A did \in DOMAIN st \cap DOMAIN wrote : st[did].owners = wrote[did].owners

(* What is written again as it is adds nothing: a volume that is there      *)
(* twice is read once, and so differs for ever.                             *)
SameAddsNothing == [][wrote' = wrote => UNCHANGED deployments]_vars
=============================================================================
