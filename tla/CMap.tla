-------------------------------- MODULE CMap ---------------------------------
(***************************************************************************)
(* A map behind a read-write lock, the blueprint of which Deployments,     *)
(* Manifests and DeployStates are generated.  A method that takes the lock *)
(* once is one step; those that take a snapshot of one map and go on with  *)
(* another are two.                                                        *)
(***************************************************************************)
EXTENDS Naturals, FiniteSets

CONSTANTS
    Procs,      \* the callers
    Maps,       \* the maps they share
    Keys,
    Values,     \* an entry's value
    ID(_),      \* the key a value says it has
    Want(_)     \* a predicate on values

VARIABLES
    m,          \* the contents of the maps
    held,       \* the snapshot a caller holds between two locks
    did,        \* the method whose last step was taken and its map
    result,     \* the maps returned to the callers
    ops         \* the calls still to be made

vars == <<m, held, did, result, ops>>

None == [k \in {} |-> 0]

\* The map f with the entries of g, which come out on top.
With(f, g) ==
    [k \in DOMAIN f \cup DOMAIN g |-> IF k \in DOMAIN g THEN g[k] ELSE f[k]]

Filtered(f) == [k \in {j \in DOMAIN f : Want(f[j])} |-> f[k]]

\* Clone adds the values to a new map under the keys they say they have; of
\* two with the same key the first to be added stays.
Clones(f) ==
    LET ids == {ID(f[k]) : k \in DOMAIN f}
    IN {c \in [ids -> Values] : \A i \in ids : ID(c[i]) = i /\ \E k \in DOMAIN f : f[k] = c[i]}

Init ==
    /\ m = [x \in Maps |-> None]
    /\ held = [p \in Procs |-> [of |-> "none"]]
    /\ did = [op |-> "none"]
    /\ result = [p \in Procs |-> None]
    /\ ops \in Nat

Free(p) == held[p].of = "none" /\ ops > 0 /\ ops' = ops - 1

Did(op, x) == did' = [op |-> op, map |-> x]

Set(p) ==
    /\ Free(p)
    /\ \E x \in Maps, k \in Keys, v \in Values :
        m' = [m EXCEPT ![x] = With(@, [j \in {k} |-> v])] /\ Did("Set", x)
    /\ UNCHANGED <<held, result>>

\* Add and MustAdd; NewCMap adds its values in the same way.
Add(p) ==
    /\ Free(p)
    /\ \E x \in Maps, v \in Values :
        /\ m' = [m EXCEPT ![x] = With([j \in {ID(v)} |-> v], @)]
        /\ Did("Add", x)
    /\ UNCHANGED <<held, result>>

Remove(p) ==
    /\ Free(p)
    /\ \E x \in Maps, k \in Keys :
        m' = [m EXCEPT ![x] = [j \in DOMAIN @ \ {k} |-> @[j]]] /\ Did("Remove", x)
    /\ UNCHANGED <<held, result>>

\* Filter, FilteredSnapshot, Single and Any: one look at the map.
Filter(p) ==
    /\ Free(p)
    /\ \E x \in Maps : result' = [result EXCEPT ![p] = Filtered(m[x])] /\ Did("Filter", x)
    /\ UNCHANGED <<m, held>>

Clone(p) ==
    /\ Free(p)
    /\ \E x \in Maps :
        /\ \E c \in Clones(m[x]) : result' = [result EXCEPT ![p] = c]
        /\ Did("Clone", x)
    /\ UNCHANGED <<m, held>>

\* Snapshot, the first step of AddAll and of Merge.
Snapshot(p) ==
    /\ Free(p)
    /\ \E x \in Maps, then \in {"AddAll", "Merge"} :
        held' = [held EXCEPT ![p] = [of |-> then, map |-> x, snap |-> m[x]]]
    /\ did' = [op |-> "none"]
    /\ UNCHANGED <<m, result>>

Release(p) == held' = [held EXCEPT ![p] = [of |-> "none"]]

AddAllMutant(p) ==                   \* mutant: what does not conflict is added
    /\ held[p].of = "AddAll"
    /\ \E x \in Maps : m' = [m EXCEPT ![x] = With(@, held[p].snap)] /\ Did("AddAll", x)
    /\ Release(p)
    /\ UNCHANGED <<result, ops>>

\* All of the snapshot or, when one key is there already, nothing.
AddAll(p) ==
    /\ held[p].of = "AddAll"
    /\ \E x \in Maps :
        /\ m' = IF DOMAIN m[x] \cap DOMAIN held[p].snap = {}
                THEN [m EXCEPT ![x] = With(@, held[p].snap)] ELSE m
        /\ Did("AddAll", x)
    /\ Release(p)
    /\ UNCHANGED <<result, ops>>

Merge(p) ==
    /\ held[p].of = "Merge"
    /\ \E x \in Maps :
        /\ result' = [result EXCEPT ![p] = With(held[p].snap, m[x])]
        /\ Did("Merge", x)
    /\ Release(p)
    /\ UNCHANGED <<m, ops>>

Next ==
    \E p \in Procs :
        \/ Set(p) \/ Add(p) \/ Remove(p) \/ Filter(p) \/ Clone(p)
        \/ Snapshot(p) \/ AddAll(p) \/ Merge(p)

-----------------------------------------------------------------------------
\* Only Set replaces an entry and only Remove takes one away: what AddAll
\* looked up and what it writes are the same moment's, though its snapshot
\* of the other map is of an earlier one (CMap.Add, CMap.AddAll:
\* cmap.go:160-205).
AddReplacesNothing ==
    [][\A x \in Maps : \A k \in DOMAIN m[x] :
           \/ k \in DOMAIN m'[x] /\ m'[x][k] = m[x][k]
           \/ did'.op \in {"Set", "Remove"}]_vars

-----------------------------------------------------------------------------
(* Said of the code by its comments or its use, and not so: see the README. *)

\* "Clone returns a pairwise copy of CMap" (cmap.go:141).
CloneIsCopy ==
    [][\A p \in Procs :
           did'.op = "Clone" /\ result'[p] # result[p] =>
               DOMAIN result'[p] = DOMAIN m[did'.map]]_vars
=============================================================================
