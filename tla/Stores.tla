------------------------------- MODULE Stores -------------------------------
(****************************************************************************)
(* Where servers keep the GDM: a git repository that they share, and beside *)
(* it, on every read and every write, a database each.  The duplex manager  *)
(* (ext/storage/duplexstatemanager.go) hands whatever it reads or writes to *)
(* a dispatcher (lib/dispatchstatemanager.go), which writes the deployments *)
(* of the server's own cluster to its PostgreSQL (postgresstatemanager*.go) *)
(* and sends those of the others to their servers (http_state_manager.go),  *)
(* which then read and write in the same way.                               *)
(*                                                                          *)
(* Every server is named by its cluster.  There is one manifest, since no   *)
(* row is of two: a state is [kind, owners, specs], and a deployment is     *)
(* [kind, owners, spec].  A thread is a stack of calls, across servers.     *)
(****************************************************************************)
EXTENDS Naturals, Sequences, FiniteSets, SequencesExt

CONSTANTS Servers, Siblings, Kinds, Owners, Specs, None,
          Initially,                           \* the GDM to begin with
          Defined,                             \* the servers whose database knows their cluster
          MaxEdits, MaxFaults, MaxRows, MaxDepth   \* bounds

ASSUME StoresAssumption ==
    /\ Siblings \in [Servers -> SUBSET Servers] /\ \A s \in Servers : s \notin Siblings[s]
    /\ None \notin Specs /\ Defined \subseteq Servers
    /\ Initially \in [kind : Kinds, owners : SUBSET Owners, specs : [Servers -> Specs \cup {None}]]

Editor == "editor"
Threads == Servers \cup {Editor}       \* an auto-resolver each, and clients

VARIABLES gdm, rev,      \* the git repository
          rows,          \* per server: the table of deployments, [kind, spec]
          owned,         \* per server and kind: the owners of the component
          updater,       \* per server and sibling: HTTPStateManager.clusterUpdaters
          stack, held,   \* per thread
          edits, faults

database == <<rows, owned>>
vars == <<gdm, rev, database, updater, stack, held, edits, faults>>

Deployment(st, c) ==
    IF st.specs[c] = None THEN None ELSE [kind |-> st.kind, owners |-> st.owners, spec |-> st.specs[c]]

----------------------------------------------------------------------------
(* PostgreSQL.  A component is a manifest and a kind, and a deployment is   *)
(* the newest row of its component.                                         *)

Newest(rs, kind) == SelectLastInSeq(rs, LAMBDA r : r.kind = kind)
StoredKinds(rs) == {r.kind : r \in ToSet(rs)}

(* loadManifests: the first row of a manifest gives the kind and the spec,  *)
(* all of them give owners.                                                 *)
loadState(s) ==
    IF rows[s] = <<>> THEN {None}
    ELSE {[kind |-> k, owners |-> UNION {owned[s][j] : j \in StoredKinds(rows[s])},
           spec |-> rows[s][Newest(rows[s], k)].spec] : k \in StoredKinds(rows[s])}

(* storeManifests: a row more, and what owners are new.                     *)
storeManifests(s, d) ==
    /\ rows' = [rows EXCEPT ![s] = Append(@, [kind |-> d.kind, spec |-> d.spec])]
    /\ owned' = [owned EXCEPT ![s][d.kind] = @ \cup d.owners]

----------------------------------------------------------------------------
(* Calls.                                                                   *)

Read(s) == [srv |-> s, op |-> "read", at |-> "primary", st |-> None, etag |-> 0,
            todo |-> Siblings[s] \cup {s}, to |-> None, dep |-> None, snap |-> 0]
Write(s, st, etag) == [Read(s) EXCEPT !.op = "write", !.at = "dispatch", !.st = st, !.etag = etag]

top(t) == Last(stack[t])
Goes(t, f) == stack' = [stack EXCEPT ![t] = Append(Front(@), f)]
Calls(t, f, g) == /\ Len(stack[t]) < MaxDepth
                  /\ stack' = [stack EXCEPT ![t] = Front(@) \o <<f, g>>]
Fault == faults < MaxFaults /\ faults' = faults + 1

(* The secondary has failed, which is logged, or is done.                   *)
AfterSecondary(f) == [f EXCEPT !.at = IF f.op = "read" THEN "return" ELSE "commit"]

(* A call ends.  To the caller, which is at another server, it is the       *)
(* answer of one of the requests that writing a cluster takes: a GET for    *)
(* something to update, and a PUT, for which the server reads twice and     *)
(* then writes.  The deployments of the PUT replace those of the cluster;   *)
(* the manifest has the owners and the kind of one or the other.            *)
Merged(old, new, c) ==
    LET specs == [old.specs EXCEPT ![c] = IF new.specs[c] = None THEN @ ELSE new.specs[c]]
        from == (IF new.specs[c] # None THEN {new} ELSE {})
                \cup (IF \E x \in Servers \ {c} : old.specs[x] # None THEN {old} ELSE {})
                \cup (IF new.specs[c] = None /\ old.specs[c] # None THEN {old} ELSE {})
    IN  {[kind |-> x.kind, owners |-> y.owners, specs |-> specs] : x, y \in from}
        \cup (IF from = {} THEN {old} ELSE {})

Parent(t) == stack[t][Len(stack[t]) - 1]
Returned(t, frames) == stack' = [stack EXCEPT ![t] = Front(Front(@)) \o frames]

Return(t, ok) ==
    LET f == top(t)  p == Parent(t)  fails == <<AfterSecondary(p)>> IN
    IF Len(stack[t]) = 1
    THEN /\ stack' = [stack EXCEPT ![t] = <<>>]
         /\ held' = [held EXCEPT ![t] = IF t = Editor /\ ok /\ f.op = "read" THEN f ELSE None]
         /\ UNCHANGED updater
    ELSE /\ UNCHANGED held
         /\ \/ /\ ~ok /\ Returned(t, fails) /\ UNCHANGED updater
            \/ /\ ok /\ p.at = "get"
               /\ updater' = [updater EXCEPT ![p.srv][p.to] = "spent"]
               /\ Returned(t, <<[p EXCEPT !.at = "check"], Read(p.to)>>)
            \/ /\ ok /\ p.at = "check" /\ UNCHANGED updater
               /\ Returned(t, <<[p EXCEPT !.at = "reread"], Read(p.to)>>)
            \/ /\ ok /\ p.at = "reread" /\ UNCHANGED updater
               /\ \E st \in Merged(f.st, p.st, p.to) :
                     Returned(t, <<[p EXCEPT !.at = "put"], Write(p.to, st, f.etag)>>)
            \/ /\ ok /\ p.at = "put" /\ UNCHANGED updater
               /\ Returned(t, <<[p EXCEPT !.at = "dispatch"]>>)

----------------------------------------------------------------------------
(* The duplex manager: what is read is then written to the secondary; what  *)
(* is written is written to the secondary first.                            *)

ReadPrimaryMutant(t) ==                  \* mutant: only writes go to the secondary
    /\ top(t).at = "primary"
    /\ \/ Goes(t, [top(t) EXCEPT !.at = "return", !.st = gdm, !.etag = rev]) /\ UNCHANGED <<faults, updater, held>>
       \/ Fault /\ Return(t, FALSE)
    /\ UNCHANGED <<gdm, rev, database, edits>>
ReadPrimary(t) ==
    /\ top(t).at = "primary"
    /\ \/ Goes(t, [top(t) EXCEPT !.at = "dispatch", !.st = gdm, !.etag = rev]) /\ UNCHANGED <<faults, updater, held>>
       \/ Fault /\ Return(t, FALSE)
    /\ UNCHANGED <<gdm, rev, database, edits>>

WritePrimary(t) ==
    LET f == top(t) IN
    /\ f.at = "commit"
    /\ \/ /\ f.etag = rev /\ gdm' = f.st /\ rev' = (IF f.st = gdm THEN rev ELSE rev + 1)
          /\ Return(t, TRUE) /\ UNCHANGED faults
       \/ f.etag # rev /\ Return(t, FALSE) /\ UNCHANGED <<gdm, rev, faults>>
       \/ Fault /\ Return(t, FALSE) /\ UNCHANGED <<gdm, rev>>
    /\ UNCHANGED <<database, edits>>

ReturnRead(t) ==
    /\ top(t).at = "return"
    /\ \/ Return(t, TRUE) /\ UNCHANGED faults
       \/ Len(stack[t]) > 1 /\ Fault /\ Return(t, FALSE)        \* the answer is lost
    /\ UNCHANGED <<gdm, rev, database, edits>>

(* The dispatcher: the clusters in the order of a map, up to the first that *)
(* fails.  An updater is good for one PUT: the answer to it has no Etag.    *)
DispatchEnds(t) ==
    /\ top(t).at = "dispatch" /\ top(t).todo = {}
    /\ Goes(t, AfterSecondary(top(t)))
    /\ UNCHANGED <<gdm, rev, database, updater, held, edits, faults>>
DispatchLocal(t) ==
    LET f == top(t) IN
    /\ f.at = "dispatch" /\ f.srv \in f.todo
    /\ Goes(t, [f EXCEPT !.at = "read", !.todo = @ \ {f.srv}])
    /\ UNCHANGED <<gdm, rev, database, updater, held, edits, faults>>
DispatchRemote(t, c) ==
    LET f == top(t)  g == [f EXCEPT !.todo = @ \ {c}, !.to = c] IN
    /\ f.at = "dispatch" /\ c \in f.todo \ {f.srv}
    /\ \/ updater[f.srv][c] = "none" /\ Calls(t, [g EXCEPT !.at = "get"], Read(c))
       \/ updater[f.srv][c] = "spent" /\ Goes(t, AfterSecondary(f))
    /\ UNCHANGED <<gdm, rev, database, updater, held, edits, faults>>

----------------------------------------------------------------------------
(* clusterManagerDecorator.WriteCluster on the database: the state is read, *)
(* the deployments laid over it, and written in another transaction.  A     *)
(* cluster that the database does not define is an error.                   *)

ReadCluster(t) ==
    LET f == top(t) IN
    /\ f.at = "read"
    /\ \E old \in loadState(f.srv) :
          LET d == IF Deployment(f.st, f.srv) = None THEN old ELSE Deployment(f.st, f.srv) IN
          \/ Goes(t, IF d = None THEN [f EXCEPT !.at = "dispatch"]
                     ELSE IF f.srv \in Defined THEN [f EXCEPT !.at = "begin", !.dep = d]
                     ELSE AfterSecondary(f)) /\ UNCHANGED faults
          \/ Fault /\ Goes(t, AfterSecondary(f))
    /\ UNCHANGED <<gdm, rev, database, updater, held, edits>>

(* The transaction compares with what it sees at its begin, and commits if  *)
(* no other has written its cluster since: that is repeatable read.         *)
BeginTx(t) ==
    LET f == top(t) IN
    /\ f.at = "begin"
    /\ \E cur \in loadState(f.srv) :
          Goes(t, IF cur = f.dep THEN [f EXCEPT !.at = "dispatch"]
                  ELSE [f EXCEPT !.at = "store", !.snap = Len(rows[f.srv])])
    /\ UNCHANGED <<gdm, rev, database, updater, held, edits, faults>>
CommitTx(t) ==
    LET f == top(t) IN
    /\ f.at = "store"
    /\ \/ /\ Len(rows[f.srv]) = f.snap /\ f.snap < MaxRows /\ UNCHANGED faults
          /\ storeManifests(f.srv, f.dep) /\ Goes(t, [f EXCEPT !.at = "dispatch"])
       \/ /\ Len(rows[f.srv]) # f.snap \/ f.snap = MaxRows
          /\ UNCHANGED <<database, faults>> /\ Goes(t, AfterSecondary(f))
       \/ Fault /\ UNCHANGED database /\ Goes(t, AfterSecondary(f))
    /\ UNCHANGED <<gdm, rev, updater, held, edits>>

----------------------------------------------------------------------------
(* What the servers are asked to do.                                        *)

Resolve(s) ==                       \* a cycle of the auto-resolver reads the state
    /\ stack[s] = <<>> /\ stack' = [stack EXCEPT ![s] = <<Read(s)>>]
    /\ UNCHANGED <<gdm, rev, database, updater, held, edits, faults>>

Edited(st) ==
    {[st EXCEPT !.specs[c] = v] : c \in Servers, v \in Specs \cup {None}}
    \cup {[st EXCEPT !.kind = k] : k \in Kinds} \cup {[st EXCEPT !.owners = o] : o \in SUBSET Owners}
EditRead(s) ==
    /\ stack[Editor] = <<>> /\ held[Editor] = None /\ edits < MaxEdits /\ edits' = edits + 1
    /\ stack' = [stack EXCEPT ![Editor] = <<Read(s)>>]
    /\ UNCHANGED <<gdm, rev, database, updater, held, faults>>
EditWrite ==
    LET h == held[Editor] IN
    /\ stack[Editor] = <<>> /\ h # None
    /\ \E st \in Edited(h.st) \ {h.st} : stack' = [stack EXCEPT ![Editor] = <<Write(h.srv, st, h.etag)>>]
    /\ held' = [held EXCEPT ![Editor] = None]
    /\ UNCHANGED <<gdm, rev, database, updater, edits, faults>>

Init ==
    /\ gdm = Initially
    /\ rev = 1
    /\ rows = [s \in Servers |-> <<>>]
    /\ owned = [s \in Servers |-> [k \in Kinds |-> {}]]
    /\ updater = [s \in Servers |-> [c \in Siblings[s] |-> "none"]]
    /\ stack = [t \in Threads |-> <<>>] /\ held = [t \in Threads |-> None]
    /\ edits = 0 /\ faults = 0

Step(t) ==
    /\ stack[t] # <<>>
    /\ \/ ReadPrimary(t) \/ WritePrimary(t) \/ ReturnRead(t)
       \/ DispatchEnds(t) \/ DispatchLocal(t) \/ \E c \in Servers : DispatchRemote(t, c)
       \/ ReadCluster(t) \/ BeginTx(t) \/ CommitTx(t)
Next == \/ \E t \in Threads : Step(t)
        \/ \E s \in Servers : Resolve(s) \/ EditRead(s)
        \/ EditWrite

(* Calls go on, and the auto-resolvers run cycle after cycle.               *)
Fairness == /\ \A t \in Threads : WF_vars(Step(t))
            /\ \A s \in Servers : WF_vars(Resolve(s))
Spec == Init /\ [][Next]_vars /\ Fairness

----------------------------------------------------------------------------
(* Properties.                                                              *)

(* A read may overtake a write and put an old state into the database, a    *)
(* write may be refused by git after the database has it, and conflicting   *)
(* transactions fail: in the end the database of a server without siblings  *)
(* has what git has, since every cycle reads and every read writes.         *)
InStep(s) ==
    LET d == Deployment(gdm, s) IN
    d # None /\ StoredKinds(rows[s]) \subseteq {d.kind} /\ owned[s][d.kind] \subseteq d.owners
    /\ Len(rows[s]) < MaxRows
        => loadState(s) = {d}
CatchesUp == \A s \in Defined : Siblings[s] = {} => <>[]InStep(s)

----------------------------------------------------------------------------
(* Said of the code by its comments or its use, and not so: see the README. *)

(* "ensures that writes occur to the secondary one": to a database that is  *)
(* empty nothing is ever written.                                           *)
EmptyIsFilled == \A s \in Servers : Siblings[s] = {} => <>[]InStep(s)

(* Nor does it lose what git has lost.                                      *)
RemovedIsRemoved == \A s \in Servers : []<>(gdm.specs[s] = None => loadState(s) = {None})

(* With one sibling, the second PUT to it fails, and where its cluster      *)
(* comes first in the map, the own is not written.                          *)
AllCatchUp == \A s \in Defined : <>[]InStep(s)

(* Reading leaves the GDM alone: what it sends to a sibling may be old.     *)
ReadsOnlyRead == [][\A s \in Servers : stack'[s] # stack[s] => UNCHANGED gdm]_vars

(* Siblings that are each other's: every read of one has the other read.    *)
NotTooDeep == \A t \in Threads : Len(stack[t]) < MaxDepth
=============================================================================
